----------------------------- MODULE MainWindow -----------------------------
(***************************************************************************)
(* The GUI's main window with its credentials prompt and Tailscale dialog, *)
(* in front of the daemon.                                                 *)
(*                                                                         *)
(* Clicks, answers of the dialogs and the daemon's messages are handled on *)
(* one looper.  The prompt is application-modal: while it is open there    *)
(* are no clicks, but the daemon's messages keep coming, and scripting     *)
(* (hey) does too.  One open prompt at a time, and two requests in flight, *)
(* are bounds of the model.                                                *)
(***************************************************************************)
EXTENDS DaemonClient

CONSTANT Tailnets       \* the names of the profiles that are Tailscale's

ASSUME WindowAssumption == Tailnets \subseteq ProfileNames

VARIABLES
    fState,                     \* what the window shows
    listed,                     \* its copy of the list (fProfiles)
    row,                        \* CurrentSelection of the list view, 0 for none
    fSelectedName,
    prompt,                     \* the profile the open prompt names
    passwords,                   \* the names a password or auth key is stored for
    fLastConnectProfile,
    fLastUsedStoredCredentials,
    fConnectedProfile           \* NoName when fHasConnectedProfile is false

listVars == <<listed, row, fSelectedName>>
credentialVars == <<passwords, fLastConnectProfile, fLastUsedStoredCredentials>>
windowVars == <<fState, listVars, prompt, credentialVars, fConnectedProfile>>
guiVars == <<daemonVars, windowVars>>

\* The constructor: nothing known, subscribed and the status asked for.
WindowInit ==
    /\ DaemonInit
    /\ toDaemon = <<>>
    /\ fState = "DISCONNECTED"
    /\ listed = <<>> /\ row = 0 /\ fSelectedName = NoName
    /\ prompt = NoName
    /\ passwords = {}
    /\ fLastConnectProfile = NoName
    /\ fLastUsedStoredCredentials = FALSE
    /\ fConnectedProfile = NoName

-----------------------------------------------------------------------------
Send(m) == toDaemon' = Append(toDaemon, m)
Silent == UNCHANGED toDaemon

InList(list) == {list[i] : i \in DOMAIN list}

\* _SelectedProfile, as a name: the remembered name, if the list has it.
SelectedProfile == IF fSelectedName \in InList(listed) THEN fSelectedName ELSE NoName

\* The user's hand is free, and the daemon is keeping up.
Clickable == prompt = NoName /\ Len(toDaemon) < 2

\* _EnsureSubscribed.
EnsureSubscribed ==
    /\ ~subscribed /\ toDaemon = <<>>
    /\ toDaemon' = <<[what |-> "subscribe"], [what |-> "getStatus"]>>
    /\ UNCHANGED <<session, reports, saved, subscribed, toClient, windowVars>>

\* _SendConnectWith: to the profile selected now.
SendConnectWith ==
    IF SelectedProfile = NoName
    THEN Silent /\ UNCHANGED fLastConnectProfile
    ELSE /\ fLastConnectProfile' = SelectedProfile
         /\ Send([what |-> "connect", name |-> SelectedProfile])

\* _BeginConnectFlow: Tailscale and a stored password connect at once, anything
\* else opens the prompt.
BeginConnectFlow ==
    /\ IF SelectedProfile = NoName
       THEN Silent /\ UNCHANGED <<prompt, fLastConnectProfile, fLastUsedStoredCredentials>>
       ELSE /\ fLastUsedStoredCredentials' = (SelectedProfile \in passwords \ Tailnets)
            /\ IF SelectedProfile \in passwords \cup Tailnets
               THEN SendConnectWith /\ UNCHANGED prompt
               ELSE prompt' = SelectedProfile /\ Silent /\ UNCHANGED fLastConnectProfile
    /\ UNCHANGED passwords

SendDisconnect ==
    /\ Send([what |-> "disconnect"])
    /\ UNCHANGED <<prompt, credentialVars>>

\* The header's button: connect when idle, disconnect otherwise.
PrimaryAction ==
    /\ Clickable
    /\ IF fState \in Down THEN BeginConnectFlow ELSE SendDisconnect
    /\ UNCHANGED <<session, reports, saved, subscribed, toClient, fState, listVars,
                   fConnectedProfile>>

\* The menu's items are never greyed out, and hey's come past an open prompt.
MenuAction ==
    /\ Len(toDaemon) < 2
    /\ (prompt # NoName => SelectedProfile \in passwords \cup Tailnets)
    /\ BeginConnectFlow \/ SendDisconnect
    /\ UNCHANGED <<session, reports, saved, subscribed, toClient, fState, listVars,
                   fConnectedProfile>>

\* kMsgCredentialsOK: both the saving and the connecting look up the selection
\* anew.
CredentialsOK ==
    /\ prompt # NoName
    /\ prompt' = NoName
    /\ SendConnectWith
    /\ \E remember \in BOOLEAN :
         passwords' = IF remember THEN passwords \cup ({SelectedProfile} \ {NoName})
                     ELSE passwords
    /\ UNCHANGED <<session, reports, saved, subscribed, toClient, fState, listVars,
                   fLastUsedStoredCredentials, fConnectedProfile>>

CredentialsCancel ==
    /\ prompt # NoName
    /\ prompt' = NoName
    /\ UNCHANGED <<daemonVars, fState, listVars, credentialVars, fConnectedProfile>>

-----------------------------------------------------------------------------
\* kMsgProfileSelected, for a click or for a programmatic Select().
ReadSelection ==
    fSelectedName' = IF row \in DOMAIN listed THEN listed[row] ELSE NoName

SelectRow ==
    /\ prompt = NoName
    /\ \E i \in DOMAIN listed : row' = i /\ fSelectedName' = listed[i]
    /\ UNCHANGED <<daemonVars, fState, listed, prompt, credentialVars, fConnectedProfile>>

\* _ImportFile and _CreateTailscaleProfile, the user agreeing to replace: the
\* name is selected before the daemon has it, and only a tailnet's key is kept.
AddProfile ==
    /\ Clickable /\ subscribed
    /\ \E n \in ProfileNames, hasKey \in BOOLEAN :
         /\ fSelectedName' = n
         /\ passwords' = IF n \notin Tailnets THEN passwords
                        ELSE IF hasKey THEN passwords \cup {n} ELSE passwords \ {n}
         /\ Send([what |-> "save", name |-> n])
    /\ UNCHANGED <<session, reports, saved, subscribed, toClient, fState, listed, row,
                   prompt, fLastConnectProfile, fLastUsedStoredCredentials,
                   fConnectedProfile>>

\* _DeleteSelectedProfile, confirmed: the secrets go with the profile.
DeleteSelectedProfile ==
    /\ Clickable /\ SelectedProfile # NoName
    /\ Send([what |-> "delete", name |-> SelectedProfile])
    /\ passwords' = passwords \ {SelectedProfile}
    /\ fSelectedName' = NoName
    /\ UNCHANGED <<session, reports, saved, subscribed, toClient, fState, listed, row,
                   prompt, fLastConnectProfile, fLastUsedStoredCredentials,
                   fConnectedProfile>>

\* _ForgetSelectedPassword, confirmed: a tailnet's key is not a password.
ForgetSelectedPassword ==
    /\ Clickable /\ SelectedProfile \in ProfileNames \ Tailnets
    /\ passwords' = passwords \ {SelectedProfile}
    /\ UNCHANGED <<daemonVars, fState, listVars, prompt, fLastConnectProfile,
                   fLastUsedStoredCredentials, fConnectedProfile>>

-----------------------------------------------------------------------------
KeepsRow(names) ==
    /\ row' = row
    /\ fSelectedName' = fSelectedName

\* _RefreshProfileList.  No remembered name: the row that was selected decides.
\* A name the list does not have gives way to the first one.
RefreshProfileList(names) ==
    LET kept == IF fSelectedName = NoName /\ row \in DOMAIN names
                THEN names[row] ELSE fSelectedName
        at   == CHOOSE i \in DOMAIN names :
                  names[i] = IF kept \in InList(names) THEN kept ELSE names[1]
    IN IF names = <<>>
       THEN row' = 0 /\ fSelectedName' = NoName
       ELSE row' = at /\ fSelectedName' = names[at]

\* _ApplyProfileList; Select() posts the list's selection message.
ListArrives ==
    /\ toClient # <<>> /\ Head(toClient).what = "profiles"
    /\ LET names == Head(toClient).names
       IN /\ listed' = names
          /\ RefreshProfileList(names)
          /\ toClient' = IF names = <<>> THEN Tail(toClient)
                         ELSE Append(Tail(toClient), [what |-> "selected"])
    /\ UNCHANGED <<session, reports, saved, subscribed, toDaemon, fState, prompt,
                   credentialVars, fConnectedProfile>>

SelectionArrives ==
    /\ toClient # <<>> /\ Head(toClient).what = "selected"
    /\ toClient' = Tail(toClient)
    /\ ReadSelection
    /\ UNCHANGED <<session, reports, saved, subscribed, toDaemon, fState, listed, row,
                   prompt, credentialVars, fConnectedProfile>>

\* _UpdateForState: the first report of an authentication failure drops the
\* password remembered as the one in use.
UpdateForState(state, detail) ==
    LET failed == state = "ERROR" /\ fState # "ERROR"
    IN /\ fState' = state
       /\ fLastUsedStoredCredentials' = (fLastUsedStoredCredentials /\ ~failed)
       /\ passwords' = IF /\ failed /\ detail = "authentication failed"
                         /\ fLastUsedStoredCredentials
                         /\ fLastConnectProfile # NoName
                      THEN passwords \ {fLastConnectProfile}
                      ELSE passwords

\* kMsgStatusUpdate.
StatusArrives ==
    /\ toClient # <<>> /\ Head(toClient).what = "status"
    /\ toClient' = Tail(toClient)
    /\ LET m == Head(toClient)
       IN /\ UpdateForState(m.state, m.detail)
          /\ fConnectedProfile' = m.profile
    /\ UNCHANGED <<session, reports, saved, subscribed, toDaemon, listVars, prompt,
                   fLastConnectProfile>>

WindowNext ==
    \/ EnsureSubscribed
    \/ PrimaryAction \/ MenuAction \/ CredentialsOK \/ CredentialsCancel
    \/ SelectRow \/ AddProfile \/ DeleteSelectedProfile \/ ForgetSelectedPassword
    \/ ListArrives \/ SelectionArrives \/ StatusArrives
    \/ DaemonNext /\ UNCHANGED windowVars

-----------------------------------------------------------------------------
AllHandled == subscribed /\ toDaemon = <<>> /\ toClient = <<>>

\* Once every message is handled the window lists what the store holds, and a
\* profile is selected, highlighted and usable whenever there is one: imports
\* that name a profile ahead of its echo, deletions, and the list view's own
\* delayed selection messages notwithstanding (_RefreshProfileList).
WindowFollowsStore ==
    AllHandled =>
        /\ listed = saved
        /\ IF saved = <<>> THEN fSelectedName = NoName
           ELSE row \in DOMAIN saved /\ fSelectedName = saved[row]
=============================================================================
