----------------------------- MODULE TSIdentity -----------------------------
(***************************************************************************)
(* A tailnet profile's three keypairs.  The private halves live in Haiku's *)
(* keystore, one entry per role; the public ones are cached in a file that *)
(* nothing reads back.  LoadOrCreate loads or mints the roles in order; it *)
(* may fail at any of them, and the daemon may die between two.            *)
(*                                                                         *)
(* A key is a number, minted once: hex and curve arithmetic are a matter   *)
(* of the entry being well formed or not.                                  *)
(***************************************************************************)
EXTENDS Naturals, FiniteSets

CONSTANTS
    Roles,      \* KeyRole, in LoadOrCreate's order: 1 .. Roles
    MaxKeys,    \* bound on the keys minted
    NoKey       \* a role without a key: no entry, or memory wiped

ASSUME IdentityAssumption ==
    Roles \in Nat \ {0} /\ MaxKeys \in Nat /\ NoKey \notin Nat

RoleIDs == 1 .. Roles
Keys == 1 .. MaxKeys
Wiped == [r \in RoleIDs |-> NoKey]

VARIABLES
    keystore,   \* the entry of each role; persists
    damaged,    \* the roles whose entry is not 64 hex digits; persists
    publicFile, \* the cached public halves; persists
    keypairs,   \* fMachine, fNode, fDisco
    loading,    \* the role LoadOrCreate is at; Roles + 1 past the last, 0 outside
    minted,     \* the keys generated so far (an oracle: no key comes twice)
    anyCreated, \* `any` of LoadOrCreate
    fValid,
    handedOut   \* every identity a session was given

identityVars == <<keystore, damaged, publicFile, keypairs, loading, minted, anyCreated,
                  fValid, handedOut>>

\* A daemon's first launch.
IdentityInit ==
    /\ keystore = Wiped /\ damaged = {} /\ publicFile = Wiped
    /\ keypairs = Wiped /\ loading = 0 /\ minted = 0
    /\ anyCreated = FALSE /\ fValid = FALSE /\ handedOut = {}

-----------------------------------------------------------------------------
\* LoadOrCreate, called when a session starts.
LoadOrCreate ==
    /\ loading = 0
    /\ loading' = 1
    /\ fValid' = FALSE /\ anyCreated' = FALSE
    /\ UNCHANGED <<keystore, damaged, publicFile, keypairs, minted, handedOut>>

\* GetKey finds the entry: its key, or an error when it is malformed.
LoadRole ==
    /\ loading \in RoleIDs /\ keystore[loading] # NoKey
    /\ IF loading \in damaged
       THEN loading' = 0 /\ keypairs' = [keypairs EXCEPT ![loading] = NoKey]
       ELSE /\ keypairs' = [keypairs EXCEPT ![loading] = keystore[loading]]
            /\ loading' = loading + 1
    /\ UNCHANGED <<keystore, damaged, publicFile, minted, anyCreated, fValid, handedOut>>

KeepsUnstoredKey(r) ==
    /\ loading = r /\ minted < MaxKeys
    /\ minted' = minted + 1
    /\ keypairs' = [keypairs EXCEPT ![r] = minted + 1]
    /\ loading' = r + 1
    /\ UNCHANGED <<keystore, damaged, publicFile, anyCreated, fValid, handedOut>>

\* GetKey did not answer B_OK, or the key was minted, and AddKey refused it:
\* the keystore is locked, the user declined, or the entry exists after all.
AddKeyFails(r) ==
    /\ loading = r /\ minted < MaxKeys
    /\ minted' = minted + 1
    /\ keypairs' = [keypairs EXCEPT ![r] = NoKey]
    /\ loading' = 0
    /\ UNCHANGED <<keystore, damaged, publicFile, anyCreated, fValid, handedOut>>

\* No entry: a key is minted and stored.  AddKey never replaces an entry.
CreateRole(r) ==
    /\ loading = r /\ keystore[r] = NoKey /\ minted < MaxKeys
    /\ minted' = minted + 1
    /\ keystore' = [keystore EXCEPT ![r] = minted + 1]
    /\ keypairs' = [keypairs EXCEPT ![r] = minted + 1]
    /\ anyCreated' = TRUE
    /\ loading' = r + 1
    /\ UNCHANGED <<damaged, publicFile, fValid, handedOut>>

\* The three roles are there.  _WritePublicFile's failure is not looked at.
IdentityLoaded ==
    /\ loading = Roles + 1
    /\ loading' = 0
    /\ fValid' = TRUE
    /\ handedOut' = handedOut \cup {keypairs}
    /\ publicFile' \in (IF anyCreated THEN {publicFile, keypairs} ELSE {publicFile})
    /\ UNCHANGED <<keystore, damaged, keypairs, minted, anyCreated>>

\* The daemon dies and is launched again: memory is new, the rest stays.
RelaunchIdentity ==
    /\ keypairs' = Wiped /\ loading' = 0 /\ anyCreated' = FALSE /\ fValid' = FALSE
    /\ UNCHANGED <<keystore, damaged, publicFile, minted, handedOut>>

\* External: something edits the entry into what FromHex refuses.
KeystoreDamaged ==
    /\ \E r \in RoleIDs : keystore[r] # NoKey /\ r \notin damaged
                          /\ damaged' = damaged \cup {r}
    /\ UNCHANGED <<keystore, publicFile, keypairs, loading, minted, anyCreated, fValid,
                   handedOut>>

IdentityNext ==
    \/ LoadOrCreate \/ LoadRole \/ IdentityLoaded \/ RelaunchIdentity \/ KeystoreDamaged
    \/ \E r \in RoleIDs : AddKeyFails(r) \/ CreateRole(r)

-----------------------------------------------------------------------------
\* The node is never a new device: whatever failed, and wherever the daemon
\* died, every identity a session is given is the same one, complete, and in
\* the keystore (the comments of _LoadOrCreateRole).
IdentityStable ==
    /\ Cardinality(handedOut) <= 1
    /\ handedOut \subseteq {keystore}
    /\ (fValid => keypairs = keystore)
=============================================================================
