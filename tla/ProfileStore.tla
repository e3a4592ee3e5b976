---------------------------- MODULE ProfileStore ----------------------------
(***************************************************************************)
(* The profile list: what the daemon holds in memory, the profiles file    *)
(* it replaces on every mutation, and the copies of imported configs.      *)
(*                                                                         *)
(* A mutation is one looper message, so nothing else of the daemon runs    *)
(* inside it; but each file operation may fail, the daemon may die between *)
(* any two of them, and the user may move the imported files at any time.  *)
(* Lists are functions from profile names to config paths; the order of    *)
(* the profiles, and every field but the path, is left out.                *)
(***************************************************************************)
EXTENDS Naturals

CONSTANTS
    Names,          \* profile names
    Sources,        \* config files of the user's that can be imported
    NoConfig,       \* the path of a profile without a file (Tailscale)
    NoProfile,      \* no profile has this name
    Absent, Torn,   \* no such file; a file that was not written to its end
    Failures,       \* file operations that may fail
    CrashPoints     \* steps the daemon may die before

Steps == {"idle", "stage", "copy", "update", "write", "flatten", "rename", "done"}

\* Where _StageImportedConfig puts the copy for a name: the hash in the file
\* name keeps different names apart.
CopyOf(n) == [copyOf |-> n]
Copies == {CopyOf(n) : n \in Names}

Paths == Sources \cup Copies \cup {NoConfig}

ASSUME ProfileStoreAssumption ==
    /\ Failures \subseteq Steps \cup {"remove"} /\ CrashPoints \subseteq Steps
    /\ Sources \cap Copies = {} /\ NoConfig \notin Sources \cup Copies
    /\ NoProfile \notin Paths
    /\ Absent \notin Sources /\ Torn \notin Sources /\ Absent # Torn
    /\ {Absent, Torn} \cap [Names -> Paths \cup {NoProfile}] = {}

List == [Names -> Paths \cup {NoProfile}]
Empty == [n \in Names |-> NoProfile]

VARIABLES
    fProfiles,  \* the list in memory
    file,       \* the profiles file
    tmp,        \* the temporary file beside it
    copies,     \* the imported configs, each the content of a source
    present,    \* sources that can be read
    at,         \* where the handler is; "down" when the daemon is dead
    req,        \* the mutation being handled
    kept,       \* names whose save was announced, and not deleted since
    cut         \* names whose last import did not end

fileVars == <<file, tmp, copies, cut>>
vars == <<fProfiles, fileVars, present, at, req, kept>>

Request == [kind : {"save", "delete"}, name : Names, path : Paths]

\* Load, from the constructor: a file that cannot be read leaves the list empty.
Loaded == IF file = Torn THEN Empty ELSE file

Init ==
    /\ fProfiles = Empty /\ file = Empty /\ tmp = Absent
    /\ copies = [n \in Names |-> Absent]
    /\ present = Sources
    /\ at = "idle"
    /\ req \in [kind : {"save"}, name : Names, path : {NoConfig}]
    /\ kept = {} /\ cut = {}

-----------------------------------------------------------------------------
\* _HandleSaveProfile: a config of the user's is copied first.  A path to one of
\* our copies comes from a client that has just read it.
SaveProfile(n, p) ==
    /\ at = "idle"
    /\ p \in Copies => copies[p.copyOf] \in Sources
    /\ req' = [kind |-> "save", name |-> n, path |-> p]
    /\ at' = IF p \in Sources THEN "stage" ELSE "update"
    /\ UNCHANGED <<fProfiles, fileVars, present, kept>>

\* Opening source and copy; the copy is truncated.  Failing keeps the path.
StageOpens ==
    /\ at = "stage"
    /\ \/ /\ req.path \notin present \/ "stage" \in Failures
          /\ at' = "update"
          /\ UNCHANGED <<copies, cut>>
       \/ /\ req.path \in present
          /\ at' = "copy"
          /\ copies' = [copies EXCEPT ![req.name] = Torn]
          /\ cut' = cut \cup {req.name}
    /\ UNCHANGED <<fProfiles, file, tmp, present, req, kept>>

\* The copy loop.  A read or write error removes the copy.
StageCopies ==
    /\ at = "copy"
    /\ at' = "update"
    /\ \/ /\ copies' = [copies EXCEPT ![req.name] = req.path]
          /\ req' = [req EXCEPT !.path = CopyOf(req.name)]
          /\ cut' = cut \ {req.name}
       \/ /\ "copy" \in Failures
          /\ copies' = [copies EXCEPT ![req.name] = Absent]
          /\ UNCHANGED <<req, cut>>
    /\ UNCHANGED <<fProfiles, file, tmp, present, kept>>

\* Save changes the list before it is written.
UpdateList ==
    /\ at = "update"
    /\ fProfiles' = [fProfiles EXCEPT ![req.name] = req.path]
    /\ at' = "write"
    /\ UNCHANGED <<fileVars, present, req, kept>>

\* _HandleDeleteProfile up to the write; an unknown name changes nothing.
DeleteProfile(n) ==
    /\ at = "idle" /\ fProfiles[n] # NoProfile
    /\ req' = [kind |-> "delete", name |-> n, path |-> fProfiles[n]]
    /\ fProfiles' = [fProfiles EXCEPT ![n] = NoProfile]
    /\ at' = "write"
    /\ kept' = kept \ {n}
    /\ UNCHANGED <<fileVars, present>>

-----------------------------------------------------------------------------
(***************************************************************************)
(* _WriteToDisk.  A failure ends the handler: nothing is announced, and    *)
(* the list in memory stays as it is.                                      *)
(***************************************************************************)
WriteOpens ==
    /\ at = "write"
    /\ \/ "write" \in Failures /\ at' = "idle" /\ UNCHANGED tmp
       \/ at' = "flatten" /\ tmp' = Torn
    /\ UNCHANGED <<fProfiles, file, copies, cut, present, req, kept>>

WriteFlattens ==
    /\ at = "flatten"
    /\ \/ "flatten" \in Failures /\ at' = "idle" /\ tmp' = Absent
       \/ at' = "rename" /\ tmp' = fProfiles
    /\ UNCHANGED <<fProfiles, file, copies, cut, present, req, kept>>

WriteRenames ==
    /\ at = "rename"
    /\ tmp' = Absent
    /\ \/ "rename" \in Failures /\ at' = "idle" /\ UNCHANGED file
       \/ at' = "done" /\ file' = tmp
    /\ UNCHANGED <<fProfiles, copies, cut, present, req, kept>>

Unchecked(path) == TRUE

\* A copy is only removed once no profile of the list points at it.
Unreferenced(path) == \A m \in Names : fProfiles[m] # path

\* _RemoveStagedConfig: only copies of our own, and a failure is ignored.
RemoveStagedConfig ==
    \/ /\ req.path \in Copies /\ Unreferenced(req.path)
       /\ copies' = [copies EXCEPT ![req.path.copyOf] = Absent]
    \/ /\ req.path \notin Copies \/ ~Unreferenced(req.path) \/ "remove" \in Failures
       /\ UNCHANGED copies

\* The mutation is on disk: the copy of a deleted profile goes, and the list is
\* announced.
Announce ==
    /\ at = "done" /\ at' = "idle"
    /\ IF req.kind = "delete"
       THEN RemoveStagedConfig /\ UNCHANGED kept
       ELSE kept' = kept \cup {req.name} /\ UNCHANGED copies
    /\ UNCHANGED <<fProfiles, file, tmp, cut, present, req>>

-----------------------------------------------------------------------------
Crash ==
    /\ at \in CrashPoints /\ at' = "down"
    /\ UNCHANGED <<fProfiles, fileVars, present, req, kept>>

Restart ==
    /\ at = "down" /\ at' = "idle"
    /\ fProfiles' = Loaded
    /\ UNCHANGED <<fileVars, present, req, kept>>

\* The user removes an imported file, or puts one back.
SourceMoves(s) ==
    /\ present' = IF s \in present THEN present \ {s} ELSE present \cup {s}
    /\ UNCHANGED <<fProfiles, fileVars, at, req, kept>>

Next ==
    \/ \E n \in Names : DeleteProfile(n) \/ \E p \in Paths : SaveProfile(n, p)
    \/ StageOpens \/ StageCopies \/ UpdateList
    \/ WriteOpens \/ WriteFlattens \/ WriteRenames \/ Announce
    \/ Crash \/ Restart
    \/ \E s \in Sources : SourceMoves(s)

Spec == Init /\ [][Next]_vars

-----------------------------------------------------------------------------
\* The list, the files and the request hold values of their types, and the
\* profiles file can always be read.
TypeOK ==
    /\ fProfiles \in List /\ file \in List /\ tmp \in List \cup {Absent, Torn}
    /\ copies \in [Names -> Sources \cup {Absent, Torn}]
    /\ present \subseteq Sources
    /\ at \in Steps \cup {"down"}
    /\ req \in Request
    /\ kept \subseteq Names /\ cut \subseteq Names

\* A profile whose save was announced is in the profiles file until its
\* deletion is asked for, whatever fails and wherever the daemon dies
\* (_WriteToDisk's atomic replace).
SavedProfilesSurvive == file # Torn /\ \A n \in kept : file[n] # NoProfile

IntactIn(list) ==
    \A n \in Names, m \in Names : list[n] = CopyOf(m) /\ m \notin cut => copies[m] \in Sources

\* A profile that points at our own copy of a config finds it whole, in memory
\* and after the next start, although the user removed the original; only an
\* import that was itself cut short may have spoiled the copy
\* (_StageImportedConfig, _RemoveStagedConfig).
ConfigsIntact == IntactIn(Loaded) /\ (at # "down" => IntactIn(fProfiles))

\* What the user saved survives whatever fails: the profile, and our copy of the
\* config it was imported from (_WriteToDisk, _StageImportedConfig).
StoreSafe == SavedProfilesSurvive /\ ConfigsIntact
=============================================================================
