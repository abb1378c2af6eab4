--------------------------- MODULE RegistryFile ---------------------------
(***************************************************************************)
(* models.jsonl on disk: app/repositories/files/model_registry_repo.py and *)
(* the generator of app/mock/simulator.py, as the api and the worker use   *)
(* them on one shared directory.                                           *)
(*                                                                         *)
(* A save reads the file, opens the sibling .tmp for writing (which        *)
(* truncates it), writes it when it closes it, and renames it over the     *)
(* file.  The temporary name is the same in both processes, so that an     *)
(* open file may be truncated, or renamed, by the other process.  An open  *)
(* file is therefore known by the name its inode has at the moment:        *)
(* "tmp", "path" or none any more ("unlinked").  The contents fit the      *)
(* buffer of the file object: they reach the inode when it is closed.      *)
(***************************************************************************)
EXTENDS Naturals, Sequences, ModelRegistry

CONSTANTS
    Torn,      \* contents that json.loads cannot decode
    Missing,   \* no file of that name
    Unread     \* nothing read

\* The two processes that rewrite models.jsonl; each blocks its event loop on it.
Processes == {"api", "worker"}

VARIABLES
    path,      \* models.jsonl
    tmp,       \* models.jsonl.tmp
    file,      \* what each process has open
    collided   \* has a process opened .tmp while the other one was using it?

fileVars == <<path, tmp, file, collided>>

Closed == [pc |-> "closed", inode |-> "none", seen |-> Unread]

FileInit(models) ==
    /\ path = models
    /\ tmp = Missing
    /\ file = [p \in Processes |-> Closed]
    /\ collided = FALSE

\* Nothing else runs in a process between its reading and its renaming.
Free(p) == file[p].pc = "closed"

\* _read_all returns; a caller that goes on will save.
ReadAll(p) ==
    /\ Free(p)
    /\ path \notin {Torn, Missing}
    /\ file' = [file EXCEPT ![p] = [Closed EXCEPT !.pc = "read", !.seen = path]]
    /\ UNCHANGED <<path, tmp, collided>>

\* Mutant: the file is written in place.
OpenInPlace(p) ==
    /\ file[p].pc = "read"
    /\ path' = <<>>
    /\ file' = [file EXCEPT ![p] = [@ EXCEPT !.pc = "open", !.inode = "path"]]
    /\ UNCHANGED <<tmp, collided>>

\* tmp.open("w"): an existing .tmp, left by a crash or in use, is truncated.
OpenTmp(p) ==
    /\ file[p].pc = "read"
    /\ tmp' = <<>>
    /\ file' = [file EXCEPT ![p] = [@ EXCEPT !.pc = "open", !.inode = "tmp"]]
    /\ collided' = (collided \/ \E q \in Processes : file[q].inode = "tmp")
    /\ UNCHANGED path

(***************************************************************************)
(* What writing new from offset 0 makes of an inode that holds old.  What  *)
(* is left of longer contents starts within a line; between contents of as *)
(* many records the status words decide which is longer.                   *)
(***************************************************************************)
Overlay(old, new) ==
    IF old = new \/ (old # Torn /\ Len(new) > Len(old)) THEN {new}
    ELSE IF old = Torn \/ Len(new) = Len(old) THEN {new, Torn}
    ELSE {Torn}

\* Writes new to the inode that p has open, whatever its name is by now.
WriteOpen(p, new) ==
    \/ file[p].inode = "tmp" /\ tmp' \in Overlay(tmp, new) /\ UNCHANGED path
    \/ file[p].inode = "path" /\ path' \in Overlay(path, new) /\ UNCHANGED tmp
    \/ file[p].inode = "unlinked" /\ UNCHANGED <<path, tmp>>

\* The end of the with block: the buffer is flushed and the file closed.  The
\* name .tmp stays in use until it is renamed.
CloseTmp(p, new) ==
    /\ file[p].pc = "open"
    /\ WriteOpen(p, new)
    /\ file' = [file EXCEPT ![p].pc = "written"]
    /\ UNCHANGED collided

\* What renaming .tmp over models.jsonl makes of an open file.
Renamed(f) ==
    CASE f.inode = "tmp"  -> [f EXCEPT !.inode = "path"]
      [] f.inode = "path" -> [f EXCEPT !.inode = "unlinked"]
      [] OTHER            -> f

\* os.replace, whoever wrote .tmp.
Replace(p) ==
    /\ file[p].pc = "written"
    /\ tmp # Missing
    /\ path' = tmp
    /\ tmp' = Missing
    /\ file' = [q \in Processes |-> IF q = p THEN Closed ELSE Renamed(file[q])]
    /\ UNCHANGED collided

\* os.replace raises FileNotFoundError: the other process has renamed .tmp.
ReplaceFails(p) ==
    /\ file[p].pc = "written"
    /\ tmp = Missing
    /\ file' = [file EXCEPT ![p] = Closed]
    /\ UNCHANGED <<path, tmp, collided>>

\* A process dies: what it has open is closed as it is.
CloseAll(p) ==
    /\ file' = [file EXCEPT ![p] = Closed]
    /\ UNCHANGED <<path, tmp, collided>>

\* _write_jsonl of the simulator opens models.jsonl itself, when the worker boots.
Truncate(p) ==
    /\ path' = <<>>
    /\ file' = [file EXCEPT ![p] = [pc |-> "boot", inode |-> "path", seen |-> Unread]]
    /\ UNCHANGED <<tmp, collided>>

Generate(p, models) ==
    /\ file[p].pc = "boot"
    /\ WriteOpen(p, models)
    /\ file' = [file EXCEPT ![p] = Closed]
    /\ UNCHANGED collided

----------------------------------------------------------------------------
\* A crash, a failure or a reader in the middle of a save never finds
\* models.jsonl undecodable or empty, and no later save makes it so: it takes
\* two processes in one temporary file, or a worker that is still booting
\* (_write_all writes a sibling file and renames it).
RegistryWhole ==
    path \in {Torn, <<>>} => collided \/ file["worker"].pc = "boot"

============================================================================
