----------------------------- MODULE FileStore -----------------------------
(***************************************************************************)
(* One certificate directory of lacme/store.py's FileStore: save_cert      *)
(* replaces four files one after the other, each atomically; load_cert     *)
(* reads them one after the other, and so does list_certs, which reads the *)
(* metadata once more before; delete_cert removes them one by one.         *)
(* Saves, loads and deletions may belong to different processes (a renewal *)
(* daemon, the command line, a server reloading its certificate).          *)
(*                                                                         *)
(* The name of the directory is the domain that created it.  Two domains   *)
(* share one only on a filesystem that ignores case; save_cert refuses the *)
(* second of them.                                                         *)
(***************************************************************************)
EXTENDS Naturals

CONSTANTS
    MaxSaves,   \* bound on the calls of save_cert, numbered as they start
    Domains,    \* bundle.domain values that share the directory
    Readers,    \* concurrent calls of load_cert
    FaultSets   \* what may go wrong: sets of FaultKinds

FaultKinds == {"save",      \* a save is cut short (crash, disk full)
               "delete",    \* a deletion is
               "overlap"}   \* two processes change the store at the same time

ASSUME StoreAssumption ==
    /\ MaxSaves \in Nat
    /\ "none" \notin Domains
    /\ FaultSets \subseteq SUBSET FaultKinds

VARIABLES
    faults,   \* chosen once, never changed
    file,     \* file[f]: the save whose content f has, 0 if there is no f
    dir,      \* the domain the directory is named after, or "none"
    owner,    \* owner[s]: the domain of the bundle of save s
    saves,    \* saves started
    writer,   \* writer[s]: the next file save s writes, or how it ended
    doomed,   \* what the running delete_cert has still to remove
    reader    \* reader[r]: the next file r reads, and what it has read

vars == <<faults, file, dir, owner, saves, writer, doomed, reader>>

Files == {"cert", "fullchain", "key", "meta"}
Save == 1..MaxSaves

\* Mistake: the metadata is written before the key.
WriteMetaEarly == [cert |-> "meta", meta |-> "fullchain", fullchain |-> "key",
                   key |-> "done"]

\* Mistake: the chain is not replaced.
WriteNoChain == [cert |-> "key", fullchain |-> "key", key |-> "meta",
                 meta |-> "done"]

\* The order of the writes of save_cert and of the reads of load_cert.
AfterWrite == [cert |-> "fullchain", fullchain |-> "key", key |-> "meta",
               meta |-> "done"]
AfterRead == [meta |-> "cert", cert |-> "fullchain", fullchain |-> "key",
              key |-> "done"]

Nothing == [f \in Files |-> 0]

\* Every variable has its type; what is in a file was written by a save that
\* has started.
TypeOK ==
    /\ faults \in FaultSets
    /\ saves \in 0..MaxSaves
    /\ file \in [Files -> 0..saves]
    /\ dir \in Domains \cup {"none"}
    /\ owner \in [Save -> Domains]
    /\ writer \in [Save -> Files \cup {"none", "done", "refused", "cut"}]
    /\ \A s \in Save : s > saves <=> writer[s] = "none"
    /\ doomed \subseteq Files \cup {"dir"}
    /\ reader \in [Readers -> [next : Files \cup {"idle", "done", "failed"},
                               domain : Domains,
                               got : [Files -> 0..saves]]]

Init ==
    /\ faults \in FaultSets
    /\ saves = 0
    /\ file = Nothing /\ dir = "none"
    /\ owner \in [Save -> Domains]
    /\ writer = [s \in Save |-> "none"]
    /\ doomed = {}
    /\ \E d \in Domains :
          reader = [r \in Readers |-> [next |-> "idle", domain |-> d, got |-> Nothing]]

-----------------------------------------------------------------------------
Writing(s) == writer[s] \in Files
MayChange == "overlap" \notin faults => doomed = {} /\ \A s \in Save : ~Writing(s)

MakeDir(d) == dir' = IF dir = "none" THEN d ELSE dir

\* Mistake: no look at the domain in the metadata.
BeginSaveUnchecked ==
    /\ MayChange
    /\ saves < MaxSaves
    /\ saves' = saves + 1
    /\ MakeDir(owner[saves + 1])
    /\ writer' = [writer EXCEPT ![saves + 1] = "cert"]
    /\ UNCHANGED <<faults, file, owner, doomed, reader>>

\* Mistake: a save that is refused leaves no trace.
BeginSaveSilent ==
    /\ MayChange
    /\ saves < MaxSaves
    /\ saves' = saves + 1
    /\ MakeDir(owner[saves + 1])
    /\ writer' = [writer EXCEPT ![saves + 1] =
                     IF file["meta"] # 0 /\ owner[file["meta"]] # owner[saves + 1]
                     THEN "none" ELSE "cert"]
    /\ UNCHANGED <<faults, file, owner, doomed, reader>>

\* save_cert up to the first write: make the directory if there is none and
\* refuse one whose metadata names
\* another domain.
BeginSave ==
    /\ MayChange
    /\ saves < MaxSaves
    /\ saves' = saves + 1
    /\ MakeDir(owner[saves + 1])
    /\ \/ /\ file["meta"] # 0 /\ owner[file["meta"]] # owner[saves + 1]
          /\ writer' = [writer EXCEPT ![saves + 1] = "refused"]
       \/ /\ file["meta"] # 0 => owner[file["meta"]] = owner[saves + 1]
          /\ writer' = [writer EXCEPT ![saves + 1] = "cert"]
    /\ UNCHANGED <<faults, file, owner, doomed, reader>>

\* One _atomic_write.
WriteFile(s) ==
    /\ Writing(s)
    /\ file' = [file EXCEPT ![writer[s]] = s]
    /\ writer' = [writer EXCEPT ![s] = AfterWrite[@]]
    /\ UNCHANGED <<faults, dir, owner, saves, doomed, reader>>

\* The process dies, or a write raises: _atomic_write leaves the old content.
CutSave(s) ==
    /\ "save" \in faults
    /\ Writing(s)
    /\ writer' = [writer EXCEPT ![s] = "cut"]
    /\ UNCHANGED <<faults, file, dir, owner, saves, doomed, reader>>

\* delete_cert: the metadata must name the domain; rmtree lists the directory.
BeginDelete(d) ==
    /\ MayChange
    /\ doomed = {}
    /\ file["meta"] # 0 /\ owner[file["meta"]] = d
    /\ doomed' = {f \in Files : file[f] # 0} \cup {"dir"}
    /\ UNCHANGED <<faults, file, dir, owner, saves, writer, reader>>

RemoveFile(f) ==
    /\ f \in doomed \ {"dir"}
    /\ doomed' = doomed \ {f}
    /\ file' = [file EXCEPT ![f] = 0]
    /\ UNCHANGED <<faults, dir, owner, saves, writer, reader>>

\* The directory goes last, if it is empty.
RemoveDir ==
    /\ doomed = {"dir"}
    /\ doomed' = {}
    /\ dir' = IF file = Nothing THEN "none" ELSE dir
    /\ UNCHANGED <<faults, file, owner, saves, writer, reader>>

CutDelete ==
    /\ "delete" \in faults
    /\ doomed # {}
    /\ doomed' = {}
    /\ UNCHANGED <<faults, file, dir, owner, saves, writer, reader>>

-----------------------------------------------------------------------------
\* load_cert: None (here: no step) unless there is metadata.
BeginLoad(r, d) ==
    /\ reader[r].next \in {"idle", "done", "failed"}
    /\ file["meta"] # 0
    /\ reader' = [reader EXCEPT ![r] =
                     [next |-> "meta", domain |-> d, got |-> Nothing]]
    /\ UNCHANGED <<faults, file, dir, owner, saves, writer, doomed>>

\* list_certs: directories without metadata are skipped, one that is not
\* named after the domain in its metadata fails the whole listing; then as
\* load_cert.
BeginList(r) ==
    /\ reader[r].next \in {"idle", "done", "failed"}
    /\ file["meta"] # 0
    /\ LET d == owner[file["meta"]]
       IN  reader' = [reader EXCEPT ![r] =
                         [next |-> IF dir = d THEN "meta" ELSE "failed",
                          domain |-> d, got |-> Nothing]]
    /\ UNCHANGED <<faults, file, dir, owner, saves, writer, doomed>>

Readable(r, f) ==
    file[f] # 0 /\ (f = "meta" => owner[file[f]] = reader[r].domain)

\* Read one file; a missing one or metadata for another domain raises.
ReadFile(r) ==
    LET f == reader[r].next IN
    /\ f \in Files
    /\ \/ /\ Readable(r, f)
          /\ reader' = [reader EXCEPT ![r].next = AfterRead[f],
                                      ![r].got[f] = file[f]]
       \/ /\ ~Readable(r, f)
          /\ reader' = [reader EXCEPT ![r].next = "failed"]
    /\ UNCHANGED <<faults, file, dir, owner, saves, writer, doomed>>

-----------------------------------------------------------------------------
Next ==
    \/ BeginSave
    \/ \E s \in Save : WriteFile(s) \/ CutSave(s)
    \/ \E d \in Domains : BeginDelete(d)
    \/ \E f \in Files : RemoveFile(f)
    \/ RemoveDir \/ CutDelete
    \/ \E r \in Readers :
         ReadFile(r) \/ BeginList(r) \/ \E d \in Domains : BeginLoad(r, d)

Spec == Init /\ [][Next]_vars

-----------------------------------------------------------------------------
(* Properties *)

\* The metadata, written last, is never newer than the certificate and the
\* key beside it, even when saves are cut short, nor is what a concurrent
\* load_cert or list_certs returns: a renewal decision taken from its expiry
\* date errs on the side of renewing.
MetaIsOldest ==
    faults \cap {"delete", "overlap"} = {} =>
        /\ doomed = {} /\ file["meta"] # 0 =>
              \A f \in Files : file[f] >= file["meta"]
        /\ \A r \in Readers : reader[r].next = "done" =>
              \A f \in Files : reader[r].got[f] >= reader[r].got["meta"]

\* A save never replaces the files of another domain whose bundle is there,
\* and the directory bears its name, so that it can be listed, unless it was
\* left behind by a save cut short.
OneOwner ==
    faults \cap {"delete", "overlap"} = {} /\ file["meta"] # 0 =>
        /\ \A f \in Files : file[f] # 0 => owner[file[f]] = owner[file["meta"]]
        /\ "save" \notin faults /\ doomed = {} => dir = owner[file["meta"]]

\* Between complete saves and deletions that exclude each other the four
\* files belong together.
SettledIsWhole ==
    /\ faults = {}
    /\ doomed = {} /\ \A s \in Save : ~Writing(s)
    /\ file["meta"] # 0
    => \A f \in Files : file[f] = file["meta"]
=============================================================================
