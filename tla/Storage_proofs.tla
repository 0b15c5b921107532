--------------------------- MODULE Storage_proofs ---------------------------
(***************************************************************************)
(* Theorems about what is kept in files: FileStore, for any number of      *)
(* saves, any domains, readers and faults; and CertAuthority, for any set  *)
(* of processes, any number of roots and any faults.                       *)
(***************************************************************************)
EXTENDS FileStore, CertAuthority, TLAPS

-----------------------------------------------------------------------------
(* Inductive invariants *)

Clean == faults \cap {"delete", "overlap"} = {}

\* The files save s has written when it is about to write a file, and those a
\* reader has read.
Written == [cert |-> {}, fullchain |-> {"cert"}, key |-> {"cert", "fullchain"},
            meta |-> {"cert", "fullchain", "key"}]
Fetched == [meta |-> {}, cert |-> {"meta"}, fullchain |-> {"meta", "cert"},
            key |-> {"meta", "cert", "fullchain"}, done |-> Files]

\* A save that writes is the last one that began, writes alone, and what it
\* has written is still there; a deletion leaves nothing but what it has
\* still to remove.
OneChange == Clean =>
    /\ \A s \in Save : Writing(s) =>
          /\ s = saves /\ doomed = {}
          /\ \A f \in Written[writer[s]] : file[f] = s
    /\ doomed # {} => "dir" \in doomed /\ \A f \in Files \ doomed : file[f] = 0

\* No file is older than the metadata, unless it is deleted.
NoneOlder == Clean =>
    \A f \in Files : file[f] >= file["meta"] \/ (doomed # {} /\ file[f] = 0)

\* A reader that has read the metadata has read and will read nothing older.
ReadsNoneOlder == Clean =>
    \A r \in Readers : reader[r].next \in {"cert", "fullchain", "key", "done"} =>
        \A f \in Files :
            /\ file[f] = 0 \/ file[f] >= reader[r].got["meta"]
            /\ f \in Fetched[reader[r].next] => reader[r].got[f] >= reader[r].got["meta"]

\* Beside metadata there is only what belongs to its domain, and only that
\* is written.
SameOwner == Clean /\ file["meta"] # 0 =>
    /\ \A f \in Files : file[f] # 0 => owner[file[f]] = owner[file["meta"]]
    /\ \A s \in Save : Writing(s) => owner[s] = owner[file["meta"]]

\* Unless saves are cut short, there is a directory as long as there is a
\* bundle in it or being written, and it bears the name of its domain.
DirNamed == Clean /\ "save" \notin faults /\ doomed = {} =>
    /\ \A s \in Save : Writing(s) => dir = owner[s]
    /\ file["meta"] # 0 => dir = owner[file["meta"]]
    /\ file["meta"] = 0 /\ (\A s \in Save : ~Writing(s)) => dir = "none"

\* Without faults, the files that differ from the metadata are those the
\* running save has written.
WholeButWritten == faults = {} /\ doomed = {} =>
    \A f \in Files :
        file[f] = file["meta"] \/ \E s \in Save : Writing(s) /\ f \in Written[writer[s]]
-----------------------------------------------------------------------------
(* Types *)

\* What the type says of single variables, with less to unfold.
LEMMA TypeFacts ==
    ASSUME TypeOK
    PROVE  /\ saves \in Nat /\ MaxSaves \in Nat /\ saves \in 0..MaxSaves
           /\ file \in [Files -> 0..saves]
           /\ \A f \in Files : file[f] \in Nat
           /\ owner \in [Save -> Domains]
           /\ writer \in [Save -> Files \cup {"none", "done", "refused", "cut"}]
           /\ \A s \in Save : s > saves <=> writer[s] = "none"
           /\ \A s \in Save : Writing(s) => s \in 1..saves
           /\ doomed \subseteq Files \cup {"dir"}
           /\ \A r \in Readers, f \in Files : reader[r].got[f] \in Nat
<1>1. /\ saves \in Nat /\ MaxSaves \in Nat /\ saves \in 0..MaxSaves
      /\ file \in [Files -> 0..saves] /\ owner \in [Save -> Domains]
      /\ writer \in [Save -> Files \cup {"none", "done", "refused", "cut"}]
      /\ \A s \in Save : s > saves <=> writer[s] = "none"
      /\ doomed \subseteq Files \cup {"dir"}
  BY StoreAssumption DEF TypeOK
<1>2. \A f \in Files : file[f] \in Nat
  BY <1>1
<1>3. ASSUME NEW s \in Save, Writing(s) PROVE s \in 1..saves
  <2>1. writer[s] # "none"
    BY <1>3 DEF Writing, Files
  <2> QED
    BY <1>1, <2>1 DEF Save
<1>4. \A r \in Readers : reader[r].got \in [Files -> 0..saves]
  BY DEF TypeOK
<1>5. \A r \in Readers, f \in Files : reader[r].got[f] \in Nat
  BY <1>1, <1>4
<1> QED
  BY <1>1, <1>2, <1>3, <1>5

\* There never are fewer saves to have files from.
LEMMA MoreSaves ==
    ASSUME NEW m \in Nat, NEW n \in Nat, m <= n, NEW g \in [Files -> 0..m]
    PROVE  g \in [Files -> 0..n]
<1>1. 0..m \subseteq 0..n
  OBVIOUS
<1> QED
  BY <1>1

\* The initial state has the right type.
LEMMA TypeInit == Init => TypeOK
<1> SUFFICES ASSUME Init PROVE TypeOK
  OBVIOUS
<1>1. 0 \in 0..MaxSaves /\ Nothing \in [Files -> 0..0] /\ \A s \in Save : s > 0
  BY StoreAssumption DEF Nothing, Save
<1> QED
  BY <1>1 DEF Init, TypeOK

\* A save that begins has the next number; it is refused or about to write.
LEMMA BeginSaveEffect ==
    ASSUME TypeOK, BeginSave
    PROVE  \E n \in Save :
              /\ n = saves + 1 /\ saves' = n /\ writer[n] = "none"
              /\ UNCHANGED <<faults, file, owner, doomed, reader>>
              /\ dir' = IF dir = "none" THEN owner[n] ELSE dir
              /\ \/ /\ file["meta"] # 0 /\ owner[file["meta"]] # owner[n]
                    /\ writer' = [writer EXCEPT ![n] = "refused"]
                 \/ /\ file["meta"] # 0 => owner[file["meta"]] = owner[n]
                    /\ writer' = [writer EXCEPT ![n] = "cert"]
<1>1. saves + 1 \in Save /\ saves + 1 > saves
  BY TypeFacts DEF BeginSave, Save
<1>2. PICK n \in Save : n = saves + 1
  BY <1>1
<1>3. writer[n] = "none"
  BY <1>1, <1>2, TypeFacts
<1> QED
  BY <1>2, <1>3 DEF BeginSave, MakeDir

\* Every step keeps the type.
LEMMA TypeStep == TypeOK /\ [Next]_vars => TypeOK'
<1> SUFFICES ASSUME TypeOK, [Next]_vars PROVE TypeOK'
  OBVIOUS
<1>0. /\ saves \in Nat /\ saves \in 0..MaxSaves /\ file \in [Files -> 0..saves]
      /\ owner \in [Save -> Domains]
      /\ writer \in [Save -> Files \cup {"none", "done", "refused", "cut"}]
      /\ \A s \in Save : s > saves <=> writer[s] = "none"
      /\ doomed \subseteq Files \cup {"dir"} /\ 0 \in 0..saves
  BY TypeFacts
<1>1. CASE BeginSave
  <2>1. PICK n \in Save :
           /\ n = saves + 1 /\ saves' = n /\ writer[n] = "none"
           /\ UNCHANGED <<faults, file, owner, doomed, reader>>
           /\ dir' = IF dir = "none" THEN owner[n] ELSE dir
           /\ \E w \in {"refused", "cert"} : writer' = [writer EXCEPT ![n] = w]
    BY <1>1, BeginSaveEffect
  <2>2. n \in Nat /\ saves <= n /\ n \in 0..MaxSaves /\ ~(n > n)
    BY <1>0, <2>1 DEF Save
  <2>3. /\ \A s \in Save \ {n} : s > n <=> s > saves
        /\ \A s \in Save \ {n} : writer'[s] = writer[s]
        /\ writer'[n] # "none"
        /\ writer' \in [Save -> Files \cup {"none", "done", "refused", "cut"}]
    BY <1>0, <2>1 DEF Save, Files
  <2>4. \A s \in Save : s > n <=> writer'[s] = "none"
    BY <1>0, <2>2, <2>3
  <2>5. file \in [Files -> 0..n]
    BY <1>0, <2>2, MoreSaves
  <2>6. \A r \in Readers : reader[r].got \in [Files -> 0..n]
    BY <1>0, <2>2, MoreSaves DEF TypeOK
  <2>7. reader \in [Readers -> [next : Files \cup {"idle", "done", "failed"},
                                domain : Domains, got : [Files -> 0..n]]]
    BY <2>6 DEF TypeOK
  <2>8. dir' \in Domains \cup {"none"}
    BY <1>0, <2>1 DEF TypeOK
  <2> QED
    BY <2>1, <2>2, <2>3, <2>4, <2>5, <2>7, <2>8 DEF TypeOK
<1>2. ASSUME NEW s \in Save, WriteFile(s) \/ CutSave(s) PROVE TypeOK'
  <2>1. s \in 0..saves /\ writer[s] \in Files /\ ~(s > saves)
    BY <1>0, <1>2, TypeFacts DEF WriteFile, CutSave, Writing
  <2>2. file' \in [Files -> 0..saves]
    BY <1>0, <1>2, <2>1 DEF WriteFile, CutSave
  <2>3. PICK w \in Files \cup {"done", "cut"} : writer' = [writer EXCEPT ![s] = w]
    <3>1. AfterWrite[writer[s]] \in Files \cup {"done"}
      BY <2>1 DEF AfterWrite, Files
    <3>2. /\ WriteFile(s) => writer' = [writer EXCEPT ![s] = AfterWrite[writer[s]]]
          /\ CutSave(s) => writer' = [writer EXCEPT ![s] = "cut"]
      BY DEF WriteFile, CutSave
    <3> QED
      BY <1>2, <3>1, <3>2
  <2>4. w # "none"
    BY DEF Files
  <2>5. /\ writer' \in [Save -> Files \cup {"none", "done", "refused", "cut"}]
        /\ \A q \in Save : q > saves <=> writer'[q] = "none"
    BY <1>0, <2>1, <2>3, <2>4
  <2>6. UNCHANGED <<faults, dir, owner, saves, doomed, reader>>
    BY <1>2 DEF WriteFile, CutSave
  <2> QED
    BY <2>2, <2>5, <2>6 DEF TypeOK
<1>3. CASE (\E d \in Domains : BeginDelete(d)) \/ CutDelete \/ RemoveDir
  <2>1. doomed' \subseteq Files \cup {"dir"}
    BY <1>3 DEF BeginDelete, CutDelete, RemoveDir
  <2>2. dir' \in Domains \cup {"none"} /\ UNCHANGED <<faults, file, owner, saves, writer, reader>>
    BY <1>3 DEF BeginDelete, CutDelete, RemoveDir, TypeOK
  <2> QED
    BY <2>1, <2>2 DEF TypeOK
<1>4. ASSUME NEW f \in Files, RemoveFile(f) PROVE TypeOK'
  <2>1. doomed' \subseteq Files \cup {"dir"} /\ file' \in [Files -> 0..saves]
    BY <1>0, <1>4 DEF RemoveFile
  <2> QED
    BY <1>4, <2>1 DEF RemoveFile, TypeOK
<1>5. ASSUME NEW r \in Readers, ReadFile(r) \/ BeginList(r) \/ \E d \in Domains : BeginLoad(r, d)
      PROVE  TypeOK'
  <2> DEFINE R == [next : Files \cup {"idle", "done", "failed"}, domain : Domains,
                   got : [Files -> 0..saves]]
  <2>1. reader \in [Readers -> R] /\ Nothing \in [Files -> 0..saves]
    BY <1>0 DEF TypeOK, Nothing
  <2>2. \E w \in R : reader' = [reader EXCEPT ![r] = w]
    <3>1. ASSUME NEW d \in Domains, BeginLoad(r, d)
          PROVE  \E w \in R : reader' = [reader EXCEPT ![r] = w]
      BY <2>1, <3>1 DEF BeginLoad, Files
    <3>2. CASE BeginList(r)
      <4> DEFINE d == owner[file["meta"]]
                 w == [next |-> IF dir = d THEN "meta" ELSE "failed",
                       domain |-> d, got |-> Nothing]
      <4>1. file["meta"] \in 1..saves
        BY <1>0, <3>2 DEF BeginList, Files
      <4>2. file["meta"] \in Save
        BY <1>0, <4>1, StoreAssumption DEF Save
      <4>3. d \in Domains
        BY <1>0, <4>2
      <4>4. w \in R
        BY <2>1, <4>3 DEF Files
      <4> QED
        BY <3>2, <4>4 DEF BeginList
    <3>3. CASE ReadFile(r)
      <4> DEFINE f == reader[r].next
      <4>1. f \in Files /\ reader[r] \in R
        BY <2>1, <3>3 DEF ReadFile
      <4>2. CASE reader' = [reader EXCEPT ![r].next = AfterRead[f], ![r].got[f] = file[f]]
        <5> DEFINE w == [reader[r] EXCEPT !.next = AfterRead[f], !.got[f] = file[f]]
        <5>1. reader' = [reader EXCEPT ![r] = w]
          BY <2>1, <4>2
        <5>2. AfterRead[f] \in Files \cup {"done"} /\ file[f] \in 0..saves
          BY <1>0, <4>1 DEF AfterRead, Files
        <5>3. w \in R
          BY <4>1, <5>2
        <5> QED
          BY <5>1, <5>3
      <4>3. CASE reader' = [reader EXCEPT ![r].next = "failed"]
        <5>1. [reader[r] EXCEPT !.next = "failed"] \in R
          BY <4>1
        <5> QED
          BY <2>1, <4>3, <5>1
      <4> QED
        BY <3>3, <4>2, <4>3 DEF ReadFile
    <3> QED
      BY <1>5, <3>1, <3>2, <3>3
  <2>3. reader' \in [Readers -> R]
    BY <2>1, <2>2
  <2>4. UNCHANGED <<faults, file, dir, owner, saves, writer, doomed>>
    BY <1>5 DEF ReadFile, BeginList, BeginLoad
  <2> QED
    BY <2>3, <2>4 DEF TypeOK
<1>6. CASE UNCHANGED vars
  BY <1>6 DEF vars, TypeOK
<1> QED
  BY <1>1, <1>2, <1>3, <1>4, <1>5, <1>6 DEF Next

\* Every state of the store has the right type.
THEOREM TypeCorrect == Spec => []TypeOK
  BY TypeInit, TypeStep, PTL DEF Spec
-----------------------------------------------------------------------------
(* One change at a time *)

\* When a save begins in a store that is used by one process at a time,
\* nothing is written or deleted, and afterwards it alone may write.
LEMMA BeginSaveAlone ==
    ASSUME TypeOK, Clean, BeginSave
    PROVE  \E n \in Save :
              /\ n = saves + 1 /\ saves' = n
              /\ UNCHANGED <<faults, file, owner, doomed, reader>>
              /\ doomed = {} /\ \A s \in Save : ~Writing(s)
              /\ dir' = IF dir = "none" THEN owner[n] ELSE dir
              /\ \A s \in Save : Writing(s)' => s = n /\ writer'[s] = "cert"
              /\ \/ /\ file["meta"] # 0 /\ owner[file["meta"]] # owner[n]
                    /\ \A s \in Save : ~Writing(s)'
                 \/ /\ file["meta"] # 0 => owner[file["meta"]] = owner[n]
                    /\ Writing(n)'
<1>1. PICK n \in Save :
              /\ n = saves + 1 /\ saves' = n /\ writer[n] = "none"
              /\ UNCHANGED <<faults, file, owner, doomed, reader>>
              /\ dir' = IF dir = "none" THEN owner[n] ELSE dir
              /\ \/ /\ file["meta"] # 0 /\ owner[file["meta"]] # owner[n]
                    /\ writer' = [writer EXCEPT ![n] = "refused"]
                 \/ /\ file["meta"] # 0 => owner[file["meta"]] = owner[n]
                    /\ writer' = [writer EXCEPT ![n] = "cert"]
  BY BeginSaveEffect
<1>2. doomed = {} /\ \A s \in Save : ~Writing(s)
  BY DEF BeginSave, MayChange, Clean
<1>3. writer \in [Save -> Files \cup {"none", "done", "refused", "cut"}]
  BY TypeFacts
<1>4. \A s \in Save \ {n} : ~Writing(s)'
  BY <1>1, <1>2, <1>3 DEF Writing
<1>5. /\ writer'[n] = "cert" => Writing(n)'
      /\ writer'[n] = "refused" => ~Writing(n)'
      /\ writer'[n] = "cert" \/ writer'[n] = "refused"
  BY <1>1, <1>3 DEF Writing, Files
<1> QED
  BY <1>1, <1>2, <1>3, <1>4, <1>5

\* One write: save s goes on to the next file.
LEMMA WriteEffect ==
    ASSUME TypeOK, NEW s \in Save, WriteFile(s)
    PROVE  /\ writer[s] \in Files /\ file'[writer[s]] = s
           /\ \A f \in Files : f # writer[s] => file'[f] = file[f]
           /\ \A q \in Save : q # s => (Writing(q)' <=> Writing(q)) /\ writer'[q] = writer[q]
           /\ Writing(s)' <=> writer[s] # "meta"
           /\ writer[s] # "meta" => Written[writer'[s]] = Written[writer[s]] \cup {writer[s]}
           /\ UNCHANGED <<faults, dir, owner, saves, doomed, reader>>
<1>1. /\ writer \in [Save -> Files \cup {"none", "done", "refused", "cut"}]
      /\ file \in [Files -> 0..saves]
  BY TypeFacts
<1>2. /\ writer[s] \in Files /\ file' = [file EXCEPT ![writer[s]] = s]
      /\ writer' = [writer EXCEPT ![s] = AfterWrite[writer[s]]]
      /\ UNCHANGED <<faults, dir, owner, saves, doomed, reader>>
  BY DEF WriteFile, Writing
<1>3. writer'[s] = AfterWrite[writer[s]] /\ \A q \in Save : q # s => writer'[q] = writer[q]
  BY <1>1, <1>2
<1>4. \A f \in Files : /\ AfterWrite[f] \in Files <=> f # "meta"
                       /\ f # "meta" => Written[AfterWrite[f]] = Written[f] \cup {f}
  BY DEF AfterWrite, Files, Written
<1> QED
  BY <1>1, <1>2, <1>3, <1>4 DEF Writing

\* A save that is cut short writes no more.
LEMMA CutEffect ==
    ASSUME TypeOK, NEW s \in Save, CutSave(s)
    PROVE  /\ ~Writing(s)' /\ Writing(s)
           /\ \A q \in Save : q # s => (Writing(q)' <=> Writing(q)) /\ writer'[q] = writer[q]
           /\ UNCHANGED <<faults, file, dir, owner, saves, doomed, reader>>
<1>1. writer \in [Save -> Files \cup {"none", "done", "refused", "cut"}]
  BY TypeFacts
<1>2. Writing(s) /\ writer' = [writer EXCEPT ![s] = "cut"]
      /\ UNCHANGED <<faults, file, dir, owner, saves, doomed, reader>>
  BY DEF CutSave
<1> QED
  BY <1>1, <1>2 DEF Writing, Files

\* One file is removed.
LEMMA RemoveEffect ==
    ASSUME TypeOK, NEW f \in Files, RemoveFile(f)
    PROVE  /\ f \in doomed /\ f # "dir" /\ doomed' = doomed \ {f}
           /\ file'[f] = 0 /\ \A g \in Files : g # f => file'[g] = file[g]
           /\ UNCHANGED <<faults, dir, owner, saves, writer, reader>>
<1>1. file \in [Files -> 0..saves]
  BY TypeFacts
<1> QED
  BY <1>1 DEF RemoveFile

\* Only readers go on.
LEMMA ReaderFrame ==
    ASSUME NEW r \in Readers, ReadFile(r) \/ BeginList(r) \/ \E d \in Domains : BeginLoad(r, d)
    PROVE  UNCHANGED <<faults, file, dir, owner, saves, writer, doomed>>
  BY DEF ReadFile, BeginList, BeginLoad

\* Every step keeps changes apart.
LEMMA OneChangeStep == TypeOK /\ OneChange /\ [Next]_vars => OneChange'
<1> SUFFICES ASSUME TypeOK, OneChange, [Next]_vars, Clean' PROVE OneChange'
  BY DEF OneChange
<1>0. faults' = faults /\ Clean
  <2>1. faults' = faults
    BY DEF Next, vars, BeginSave, WriteFile, CutSave, BeginDelete, RemoveFile, RemoveDir,
           CutDelete, ReadFile, BeginList, BeginLoad
  <2> QED
    BY <2>1 DEF Clean
<1>1. CASE BeginSave
  <2>1. PICK n \in Save :
           /\ saves' = n /\ UNCHANGED <<file, doomed>> /\ doomed = {}
           /\ \A s \in Save : Writing(s)' => s = n /\ writer'[s] = "cert"
    BY <1>0, <1>1, BeginSaveAlone
  <2> QED
    BY <2>1 DEF OneChange, Written
<1>2. ASSUME NEW s \in Save, WriteFile(s) PROVE OneChange'
  <2>1. /\ Writing(s) /\ s = saves /\ doomed = {}
        /\ \A q \in Save : Writing(q) => q = s
        /\ \A f \in Written[writer[s]] : file[f] = s
    BY <1>0, <1>2 DEF OneChange, WriteFile
  <2>2. /\ \A q \in Save : Writing(q)' => q = s
        /\ saves' = saves /\ doomed' = doomed
    BY <1>2, <2>1, WriteEffect
  <2>3. ASSUME Writing(s)', NEW f \in Written[writer'[s]] PROVE file'[f] = s
    <3>1. f \in Written[writer[s]] \cup {writer[s]}
      BY <1>2, <2>3, WriteEffect
    <3>2. \A g \in Files : Written[g] \subseteq Files
      BY DEF Written, Files
    <3> QED
      BY <1>2, <2>1, <3>1, <3>2, WriteEffect
  <2> QED
    BY <2>1, <2>2, <2>3 DEF OneChange
<1>3. ASSUME NEW s \in Save, CutSave(s) PROVE OneChange'
  BY <1>0, <1>3, CutEffect DEF OneChange
<1>4. ASSUME NEW d \in Domains, BeginDelete(d) PROVE OneChange'
  <2>1. \A s \in Save : ~Writing(s)'
    BY <1>0, <1>4 DEF BeginDelete, MayChange, Clean, Writing
  <2>2. "dir" \in doomed' /\ \A f \in Files \ doomed' : file'[f] = 0
    BY <1>4 DEF BeginDelete
  <2> QED
    BY <2>1, <2>2 DEF OneChange
<1>5. ASSUME NEW f \in Files, RemoveFile(f) PROVE OneChange'
  <2>1. doomed # {} /\ "dir" \in doomed /\ \A s \in Save : ~Writing(s)
    BY <1>0, <1>5, RemoveEffect DEF OneChange
  <2>2. \A s \in Save : ~Writing(s)'
    BY <1>5, <2>1, RemoveEffect DEF Writing
  <2>3. "dir" \in doomed' /\ \A g \in Files \ doomed' : file'[g] = 0
    BY <1>0, <1>5, <2>1, RemoveEffect DEF OneChange
  <2> QED
    BY <2>2, <2>3 DEF OneChange
<1>6. CASE RemoveDir \/ CutDelete
  <2>1. doomed # {} /\ doomed' = {} /\ UNCHANGED writer
    BY <1>6 DEF RemoveDir, CutDelete
  <2>2. \A s \in Save : ~Writing(s)'
    BY <1>0, <2>1 DEF OneChange, Writing
  <2> QED
    BY <2>1, <2>2 DEF OneChange
<1>7. ASSUME NEW r \in Readers, ReadFile(r) \/ BeginList(r) \/ \E d \in Domains : BeginLoad(r, d)
      PROVE  OneChange'
  BY <1>0, <1>7, ReaderFrame DEF OneChange, Writing
<1>8. CASE UNCHANGED vars
  BY <1>0, <1>8 DEF vars, OneChange, Writing
<1> QED
  BY <1>1, <1>2, <1>3, <1>4, <1>5, <1>6, <1>7, <1>8 DEF Next
-----------------------------------------------------------------------------
(* Age *)

\* What a step writes is the newest there is.
LEMMA SavesAreNewest ==
    ASSUME TypeOK, OneChange, Clean, NEW s \in Save, WriteFile(s)
    PROVE  /\ s = saves /\ doomed = {} /\ s # 0
           /\ \A f \in Files : file[f] <= s
           /\ \A r \in Readers, f \in Files : reader[r].got[f] <= s
           /\ writer[s] = "meta" => \A f \in Files : f # "meta" => file[f] = s
<1>1. s = saves /\ doomed = {} /\ Writing(s) /\ \A f \in Written[writer[s]] : file[f] = s
  BY DEF OneChange, WriteFile
<1>2. s # 0 /\ saves \in Nat /\ file \in [Files -> 0..saves]
  BY TypeFacts DEF Save
<1>3. \A r \in Readers : reader[r].got \in [Files -> 0..saves]
  BY DEF TypeOK
<1>4. (\A f \in Files : file[f] <= s) /\ \A r \in Readers, f \in Files : reader[r].got[f] <= s
  BY <1>1, <1>2, <1>3
<1>5. writer[s] = "meta" => \A f \in Files : f # "meta" => file[f] = s
  BY <1>1 DEF Written, Files
<1> QED
  BY <1>1, <1>2, <1>4, <1>5

\* Every step leaves the metadata the oldest of the files.
LEMMA NoneOlderStep == TypeOK /\ OneChange /\ NoneOlder /\ [Next]_vars => NoneOlder'
<1> SUFFICES ASSUME TypeOK, OneChange, NoneOlder, [Next]_vars, Clean' PROVE NoneOlder'
  BY DEF NoneOlder
<1>0. Clean /\ \A f \in Files : file[f] \in Nat /\ file[f] >= 0 /\ file[f] >= file[f]
  <2>1. faults' = faults
    BY DEF Next, vars, BeginSave, WriteFile, CutSave, BeginDelete, RemoveFile, RemoveDir,
           CutDelete, ReadFile, BeginList, BeginLoad
  <2> QED
    BY <2>1, TypeFacts DEF Clean
<1>1. "meta" \in Files
  BY DEF Files
<1>2. ASSUME UNCHANGED file, doomed = {} \/ doomed' # {} PROVE NoneOlder'
  BY <1>0, <1>2 DEF NoneOlder
<1>3. ASSUME NEW s \in Save, WriteFile(s) PROVE NoneOlder'
  <2>1. /\ s = saves /\ doomed = {} /\ s \in Nat /\ \A f \in Files : file[f] <= s
        /\ writer[s] = "meta" => \A f \in Files : f # "meta" => file[f] = s
    BY <1>0, <1>3, SavesAreNewest, TypeFacts
  <2>2. /\ file'[writer[s]] = s /\ \A f \in Files : f # writer[s] => file'[f] = file[f]
        /\ writer[s] \in Files
    BY <1>3, WriteEffect
  <2>3. \A f \in Files : file[f] >= file["meta"]
    BY <1>0, <2>1 DEF NoneOlder
  <2>4. s >= s /\ \A f \in Files : s >= file[f]
    BY <1>0, <2>1
  <2>5. \A f \in Files : file'[f] >= file'["meta"]
    BY <1>1, <2>1, <2>2, <2>3, <2>4
  <2> QED
    BY <2>5 DEF NoneOlder
<1>4. ASSUME NEW f \in Files, RemoveFile(f) PROVE NoneOlder'
  <2>1. doomed # {} /\ "dir" \in doomed'
    BY <1>0, <1>4, RemoveEffect DEF OneChange
  <2>2. /\ file'[f] = 0 /\ \A g \in Files : g # f => file'[g] = file[g]
    BY <1>4, RemoveEffect
  <2>3. \A g \in Files : file[g] >= file["meta"] \/ file[g] = 0
    BY <1>0 DEF NoneOlder
  <2>4. \A g \in Files : file'[g] >= file'["meta"] \/ file'[g] = 0
    BY <1>0, <1>1, <2>2, <2>3
  <2> QED
    BY <2>1, <2>4 DEF NoneOlder
<1>5. CASE RemoveDir \/ CutDelete
  <2>1. RemoveDir
    BY <1>0, <1>5 DEF Clean, CutDelete
  <2>2. doomed = {"dir"} /\ UNCHANGED file
    BY <2>1 DEF RemoveDir
  <2>3. \A f \in Files : f # "dir"
    BY DEF Files
  <2>4. \A f \in Files : file'[f] = 0
    BY <1>0, <2>2, <2>3 DEF OneChange
  <2>5. 0 >= 0
    OBVIOUS
  <2> QED
    BY <1>1, <2>4, <2>5 DEF NoneOlder
<1>6. ASSUME BeginSave PROVE UNCHANGED file /\ doomed = {}
  BY <1>0, <1>6, BeginSaveAlone
<1>7. ASSUME NEW s \in Save, CutSave(s) PROVE UNCHANGED <<file, doomed>>
  BY <1>7, CutEffect
<1>8. ASSUME NEW d \in Domains, BeginDelete(d) PROVE UNCHANGED file /\ doomed = {}
  BY <1>8 DEF BeginDelete
<1>9. ASSUME NEW r \in Readers, ReadFile(r) \/ BeginList(r) \/ \E d \in Domains : BeginLoad(r, d)
      PROVE  UNCHANGED <<file, doomed>>
  BY <1>9, ReaderFrame
<1> QED
  BY <1>2, <1>3, <1>4, <1>5, <1>6, <1>7, <1>8, <1>9 DEF Next, vars

\* A file is not older than before, or it is gone.
LEMMA FilesGetNewer ==
    ASSUME TypeOK, OneChange, Clean, [Next]_vars, NEW f \in Files,
           NEW m \in Nat, m <= saves, file[f] = 0 \/ file[f] >= m
    PROVE  file'[f] = 0 \/ file'[f] >= m
<1>0. file[f] \in Nat /\ saves \in Nat
  BY TypeFacts
<1>1. ASSUME NEW s \in Save, WriteFile(s) PROVE file'[f] = 0 \/ file'[f] >= m
  <2>1. s = saves
    BY <1>1, SavesAreNewest
  <2>2. file'[f] \in {s, file[f]}
    BY <1>1, WriteEffect
  <2> QED
    BY <1>0, <2>1, <2>2
<1>2. ASSUME NEW g \in Files, RemoveFile(g) PROVE file'[f] = 0 \/ file'[f] >= m
  BY <1>2, RemoveEffect
<1>3. ASSUME UNCHANGED file PROVE file'[f] = 0 \/ file'[f] >= m
  BY <1>3
<1>4. \/ UNCHANGED file
      \/ \E s \in Save : WriteFile(s)
      \/ \E g \in Files : RemoveFile(g)
  BY DEF Next, vars, BeginSave, CutSave, BeginDelete, RemoveDir, CutDelete, ReadFile,
         BeginList, BeginLoad
<1> QED
  BY <1>1, <1>2, <1>3, <1>4

\* A reader reads on: what it gets is not older than the metadata it has got.
LEMMA ReadEffect ==
    ASSUME TypeOK, OneChange, NoneOlder, ReadsNoneOlder, Clean,
           NEW r \in Readers, ReadFile(r), reader'[r].next # "failed"
    PROVE  /\ \A q \in Readers : q # r => reader'[q] = reader[q]
           /\ \A f \in Files : file[f] = 0 \/ file[f] >= reader'[r].got["meta"]
           /\ \A f \in Fetched[reader'[r].next] :
                 f \in Files => reader'[r].got[f] >= reader'[r].got["meta"]
<1> DEFINE f == reader[r].next
<1>1. /\ f \in Files /\ Readable(r, f)
      /\ reader' = [reader EXCEPT ![r].next = AfterRead[f], ![r].got[f] = file[f]]
      /\ reader \in [Readers -> [next : Files \cup {"idle", "done", "failed"},
                                 domain : Domains, got : [Files -> 0..saves]]]
  BY DEF ReadFile, TypeOK
<1>2. /\ reader'[r].next = AfterRead[f] /\ reader'[r].got[f] = file[f]
      /\ \A g \in Files : g # f => reader'[r].got[g] = reader[r].got[g]
      /\ \A q \in Readers : q # r => reader'[q] = reader[q]
  BY <1>1
<1>3. /\ file[f] # 0 /\ file["meta"] \in Nat /\ file[f] \in Nat
      /\ "meta" \in Files
  BY <1>1, TypeFacts DEF Readable, Files
<1> HIDE DEF f
<1>4. CASE f = "meta"
  <2>1. reader'[r].got["meta"] = file["meta"]
    BY <1>2, <1>4
  <2>2. \A g \in Files : file[g] = 0 \/ file[g] >= file["meta"]
    BY DEF NoneOlder
  <2>3. Fetched[reader'[r].next] = {"meta"}
    BY <1>2, <1>4 DEF AfterRead, Fetched
  <2> QED
    BY <1>2, <1>3, <2>1, <2>2, <2>3
<1>5. CASE f # "meta"
  <2>1. reader'[r].got["meta"] = reader[r].got["meta"] /\ f \in {"cert", "fullchain", "key"}
    BY <1>1, <1>2, <1>3, <1>5 DEF Files
  <2>2. /\ \A g \in Files : file[g] = 0 \/ file[g] >= reader[r].got["meta"]
        /\ \A g \in Files : g \in Fetched[f] => reader[r].got[g] >= reader[r].got["meta"]
    BY <2>1 DEF ReadsNoneOlder, f
  <2>3. \A g \in Files : g \in Fetched[reader'[r].next] => g = f \/ g \in Fetched[f]
    BY <1>2, <2>1 DEF AfterRead, Fetched, Files
  <2>4. file[f] >= reader[r].got["meta"]
    BY <1>1, <1>3, <2>2
  <2> QED
    BY <1>2, <2>1, <2>2, <2>3, <2>4
<1> QED
  BY <1>4, <1>5

\* Every step leaves what a reader has read, and will read, no older than the
\* metadata it has read.
LEMMA ReadsNoneOlderStep ==
    TypeOK /\ OneChange /\ NoneOlder /\ ReadsNoneOlder /\ [Next]_vars => ReadsNoneOlder'
<1> SUFFICES ASSUME TypeOK, OneChange, NoneOlder, ReadsNoneOlder, [Next]_vars, Clean',
                    NEW r \in Readers,
                    reader'[r].next \in {"cert", "fullchain", "key", "done"}, NEW f \in Files
             PROVE  /\ file'[f] = 0 \/ file'[f] >= reader'[r].got["meta"]
                    /\ f \in Fetched[reader'[r].next] =>
                          reader'[r].got[f] >= reader'[r].got["meta"]
  BY DEF ReadsNoneOlder
<1>0. Clean
  <2>1. faults' = faults
    BY DEF Next, vars, BeginSave, WriteFile, CutSave, BeginDelete, RemoveFile, RemoveDir,
           CutDelete, ReadFile, BeginList, BeginLoad
  <2> QED
    BY <2>1 DEF Clean
<1>1. ASSUME reader'[r] = reader[r]
      PROVE  /\ file'[f] = 0 \/ file'[f] >= reader'[r].got["meta"]
             /\ f \in Fetched[reader'[r].next] =>
                   reader'[r].got[f] >= reader'[r].got["meta"]
  <2>1. reader[r].got["meta"] \in Nat /\ reader[r].got["meta"] <= saves
    <3>1. reader[r].got \in [Files -> 0..saves] /\ saves \in Nat /\ "meta" \in Files
      BY TypeFacts DEF TypeOK, Files
    <3> QED
      BY <3>1
  <2>2. /\ file[f] = 0 \/ file[f] >= reader[r].got["meta"]
        /\ f \in Fetched[reader[r].next] => reader[r].got[f] >= reader[r].got["meta"]
    BY <1>0, <1>1 DEF ReadsNoneOlder
  <2>3. file'[f] = 0 \/ file'[f] >= reader[r].got["meta"]
    BY <1>0, <2>1, <2>2, FilesGetNewer
  <2> QED
    BY <1>1, <2>2, <2>3
<1>2. CASE ReadFile(r)
  <2>1. file' = file
    BY <1>2 DEF ReadFile
  <2> QED
    BY <1>0, <1>2, <2>1, ReadEffect
<1>3. ASSUME NEW q \in Readers, ReadFile(q), q # r PROVE reader'[r] = reader[r]
  BY <1>3 DEF ReadFile, TypeOK
<1>4. ASSUME NEW q \in Readers, BeginList(q) \/ \E d \in Domains : BeginLoad(q, d)
      PROVE  reader'[r] = reader[r]
  <2>1. \E w : reader' = [reader EXCEPT ![q] = w] /\ w.next \in {"meta", "failed"}
    <3>1. CASE BeginList(q)
      <4> DEFINE d == owner[file["meta"]]
                 w == [next |-> IF dir = d THEN "meta" ELSE "failed",
                       domain |-> d, got |-> Nothing]
      <4>1. reader' = [reader EXCEPT ![q] = w]
        BY <3>1 DEF BeginList
      <4>2. w.next \in {"meta", "failed"}
        OBVIOUS
      <4> QED
        BY <4>1, <4>2
    <3>2. ASSUME NEW d \in Domains, BeginLoad(q, d)
          PROVE  \E w : reader' = [reader EXCEPT ![q] = w] /\ w.next \in {"meta", "failed"}
      <4> DEFINE w == [next |-> "meta", domain |-> d, got |-> Nothing]
      <4>1. reader' = [reader EXCEPT ![q] = w] /\ w.next = "meta"
        BY <3>2 DEF BeginLoad
      <4> QED
        BY <4>1
    <3> QED
      BY <1>4, <3>1, <3>2
  <2> QED
    BY <2>1 DEF TypeOK
<1>5. \/ UNCHANGED reader
      \/ \E q \in Readers : ReadFile(q) \/ BeginList(q) \/ \E d \in Domains : BeginLoad(q, d)
  BY DEF Next, vars, BeginSave, WriteFile, CutSave, BeginDelete, RemoveFile, RemoveDir, CutDelete
<1> QED
  BY <1>1, <1>2, <1>3, <1>4, <1>5
\* Neither in the store nor in what a reader has read is the metadata newer
\* than the certificate and the key, also when saves are cut short.
THEOREM MetadataIsOldest == Spec => []MetaIsOldest
<1> DEFINE Inv == TypeOK /\ OneChange /\ NoneOlder /\ ReadsNoneOlder
<1>1. Init => Inv
  <2> SUFFICES ASSUME Init PROVE OneChange /\ NoneOlder /\ ReadsNoneOlder
    BY TypeInit
  <2>1. \A s \in Save : ~Writing(s)
    BY DEF Init, Writing, Files
  <2>2. doomed = {} /\ \A f \in Files : file[f] = 0
    BY DEF Init, Nothing
  <2>3. \A r \in Readers : reader[r].next = "idle"
    BY DEF Init
  <2>4. 0 >= 0 /\ "meta" \in Files
    BY DEF Files
  <2> QED
    BY <2>1, <2>2, <2>3, <2>4 DEF OneChange, NoneOlder, ReadsNoneOlder
<1>2. Inv /\ [Next]_vars => Inv'
  BY TypeStep, OneChangeStep, NoneOlderStep, ReadsNoneOlderStep
<1>3. Inv => MetaIsOldest
  BY DEF NoneOlder, ReadsNoneOlder, Clean, MetaIsOldest, Fetched
<1> QED
  BY <1>1, <1>2, <1>3, PTL DEF Spec

-----------------------------------------------------------------------------
(* Owners *)

\* Every step keeps one owner for each directory.
LEMMA SameOwnerStep == TypeOK /\ OneChange /\ SameOwner /\ [Next]_vars => SameOwner'
<1> SUFFICES ASSUME TypeOK, OneChange, SameOwner, [Next]_vars, Clean', file'["meta"] # 0
             PROVE  /\ \A f \in Files : file'[f] # 0 => owner'[file'[f]] = owner'[file'["meta"]]
                    /\ \A s \in Save : Writing(s)' => owner'[s] = owner'[file'["meta"]]
  BY DEF SameOwner
<1> DEFINE Goal ==
       /\ \A f \in Files : file'[f] # 0 => owner'[file'[f]] = owner'[file'["meta"]]
       /\ \A s \in Save : Writing(s)' => owner'[s] = owner'[file'["meta"]]
<1>0. Clean /\ owner' = owner
  <2>1. faults' = faults /\ owner' = owner
    BY DEF Next, vars, BeginSave, WriteFile, CutSave, BeginDelete, RemoveFile, RemoveDir,
           CutDelete, ReadFile, BeginList, BeginLoad
  <2> QED
    BY <2>1 DEF Clean
<1>1. "meta" \in Files
  BY DEF Files
<1>2. ASSUME UNCHANGED file, \A s \in Save : Writing(s)' => Writing(s) PROVE Goal
  BY <1>0, <1>2 DEF SameOwner
<1>3. CASE BeginSave
  <2>1. PICK n \in Save :
           /\ file' = file /\ \A s \in Save : Writing(s)' => s = n
           /\ \/ \A s \in Save : ~Writing(s)'
              \/ file["meta"] # 0 => owner[file["meta"]] = owner[n]
    BY <1>0, <1>3, BeginSaveAlone
  <2>2. \A f \in Files : file[f] # 0 => owner[file[f]] = owner[file["meta"]]
    BY <1>0, <2>1 DEF SameOwner
  <2> QED
    BY <1>0, <2>1, <2>2
<1>4. ASSUME NEW s \in Save, WriteFile(s) PROVE Goal
  <2>1. /\ file'[writer[s]] = s /\ \A f \in Files : f # writer[s] => file'[f] = file[f]
        /\ writer[s] \in Files /\ \A q \in Save : Writing(q)' => Writing(q)
        /\ Writing(s)' => writer[s] # "meta"
    BY <1>4, WriteEffect DEF WriteFile
  <2>2. \A q \in Save : Writing(q) => q = s
    BY <1>0, <1>4 DEF OneChange, WriteFile
  <2>3. CASE writer[s] = "meta"
    <3>1. \A f \in Files : file'[f] = s
      BY <1>0, <1>4, <2>1, <2>3, SavesAreNewest
    <3> QED
      BY <1>0, <1>1, <2>1, <2>2, <2>3, <3>1
  <2>4. CASE writer[s] # "meta"
    <3>1. file'["meta"] = file["meta"] /\ file["meta"] # 0
      BY <1>1, <2>1, <2>4
    <3>2. /\ \A f \in Files : file[f] # 0 => owner[file[f]] = owner[file["meta"]]
          /\ owner[s] = owner[file["meta"]]
      BY <1>0, <1>4, <3>1 DEF SameOwner, WriteFile
    <3> QED
      BY <1>0, <2>1, <2>2, <3>1, <3>2
  <2> QED
    BY <2>3, <2>4
<1>5. ASSUME NEW f \in Files, RemoveFile(f) PROVE Goal
  <2>1. /\ file'[f] = 0 /\ \A g \in Files : g # f => file'[g] = file[g]
        /\ \A s \in Save : Writing(s)' <=> Writing(s)
    BY <1>5, RemoveEffect DEF Writing
  <2>2. file["meta"] # 0 /\ file'["meta"] = file["meta"]
    BY <1>1, <2>1
  <2> QED
    BY <1>0, <2>1, <2>2 DEF SameOwner
<1>6. ASSUME NEW s \in Save, CutSave(s) PROVE Goal
  <2>1. UNCHANGED file /\ \A q \in Save : Writing(q)' => Writing(q)
    BY <1>6, CutEffect
  <2> QED
    BY <1>2, <2>1
<1>7. \/ BeginSave
      \/ \E s \in Save : WriteFile(s) \/ CutSave(s)
      \/ \E f \in Files : RemoveFile(f)
      \/ UNCHANGED <<file, writer>>
  BY DEF Next, vars, BeginDelete, RemoveDir, CutDelete, ReadFile, BeginList, BeginLoad
<1>8. ASSUME UNCHANGED <<file, writer>> PROVE Goal
  BY <1>2, <1>8 DEF Writing
<1> QED
  BY <1>3, <1>4, <1>5, <1>6, <1>7, <1>8

\* Every step keeps the name of the directory the one of its owner.
LEMMA DirNamedStep ==
    TypeOK /\ OneChange /\ SameOwner /\ DirNamed /\ [Next]_vars => DirNamed'
<1> SUFFICES ASSUME TypeOK, OneChange, SameOwner, DirNamed, [Next]_vars,
                    Clean', "save" \notin faults', doomed' = {}
             PROVE  /\ \A s \in Save : Writing(s)' => dir' = owner'[s]
                    /\ file'["meta"] # 0 => dir' = owner'[file'["meta"]]
                    /\ file'["meta"] = 0 /\ (\A s \in Save : ~Writing(s)') => dir' = "none"
  BY DEF DirNamed
<1> DEFINE Goal ==
       /\ \A s \in Save : Writing(s)' => dir' = owner'[s]
       /\ file'["meta"] # 0 => dir' = owner'[file'["meta"]]
       /\ file'["meta"] = 0 /\ (\A s \in Save : ~Writing(s)') => dir' = "none"
<1>0. Clean /\ owner' = owner /\ "save" \notin faults
  <2>1. faults' = faults /\ owner' = owner
    BY DEF Next, vars, BeginSave, WriteFile, CutSave, BeginDelete, RemoveFile, RemoveDir,
           CutDelete, ReadFile, BeginList, BeginLoad
  <2> QED
    BY <2>1 DEF Clean
<1>1. "meta" \in Files /\ \A s \in Save : owner[s] # "none"
  BY TypeFacts, StoreAssumption DEF Files
<1>2. ASSUME UNCHANGED <<file, writer, dir, doomed>> PROVE Goal
  BY <1>0, <1>2 DEF DirNamed, Writing
<1>3. CASE BeginSave
  <2>1. PICK n \in Save :
           /\ UNCHANGED <<file, doomed>>
           /\ \A s \in Save : ~Writing(s)
           /\ dir' = IF dir = "none" THEN owner[n] ELSE dir
           /\ \A s \in Save : Writing(s)' => s = n
           /\ \/ /\ file["meta"] # 0 /\ owner[file["meta"]] # owner[n]
                 /\ \A s \in Save : ~Writing(s)'
              \/ /\ file["meta"] # 0 => owner[file["meta"]] = owner[n]
                 /\ Writing(n)'
    BY <1>0, <1>3, BeginSaveAlone
  <2>2. CASE file["meta"] # 0
    <3>1. dir = owner[file["meta"]]
      BY <1>0, <2>1, <2>2 DEF DirNamed
    <3>2. file["meta"] \in Save
      <4>1. file["meta"] \in 0..saves /\ saves \in 0..MaxSaves /\ MaxSaves \in Nat
        BY <1>1, TypeFacts
      <4> QED
        BY <2>2, <4>1 DEF Save
    <3>3. dir' = dir
      BY <1>1, <2>1, <3>1, <3>2
    <3> QED
      BY <1>0, <2>1, <2>2, <3>1, <3>3
  <2>3. CASE file["meta"] = 0
    <3>1. dir = "none"
      BY <1>0, <2>1, <2>3 DEF DirNamed
    <3> QED
      BY <1>0, <2>1, <2>3, <3>1
  <2> QED
    BY <2>2, <2>3
<1>4. ASSUME NEW s \in Save, WriteFile(s) PROVE Goal
  <2>1. /\ file'[writer[s]] = s /\ \A f \in Files : f # writer[s] => file'[f] = file[f]
        /\ writer[s] \in Files /\ \A q \in Save : Writing(q)' => Writing(q)
        /\ Writing(s)' <=> writer[s] # "meta"
        /\ dir' = dir /\ doomed' = doomed
    BY <1>4, WriteEffect DEF WriteFile
  <2>2. dir = owner[s] /\ s # 0
    BY <1>0, <1>4, <2>1 DEF DirNamed, WriteFile, Save
  <2>3. \A q \in Save : Writing(q) => q = s
    BY <1>0, <1>4 DEF OneChange, WriteFile
  <2>4. CASE writer[s] = "meta"
    BY <1>0, <2>1, <2>2, <2>3, <2>4
  <2>5. CASE writer[s] # "meta"
    <3>1. file'["meta"] = file["meta"]
      BY <1>1, <2>1, <2>5
    <3>2. file["meta"] # 0 => dir = owner[file["meta"]]
      BY <1>0, <2>1 DEF DirNamed
    <3> QED
      BY <1>0, <2>1, <2>2, <2>3, <2>5, <3>1, <3>2
  <2> QED
    BY <2>4, <2>5
<1>5. ASSUME NEW f \in Files, RemoveFile(f) PROVE FALSE
  BY <1>0, <1>5, RemoveEffect DEF OneChange
<1>6. CASE RemoveDir \/ CutDelete
  <2>1. RemoveDir
    BY <1>0, <1>6 DEF Clean, CutDelete
  <2>2. doomed = {"dir"} /\ UNCHANGED <<file, writer>>
        /\ dir' = IF file = Nothing THEN "none" ELSE dir
    BY <2>1 DEF RemoveDir
  <2>3. (\A f \in Files : f # "dir") /\ file \in [Files -> 0..saves]
    BY TypeFacts DEF Files
  <2>4. (\A f \in Files : file[f] = 0) /\ \A s \in Save : ~Writing(s)
    BY <1>0, <2>2, <2>3 DEF OneChange
  <2>5. file = Nothing
    BY <2>3, <2>4 DEF Nothing
  <2> QED
    BY <1>1, <2>2, <2>4, <2>5 DEF Writing
<1>7. ASSUME NEW s \in Save, CutSave(s) PROVE FALSE
  BY <1>0, <1>7 DEF CutSave
<1>8. ASSUME NEW d \in Domains, BeginDelete(d) PROVE FALSE
  BY <1>8 DEF BeginDelete
<1>9. ASSUME NEW r \in Readers, ReadFile(r) \/ BeginList(r) \/ \E d \in Domains : BeginLoad(r, d)
      PROVE  UNCHANGED <<file, writer, dir, doomed>>
  BY <1>9, ReaderFrame
<1> QED
  BY <1>2, <1>3, <1>4, <1>5, <1>6, <1>7, <1>8, <1>9 DEF Next, vars

\* No save replaces the files of another domain whose bundle is there, and
\* the directory bears the name of the domain it is listed for.
THEOREM OwnersKeepTheirFiles == Spec => []OneOwner
<1> DEFINE Inv == TypeOK /\ OneChange /\ SameOwner /\ DirNamed
<1>1. Init => Inv
  <2> SUFFICES ASSUME Init PROVE OneChange /\ SameOwner /\ DirNamed
    BY TypeInit
  <2>1. \A s \in Save : ~Writing(s)
    BY DEF Init, Writing, Files
  <2>2. doomed = {} /\ dir = "none" /\ file["meta"] = 0
    BY DEF Init, Nothing, Files
  <2> QED
    BY <2>1, <2>2 DEF OneChange, SameOwner, DirNamed
<1>2. Inv /\ [Next]_vars => Inv'
  BY TypeStep, OneChangeStep, SameOwnerStep, DirNamedStep
<1>3. Inv => OneOwner
  BY DEF SameOwner, DirNamed, Clean, OneOwner
<1> QED
  BY <1>1, <1>2, <1>3, PTL DEF Spec
-----------------------------------------------------------------------------
(* Whole bundles *)

\* Every step keeps the bundles whole, save for one being written.
LEMMA WholeStep == TypeOK /\ OneChange /\ WholeButWritten /\ [Next]_vars => WholeButWritten'
<1> SUFFICES ASSUME TypeOK, OneChange, WholeButWritten, [Next]_vars,
                    faults' = {}, doomed' = {}, NEW f \in Files
             PROVE  \/ file'[f] = file'["meta"]
                    \/ \E s \in Save : Writing(s)' /\ f \in Written[writer'[s]]
  BY DEF WholeButWritten
<1> DEFINE Goal == \/ file'[f] = file'["meta"]
                   \/ \E s \in Save : Writing(s)' /\ f \in Written[writer'[s]]
<1>0. Clean /\ faults = {}
  <2>1. faults' = faults
    BY DEF Next, vars, BeginSave, WriteFile, CutSave, BeginDelete, RemoveFile, RemoveDir,
           CutDelete, ReadFile, BeginList, BeginLoad
  <2> QED
    BY <2>1 DEF Clean
<1>1. "meta" \in Files
  BY DEF Files
<1>2. ASSUME UNCHANGED <<file, writer, doomed>> PROVE Goal
  BY <1>0, <1>2 DEF WholeButWritten, Writing
<1>3. CASE BeginSave
  <2>1. /\ UNCHANGED <<file, doomed>>
        /\ \A s \in Save : ~Writing(s)
    BY <1>0, <1>3, BeginSaveAlone
  <2> QED
    BY <1>0, <2>1 DEF WholeButWritten
<1>4. ASSUME NEW s \in Save, WriteFile(s) PROVE Goal
  <2>1. /\ file'[writer[s]] = s /\ \A g \in Files : g # writer[s] => file'[g] = file[g]
        /\ writer[s] \in Files
        /\ Writing(s)' <=> writer[s] # "meta"
        /\ writer[s] # "meta" => Written[writer'[s]] = Written[writer[s]] \cup {writer[s]}
        /\ doomed' = doomed
    BY <1>4, WriteEffect
  <2>2. CASE writer[s] = "meta"
    <3>1. file'[f] = s /\ file'["meta"] = s
      BY <1>0, <1>4, <2>1, <2>2, SavesAreNewest
    <3> QED
      BY <3>1
  <2>3. CASE writer[s] # "meta"
    <3>1. \A q \in Save : Writing(q) => q = s
      BY <1>0, <1>4 DEF OneChange, WriteFile
    <3>2. file[f] = file["meta"] \/ f \in Written[writer[s]]
      BY <1>0, <2>1, <3>1 DEF WholeButWritten
    <3> QED
      BY <1>1, <2>1, <2>3, <3>2
  <2> QED
    BY <2>2, <2>3
<1>5. ASSUME NEW g \in Files, RemoveFile(g) PROVE FALSE
  BY <1>0, <1>5, RemoveEffect DEF OneChange
<1>6. CASE RemoveDir
  <2>1. doomed = {"dir"} /\ UNCHANGED file /\ f # "dir"
    BY <1>6 DEF RemoveDir, Files
  <2>2. \A g \in Files : g # "dir"
    BY DEF Files
  <2> QED
    BY <1>0, <1>1, <2>1, <2>2 DEF OneChange
<1>7. \/ UNCHANGED <<file, writer, doomed>> \/ BeginSave \/ RemoveDir
      \/ \E s \in Save : WriteFile(s)
      \/ \E g \in Files : RemoveFile(g)
  BY <1>0 DEF Next, vars, CutSave, BeginDelete, CutDelete, ReadFile, BeginList, BeginLoad
<1> QED
  BY <1>2, <1>3, <1>4, <1>5, <1>6, <1>7

\* Between complete saves and deletions that exclude each other the four
\* files belong together.
THEOREM BundlesAreWhole == Spec => []SettledIsWhole
<1> DEFINE Inv == TypeOK /\ OneChange /\ WholeButWritten
<1>1. Init => Inv
  <2> SUFFICES ASSUME Init PROVE OneChange /\ WholeButWritten
    BY TypeInit
  <2>1. \A s \in Save : ~Writing(s)
    BY DEF Init, Writing, Files
  <2>2. doomed = {} /\ \A f \in Files : file[f] = 0
    BY DEF Init, Nothing
  <2>3. "meta" \in Files
    BY DEF Files
  <2> QED
    BY <2>1, <2>2, <2>3 DEF OneChange, WholeButWritten
<1>2. Inv /\ [Next]_vars => Inv'
  BY TypeStep, OneChangeStep, WholeStep
<1>3. Inv => SettledIsWhole
  BY DEF WholeButWritten, SettledIsWhole
<1> QED
  BY <1>1, <1>2, <1>3, PTL DEF Spec

-----------------------------------------------------------------------------
(* The certificate authority and its root, which lies in two more files    *)

WritingRoot(p) == pc[p] \in {"write cert", "write key"}

\* A file that was there when init looked stays there, and only a root is
\* written.
NothingErased ==
    \A p \in Processes :
        /\ pc[p] = "load" => loaded[p] # 0 /\ disk.key # 0
        /\ WritingRoot(p) => mem[p].key # 0

\* Certificate and key belong together in every memory, and on the disk once
\* both files are there; what init has read of the two is still there.
PairsMatch ==
    /\ \A p \in Processes : mem[p].cert = mem[p].key
    /\ Complete => disk.cert = disk.key
    /\ \A p \in Processes : pc[p] = "load" => Complete /\ loaded[p] = disk.cert
    /\ LeavesVerify

\* A process writes a new root alone, its certificate first, while there is
\* no key file.
WriterIsAlone ==
    /\ disk.key # 0 => disk.cert # 0
    /\ \A p \in Processes : WritingRoot(p) =>
          /\ disk.key = 0
          /\ mem[p].cert # 0
          /\ \A q \in Processes : q # p => pc[q] = "idle"
    /\ \A p \in Processes : pc[p] = "write key" => disk.cert = mem[p].cert

\* Unless saving fails, whoever has a root, has it from the store or is about
\* to write it, and every leaf was signed by the root in the store.
OneRoot ==
    "save" \notin rootFaults =>
        /\ \A p \in Processes : mem[p].cert # 0 /\ ~WritingRoot(p) => Complete /\ mem[p] = disk
        /\ \A l \in leaves : Complete /\ l = disk

AuthorityInv == PairsMatch /\ WriterIsAlone /\ OneRoot

-----------------------------------------------------------------------------
\* What is in a store or memory without a root has the type of a root.
LEMMA NoneIsRoot == None \in Root
  BY AuthorityAssumption DEF None, Root

\* A generated root is a root within the bound, and not the absence of one.
LEMMA NewRoot ==
    ASSUME AuthorityTypeOK, roots < MaxRoots
    PROVE  /\ roots + 1 \in 0..MaxRoots /\ roots + 1 # 0
           /\ [cert |-> roots + 1, key |-> roots + 1] \in Root
<1>1. roots \in 0..MaxRoots /\ MaxRoots \in Nat
  BY AuthorityAssumption DEF AuthorityTypeOK
<1>2. roots + 1 \in 0..MaxRoots /\ roots + 1 # 0
  BY <1>1
<1> QED
  BY <1>2 DEF Root

-----------------------------------------------------------------------------
(* Types *)

\* The initial state has the right type.
LEMMA AuthorityTypeInit == AuthorityInit => AuthorityTypeOK /\ NothingErased
  BY AuthorityAssumption DEF AuthorityInit, AuthorityTypeOK, NothingErased, WritingRoot, Root, None

\* Every step keeps the type and erases nothing.
LEMMA AuthorityTypeStep ==
    AuthorityTypeOK /\ NothingErased /\ [AuthorityNext]_authorityVars
        => AuthorityTypeOK' /\ NothingErased'
<1> SUFFICES ASSUME AuthorityTypeOK, NothingErased, [AuthorityNext]_authorityVars
             PROVE  AuthorityTypeOK' /\ NothingErased'
  OBVIOUS
<1> USE AuthorityAssumption DEF AuthorityTypeOK, NothingErased, WritingRoot, Goto
<1>1. ASSUME NEW p \in Processes, InitLoad(p) PROVE AuthorityTypeOK' /\ NothingErased'
  BY <1>1 DEF InitLoad, Complete, Root
<1>2. ASSUME NEW p \in Processes, LoadKey(p) PROVE AuthorityTypeOK' /\ NothingErased'
  BY <1>2 DEF LoadKey, Root
<1>3. ASSUME NEW p \in Processes, InitGenerate(p) PROVE AuthorityTypeOK' /\ NothingErased'
  <2>1. roots < MaxRoots
    BY <1>3 DEF InitGenerate
  <2> DEFINE new == [cert |-> roots + 1, key |-> roots + 1]
  <2>2. new \in Root /\ new.cert # 0 /\ new.key # 0 /\ roots + 1 \in 0..MaxRoots
    BY <2>1, NewRoot
  <2>3. mem' = [mem EXCEPT ![p] = new]
    BY <1>3 DEF InitGenerate
  <2> HIDE DEF new
  <2>4. pc' = [pc EXCEPT ![p] = "write cert"] /\ UNCHANGED <<rootFaults, disk, loaded, leaves>>
    BY <1>3 DEF InitGenerate
  <2>5. NothingErased'
    BY <2>2, <2>3, <2>4
  <2>6. AuthorityTypeOK'
    <3>1. roots' \in 0..MaxRoots
      BY <1>3, <2>2 DEF InitGenerate
    <3> QED
      BY <2>2, <2>3, <2>4, <3>1
  <2> QED
    BY <2>5, <2>6
<1>4. ASSUME NEW p \in Processes, WriteCert(p) PROVE AuthorityTypeOK' /\ NothingErased'
  BY <1>4 DEF WriteCert, Root
<1>5. ASSUME NEW p \in Processes, WriteKey(p) PROVE AuthorityTypeOK' /\ NothingErased'
  BY <1>5 DEF WriteKey, Root
<1>6. ASSUME NEW p \in Processes, SaveFails(p) PROVE AuthorityTypeOK' /\ NothingErased'
  BY <1>6 DEF SaveFails
<1>7. ASSUME NEW p \in Processes, Issue(p) PROVE AuthorityTypeOK' /\ NothingErased'
  BY <1>7 DEF Issue
<1>8. ASSUME NEW p \in Processes, Crash(p) PROVE AuthorityTypeOK' /\ NothingErased'
  <2>1. None.cert = 0 /\ None.key = 0
    BY DEF None
  <2> QED
    BY <1>8, <2>1, NoneIsRoot DEF Crash
<1>9. CASE UNCHANGED authorityVars
  BY <1>9 DEF authorityVars
<1> QED
  BY <1>1, <1>2, <1>3, <1>4, <1>5, <1>6, <1>7, <1>8, <1>9 DEF AuthorityNext

\* Every state of every behaviour has the right type: in particular a process
\* never ends up with a certificate without a key.
THEOREM AuthorityTypeCorrect == AuthoritySpec => [](AuthorityTypeOK /\ NothingErased)
<1> QED
  BY AuthorityTypeInit, AuthorityTypeStep, PTL DEF AuthoritySpec

-----------------------------------------------------------------------------
(* Roots *)

\* Nothing is signed, stored or in memory at first.
LEMMA NothingAtFirst == AuthorityInit => AuthorityInv
  BY DEF AuthorityInit, AuthorityInv, PairsMatch, LeavesVerify, WriterIsAlone, WritingRoot, OneRoot,
         Complete, None

\* If the first init is alone, every step keeps certificates with their keys.
LEMMA AuthorityStep ==
    FirstAlone /\ AuthorityTypeOK /\ AuthorityInv /\ [AuthorityNext]_authorityVars
        => AuthorityInv'
<1> SUFFICES ASSUME FirstAlone, AuthorityTypeOK, AuthorityInv, [AuthorityNext]_authorityVars
             PROVE  AuthorityInv'
  OBVIOUS
<1> USE DEF AuthorityInv, PairsMatch, LeavesVerify, WriterIsAlone, WritingRoot, OneRoot,
            Complete, Goto
<1>0. /\ disk \in Root /\ leaves \subseteq Root
      /\ mem \in [Processes -> Root]
      /\ pc \in [Processes -> {"idle", "load", "write cert", "write key"}]
      /\ loaded \in [Processes -> 0..MaxRoots]
  BY DEF AuthorityTypeOK
<1>1. ASSUME NEW p \in Processes, InitLoad(p) PROVE AuthorityInv'
  BY <1>0, <1>1 DEF InitLoad
<1>2. ASSUME NEW p \in Processes, LoadKey(p) PROVE AuthorityInv'
  <2>1. disk = [cert |-> loaded[p], key |-> disk.key]
    BY <1>0, <1>2 DEF LoadKey, Root
  <2>2. mem' = [mem EXCEPT ![p] = disk]
    BY <1>2, <2>1 DEF LoadKey
  <2> QED
    BY <1>0, <1>2, <2>2 DEF LoadKey
<1>3. ASSUME NEW p \in Processes, InitGenerate(p) PROVE AuthorityInv'
  <2> DEFINE new == [cert |-> roots + 1, key |-> roots + 1]
  <2>1. new.cert = new.key /\ new.cert # 0
    BY <1>3, NewRoot DEF InitGenerate
  <2>2. mem' = [mem EXCEPT ![p] = new]
    BY <1>3 DEF InitGenerate
  <2>3. disk.key = 0 /\ \A q \in Processes : pc[q] = "idle"
    BY <1>3 DEF InitGenerate, MayInit
  <2>4. pc' = [pc EXCEPT ![p] = "write cert"] /\ UNCHANGED <<rootFaults, disk, loaded, leaves>>
    BY <1>3 DEF InitGenerate
  <2> HIDE DEF new
  <2>5. PairsMatch'
    BY <1>0, <2>1, <2>2, <2>3, <2>4
  <2>6. WriterIsAlone'
    <3>1. \A q \in Processes : q # p => pc'[q] = "idle"
      BY <1>0, <2>3, <2>4
    <3>2. mem'[p].cert # 0 /\ pc'[p] = "write cert" /\ disk' = disk
      BY <1>0, <2>1, <2>2, <2>4
    <3>3. \A q \in Processes : pc'[q] \in {"write cert", "write key"} => q = p
      BY <3>1
    <3>4. ASSUME NEW q \in Processes, pc'[q] \in {"write cert", "write key"}
          PROVE  disk'.key = 0 /\ mem'[q].cert # 0
                 /\ \A r \in Processes : r # q => pc'[r] = "idle"
      <4>1. q = p
        BY <3>3, <3>4
      <4>2. disk'.key = 0
        BY <2>3, <3>2
      <4>3. mem'[q].cert # 0
        BY <3>2, <4>1
      <4>4. \A r \in Processes : r # q => pc'[r] = "idle"
        BY <3>1, <4>1
      <4> QED
        BY <4>2, <4>3, <4>4
    <3>5. \A q \in Processes : pc'[q] # "write key"
      BY <3>2, <3>3
    <3>6. disk'.key = 0
      BY <2>3, <3>2
    <3> QED
      BY <3>4, <3>5, <3>6
  <2>7. OneRoot'
    BY <1>0, <2>1, <2>2, <2>3, <2>4
  <2> QED
    BY <2>5, <2>6, <2>7
<1>4. ASSUME NEW p \in Processes, WriteCert(p) PROVE AuthorityInv'
  <2>1. disk'.cert = mem[p].cert /\ disk'.key = disk.key
    BY <1>0, <1>4 DEF WriteCert, Root
  <2>2. /\ pc[p] = "write cert" /\ pc' = [pc EXCEPT ![p] = "write key"]
        /\ UNCHANGED <<rootFaults, mem, loaded, leaves>>
    BY <1>4 DEF WriteCert
  <2>3. disk.key = 0 /\ \A q \in Processes : q # p => pc[q] = "idle" /\ pc'[q] = "idle"
    BY <1>0, <2>2
  <2>4. PairsMatch'
    BY <1>0, <2>1, <2>2, <2>3
  <2>5. WriterIsAlone'
    BY <1>0, <2>1, <2>2, <2>3
  <2>6. OneRoot'
    BY <1>0, <2>1, <2>2, <2>3
  <2> QED
    BY <2>4, <2>5, <2>6
<1>5. ASSUME NEW p \in Processes, WriteKey(p) PROVE AuthorityInv'
  <2>1. disk'.cert = disk.cert /\ disk'.key = mem[p].key /\ disk' = mem[p]
    <3>1. disk \in Root /\ mem[p] \in Root /\ disk.cert = mem[p].cert
      BY <1>0, <1>5 DEF WriteKey
    <3>2. disk' = [disk EXCEPT !.key = mem[p].key]
      BY <1>5 DEF WriteKey
    <3> QED
      BY <3>1, <3>2 DEF Root
  <2>2. /\ pc[p] = "write key" /\ pc' = [pc EXCEPT ![p] = "idle"]
        /\ UNCHANGED <<rootFaults, mem, loaded, leaves>>
    BY <1>5 DEF WriteKey
  <2>3. disk.key = 0 /\ \A q \in Processes : q # p => pc[q] = "idle" /\ pc'[q] = "idle"
    BY <1>0, <2>2
  <2>4. PairsMatch'
    BY <1>0, <2>1, <2>2, <2>3
  <2>5. WriterIsAlone'
    BY <1>0, <2>1, <2>2, <2>3
  <2>6. OneRoot'
    BY <1>0, <2>1, <2>2, <2>3
  <2> QED
    BY <2>4, <2>5, <2>6
<1>6. ASSUME NEW p \in Processes, SaveFails(p) PROVE AuthorityInv'
  BY <1>0, <1>6 DEF SaveFails
<1>7. ASSUME NEW p \in Processes, Issue(p) PROVE AuthorityInv'
  BY <1>0, <1>7 DEF Issue
<1>8. ASSUME NEW p \in Processes, Crash(p) PROVE AuthorityInv'
  BY <1>0, <1>8 DEF Crash, None
<1>9. CASE UNCHANGED authorityVars
  BY <1>9 DEF authorityVars
<1> QED
  BY <1>1, <1>2, <1>3, <1>4, <1>5, <1>6, <1>7, <1>8, <1>9 DEF AuthorityNext

\* If the first init runs alone, every leaf verifies against the root it
\* names, whatever crashes and whatever cannot be written.
THEOREM AllLeavesVerify == FirstAlone => (AuthoritySpec => []LeavesVerify)
<1> SUFFICES ASSUME FirstAlone PROVE AuthoritySpec => []LeavesVerify
  OBVIOUS
<1>1. AuthorityInv => LeavesVerify
  BY DEF AuthorityInv, PairsMatch
<1>2. AuthorityTypeOK /\ AuthorityInv /\ [AuthorityNext]_authorityVars => AuthorityInv'
  BY AuthorityStep
<1> QED
  BY <1>1, <1>2, NothingAtFirst, AuthorityTypeCorrect, PTL DEF AuthoritySpec

\* If the first init runs alone and writing never fails, all leaves of all
\* processes name one root, and it is the one in the store.
THEOREM OneAuthorityForAll == FirstAlone => (AuthoritySpec => []OneAuthorityIfSaved)
<1> SUFFICES ASSUME FirstAlone PROVE AuthoritySpec => []OneAuthorityIfSaved
  OBVIOUS
<1>1. AuthorityInv => OneAuthorityIfSaved
  BY DEF AuthorityInv, OneRoot, WritingRoot, OneAuthorityIfSaved, OneAuthority,
         RootIsStored
<1>2. AuthorityTypeOK /\ AuthorityInv /\ [AuthorityNext]_authorityVars => AuthorityInv'
  BY AuthorityStep
<1> QED
  BY <1>1, <1>2, NothingAtFirst, AuthorityTypeCorrect, PTL DEF AuthoritySpec
=============================================================================
