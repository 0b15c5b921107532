---------------------------- MODULE CertAuthority ----------------------------
(***************************************************************************)
(* CertificateAuthority of lacme/ca.py in several processes that share one *)
(* FileStore: init() loads the root certificate and key from two files, or *)
(* generates a root and writes the two files one after the other; leaf     *)
(* certificates are signed with what the process has in memory.            *)
(*                                                                         *)
(* A root is a number; self._lock makes init and issue of one process      *)
(* exclude each other, but excludes no other process.  No name is in       *)
(* FileStore too, so that one module can extend both.                      *)
(***************************************************************************)
EXTENDS Naturals

CONSTANTS
    Processes,     \* processes that use the same store and CA name
    MaxRoots,      \* bound on the roots generated
    FirstAlone,    \* does the first init run while no other init does?
    RootFaultSets  \* what may go wrong: sets of RootFaultKinds

RootFaultKinds == {"crash",   \* a process dies
                   "save"}    \* writing a file raises

ASSUME AuthorityAssumption ==
    /\ MaxRoots \in Nat
    /\ FirstAlone \in BOOLEAN
    /\ RootFaultSets \subseteq SUBSET RootFaultKinds

VARIABLES
    rootFaults,  \* chosen once, never changed
    disk,        \* the roots whose certificate and key are in the two files
    mem,         \* mem[p]: the roots of _root_cert and _root_key
    pc,          \* pc[p]: where p is suspended
    loaded,      \* loaded[p]: the certificate init has read from the store
    roots,       \* roots generated
    leaves       \* issuer certificate and signing key of every leaf issued

authorityVars == <<rootFaults, disk, mem, pc, loaded, roots, leaves>>

Root == [cert : 0..MaxRoots, key : 0..MaxRoots]
None == [cert |-> 0, key |-> 0]

\* Every variable has its type; a process has both a root certificate and a
\* key, or neither.
AuthorityTypeOK ==
    /\ rootFaults \in RootFaultSets
    /\ disk \in Root
    /\ mem \in [Processes -> Root]
    /\ \A p \in Processes : mem[p].cert = 0 <=> mem[p].key = 0
    /\ pc \in [Processes -> {"idle", "load", "write cert", "write key"}]
    /\ loaded \in [Processes -> 0..MaxRoots]
    /\ roots \in 0..MaxRoots
    /\ leaves \subseteq Root

AuthorityInit ==
    /\ rootFaults \in RootFaultSets
    /\ disk = None
    /\ mem = [p \in Processes |-> None]
    /\ pc = [p \in Processes |-> "idle"]
    /\ loaded = [p \in Processes |-> 0]
    /\ roots = 0
    /\ leaves = {}

-----------------------------------------------------------------------------
Goto(p, label) == pc' = [pc EXCEPT ![p] = label]

Complete == disk.cert # 0 /\ disk.key # 0

MayInit(p) ==
    /\ pc[p] = "idle"
    /\ FirstAlone /\ ~Complete => \A q \in Processes : pc[q] = "idle"

\* init with both files there: load_ca reads the certificate first.
InitLoad(p) ==
    /\ MayInit(p)
    /\ Complete
    /\ loaded' = [loaded EXCEPT ![p] = disk.cert]
    /\ Goto(p, "load")
    /\ UNCHANGED <<rootFaults, disk, mem, roots, leaves>>

\* Mistake: a key in memory is kept.
LoadKeyOnce(p) ==
    /\ pc[p] = "load"
    /\ mem' = [mem EXCEPT ![p] =
                  [cert |-> loaded[p],
                   key |-> IF mem[p].key # 0 THEN mem[p].key ELSE disk.key]]
    /\ Goto(p, "idle")
    /\ UNCHANGED <<rootFaults, disk, loaded, roots, leaves>>

LoadKey(p) ==
    /\ pc[p] = "load"
    /\ mem' = [mem EXCEPT ![p] = [cert |-> loaded[p], key |-> disk.key]]
    /\ Goto(p, "idle")
    /\ UNCHANGED <<rootFaults, disk, loaded, roots, leaves>>

\* Mistake: the root is not saved.
InitGenerateUnsaved(p) ==
    /\ MayInit(p)
    /\ ~Complete
    /\ mem[p].cert = 0
    /\ roots < MaxRoots
    /\ roots' = roots + 1
    /\ mem' = [mem EXCEPT ![p] = [cert |-> roots + 1, key |-> roots + 1]]
    /\ UNCHANGED <<rootFaults, disk, pc, loaded, leaves>>

\* init with nothing to load: a root in memory is kept as it is, otherwise
\* one is generated, and is in memory before it is written.
InitGenerate(p) ==
    /\ MayInit(p)
    /\ ~Complete
    /\ mem[p].cert = 0
    /\ roots < MaxRoots
    /\ roots' = roots + 1
    /\ mem' = [mem EXCEPT ![p] = [cert |-> roots + 1, key |-> roots + 1]]
    /\ Goto(p, "write cert")
    /\ UNCHANGED <<rootFaults, disk, loaded, leaves>>

WriteCert(p) ==
    /\ pc[p] = "write cert"
    /\ disk' = [disk EXCEPT !.cert = mem[p].cert]
    /\ Goto(p, "write key")
    /\ UNCHANGED <<rootFaults, mem, loaded, roots, leaves>>

WriteKey(p) ==
    /\ pc[p] = "write key"
    /\ disk' = [disk EXCEPT !.key = mem[p].key]
    /\ Goto(p, "idle")
    /\ UNCHANGED <<rootFaults, mem, loaded, roots, leaves>>

\* save_ca raises out of init; the root stays in memory.
SaveFails(p) ==
    /\ "save" \in rootFaults
    /\ pc[p] \in {"write cert", "write key"}
    /\ Goto(p, "idle")
    /\ UNCHANGED <<rootFaults, disk, mem, loaded, roots, leaves>>

\* issue and issue_from_csr: sign with the key in memory, name the root in
\* memory as the issuer.  Saving the leaf is save_cert of FileStore.
Issue(p) ==
    /\ pc[p] = "idle"
    /\ mem[p].cert # 0 /\ mem[p].key # 0
    /\ leaves' = leaves \cup {mem[p]}
    /\ UNCHANGED <<rootFaults, disk, mem, pc, loaded, roots>>

Crash(p) ==
    /\ "crash" \in rootFaults
    /\ mem' = [mem EXCEPT ![p] = None]
    /\ Goto(p, "idle")
    /\ UNCHANGED <<rootFaults, disk, loaded, roots, leaves>>

AuthorityNext ==
    \E p \in Processes :
        \/ InitLoad(p) \/ LoadKey(p)
        \/ InitGenerate(p) \/ WriteCert(p) \/ WriteKey(p) \/ SaveFails(p)
        \/ Issue(p) \/ Crash(p)

AuthoritySpec == AuthorityInit /\ [][AuthorityNext]_authorityVars

-----------------------------------------------------------------------------
(* Properties *)

\* Every leaf verifies against the root it names as its issuer: certificate
\* and key in memory always belong together, although they are written and
\* read as two files.
LeavesVerify == \A l \in leaves : l.cert = l.key

\* All leaves chain to one root, across processes, crashes and restarts, so
\* that trust in it is given once ("you can safely call init() on every
\* server startup").
OneAuthority == \A l, m \in leaves : l.cert = m.cert

\* The root a process can sign with is the one a restart would load.
RootIsStored ==
    \A p \in Processes : pc[p] = "idle" /\ mem[p].cert # 0 => mem[p] = disk

\* Both are so unless writing the root fails: a later init does not write it.
OneAuthorityIfSaved == "save" \notin rootFaults => OneAuthority /\ RootIsStored
=============================================================================
