------------------------- MODULE SnapshotterProofs -------------------------
(***************************************************************************)
(* Theorems about the snapshotter: its types, and that the metadata which   *)
(* the writer, the store and the calls of Mounts see is well-formed at      *)
(* every step, for any keys, requests, readers, faults and configuration.   *)
(***************************************************************************)
EXTENDS Snapshotter, TLAPS

\* A version of the metadata: ids are given once and in order, and the parent of
\* a snapshot is a committed snapshot that is older.
WellFormed(s, q) ==
    /\ s \in [Keys -> Snapshot \cup {None}]
    /\ \A k \in Live(s) : s[k].id <= q
    /\ \A j, k \in Live(s) : s[j].id = s[k].id => j = k
    /\ \A k \in Live(s) :
           s[k].parent # None => /\ s[k].parent \in Committed(s)
                                 /\ s[s[k].parent].id < s[k].id

\* The stages of the calls.
Preparing == {"rename", "spec", "attach", "mark", "mount", "commit"}
Sealing   == {"seal", "metadata"}
Removing  == {"ownDevice", "dockerDevice", "lockOwn", "lockParent", "parentDevice",
              "removeMetadata"}
Leaving   == {"removeDirectories", "removeCommit"}

\* The one snapshot that Prepare or View has added: of the key, or, if it was a
\* remote layer, of its name.
Made == IF wsnaps[call.key] # None THEN call.key ELSE call.name

\* What Prepare or View has done to the metadata.
AddedInv ==
    /\ call.key \in Keys /\ call.name \in Keys
    /\ call.id = seq + 1 /\ wseq = seq + 1
    /\ call.locks = {} /\ call.removals = {}
    /\ snaps[call.key] = None /\ snaps[Made] = None
    /\ wsnaps[Made] # None /\ wsnaps[Made].id = call.id
    /\ \A k \in Keys \ {Made} : wsnaps[k] = snaps[k]

\* What it is, and whose device serves it.
AddedKind ==
    IF wsnaps[call.key] = None
    THEN /\ pc = "commit" /\ call.dev = None
         /\ wsnaps[call.name].kind = "committed"
         /\ wsnaps[call.name].flavor = "remote"
    ELSE /\ wsnaps[call.key].kind # "committed"
         /\ wsnaps[call.key].flavor = "remote" => pc \in {"rename", "spec"}
         /\ pc \in {"rename", "spec"} => call.dev = None
         /\ pc \in {"attach", "mark", "mount"} => call.dev # None
         /\ call.dev # None =>
              \/ call.dev = call.id /\ wsnaps[call.key].flavor = "rw"
              \/ /\ wsnaps[call.key].parent # None
                 /\ call.dev = ParentId(wsnaps, call.key)

\* The writer's version of the metadata differs from the committed one by what
\* its call has done so far.
WriterInv ==
    /\ pc = "idle" => wsnaps = snaps /\ wseq = seq /\ call = NoCall
    /\ pc \in Preparing => AddedInv /\ AddedKind
    /\ pc \in Sealing \cup {"publish"} \cup Removing \cup Leaving =>
           call.key \in Live(snaps) /\ call.id = snaps[call.key].id /\ wseq = seq
    /\ pc \in Sealing \cup {"publish"} =>
           call.name \in Keys /\ snaps[call.key].kind = "active"
    /\ pc \in Sealing \cup Removing => wsnaps = snaps
    /\ pc \in {"lockParent", "parentDevice"} => snaps[call.key].parent # None
    /\ pc = "publish" =>
           /\ wsnaps[call.key] = None /\ snaps[call.name] = None
           /\ call.name \in Committed(wsnaps) /\ wsnaps[call.name].id = call.id
           /\ \A k \in Keys \ {call.key, call.name} : wsnaps[k] = snaps[k]
    /\ pc \in Leaving =>
           /\ wsnaps = [snaps EXCEPT ![call.key] = None]
           /\ Children(snaps, call.key) = {}
           /\ call.removals \cap LiveIds(wsnaps) = {}

\* What call r of Mounts works on: a version of the metadata that the store once
\* had, and what has become of it since. A committed snapshot of that version is
\* gone or still committed; and the parent is the same as long as the key is.
ReaderOK(r) ==
    LET s == rsnaps[r] k == rkey[r]
    IN  /\ k \in Live(s) /\ s[k].kind # "committed"
        /\ WellFormed(s, seq)
        /\ \A c \in Committed(s), j \in Live(snaps) :
               s[c].id = snaps[j].id => snaps[j].kind = "committed"
        /\ snaps[k] = s[k] /\ s[k].parent # None
               => snaps[s[k].parent] = s[s[k].parent]
        /\ rpc[r] \in {"mark", "mount"} => s[k].parent # None
ReaderInv == \A r \in Readers : rpc[r] # "idle" => ReaderOK(r)

MetaInv ==
    /\ WellFormed(snaps, seq) /\ WellFormed(wsnaps, wseq)
    /\ WriterInv /\ ReaderInv

IInv == TypeOK /\ MetaInv

-----------------------------------------------------------------------------
(* Operations on a version of the metadata.                                *)

\* The id of a parent.
LEMMA ParentTyped ==
  ASSUME NEW s, NEW q, WellFormed(s, q), NEW k \in Live(s), s[k].parent # None
  PROVE  /\ s[k].parent \in Live(s) /\ ParentId(s, k) \in Ids
         /\ ParentId(s, k) = s[s[k].parent].id
         /\ s[s[k].parent].kind = "committed"
         /\ ParentId(s, k) < s[k].id
  BY DEF WellFormed, Committed, Live, ParentId, Snapshot

\* A snapshot is added.
LEMMA AddSnapshot ==
  ASSUME NEW s, NEW q \in 0 .. MaxId, WellFormed(s, q), q < MaxId,
         NEW k \in Keys, s[k] = None,
         NEW x \in Snapshot, x.id = q + 1, x.parent \in Committed(s) \cup {None}
  PROVE  WellFormed([s EXCEPT ![k] = x], q + 1)
  <1> DEFINE t == [s EXCEPT ![k] = x]
  <1>1. t \in [Keys -> Snapshot \cup {None}] /\ x # None
    BY NoneAssumption DEF WellFormed
  <1>2. Live(t) = Live(s) \cup {k} /\ k \notin Live(s)
    BY <1>1 DEF Live, WellFormed
  <1>3. t[k] = x /\ \A j \in Live(s) : t[j] = s[j]
    BY <1>1, <1>2 DEF WellFormed, Live
  <1>4. \A j \in Live(s) : s[j].id \in Nat /\ s[j].id <= q /\ s[j] \in Snapshot
    BY BoundsAssumption DEF WellFormed, Live, Snapshot, Ids
  <1> HIDE DEF t
  <1>5. Committed(s) \subseteq Committed(t) /\ Committed(s) \subseteq Live(s)
    BY <1>2, <1>3 DEF Committed
  <1>6. \A j \in Live(t) : t[j].id <= q + 1
    BY <1>2, <1>3, <1>4
  <1>7. \A i, j \in Live(t) : t[i].id = t[j].id => i = j
    BY <1>2, <1>3, <1>4 DEF WellFormed
  <1>8. \A j \in Live(t) : t[j].parent # None => /\ t[j].parent \in Committed(t)
                                                 /\ t[t[j].parent].id < t[j].id
    BY <1>2, <1>3, <1>4, <1>5 DEF WellFormed
  <1> QED
    BY <1>1, <1>6, <1>7, <1>8 DEF WellFormed, t

\* A snapshot that is not committed becomes a committed one of another name.
LEMMA CommitSnapshot ==
  ASSUME NEW s, NEW q, WellFormed(s, q),
         NEW k \in Live(s), s[k].kind # "committed",
         NEW n \in Keys, s[n] = None,
         NEW x \in Snapshot, x.id = s[k].id, x.parent = s[k].parent
  PROVE  WellFormed([s EXCEPT ![k] = None, ![n] = x], q)
  <1> DEFINE t == [s EXCEPT ![k] = None, ![n] = x]
  <1>1. t \in [Keys -> Snapshot \cup {None}] /\ x # None /\ n # k
    BY NoneAssumption DEF WellFormed, Live
  <1>2. Live(t) = (Live(s) \ {k}) \cup {n} /\ n \notin Live(s)
    BY <1>1 DEF Live, WellFormed
  <1>3. t[n] = x /\ \A j \in Live(s) \ {k} : t[j] = s[j]
    BY <1>1, <1>2 DEF WellFormed, Live
  <1> HIDE DEF t
  <1>4. Committed(s) \subseteq Committed(t) /\ Committed(s) \subseteq Live(s) \ {k}
    BY <1>2, <1>3 DEF Committed
  <1>5. \A j \in Live(t) : t[j].id <= q
    BY <1>2, <1>3 DEF WellFormed
  <1>6. \A i, j \in Live(t) : t[i].id = t[j].id => i = j
    BY <1>2, <1>3 DEF WellFormed
  <1>7. \A j \in Live(t) : t[j].parent # None => /\ t[j].parent \in Committed(t)
                                                 /\ t[t[j].parent].id < t[j].id
    BY <1>2, <1>3, <1>4 DEF WellFormed
  <1> QED
    BY <1>1, <1>5, <1>6, <1>7 DEF WellFormed, t

\* A snapshot without children is dropped.
LEMMA DropSnapshot ==
  ASSUME NEW s, NEW q, WellFormed(s, q), NEW k \in Keys, Children(s, k) = {}
  PROVE  WellFormed([s EXCEPT ![k] = None], q)
  <1> DEFINE t == [s EXCEPT ![k] = None]
  <1>1. t \in [Keys -> Snapshot \cup {None}]
    BY DEF WellFormed
  <1>2. Live(t) = Live(s) \ {k} /\ \A j \in Live(t) : t[j] = s[j]
    BY <1>1 DEF Live, WellFormed
  <1> HIDE DEF t
  <1>3. \A j \in Live(s) : s[j].parent # k
    BY DEF Children
  <1>4. \A j \in Committed(s) : j # k => j \in Committed(t) /\ t[j] = s[j]
    BY <1>2 DEF Committed
  <1>5. \A j \in Live(t) : t[j].parent # None => /\ t[j].parent \in Committed(t)
                                                 /\ t[t[j].parent].id < t[j].id
    BY <1>2, <1>3, <1>4 DEF WellFormed
  <1> QED
    BY <1>1, <1>2, <1>5 DEF WellFormed, t

\* The label of a snapshot changes.
LEMMA RelabelSnapshot ==
  ASSUME NEW s, NEW q, WellFormed(s, q), NEW k \in Live(s), NEW f \in Flavors
  PROVE  WellFormed([s EXCEPT ![k].flavor = f], q)
  <1> DEFINE t == [s EXCEPT ![k].flavor = f]
  <1>1. s[k] \in Snapshot /\ s \in [Keys -> Snapshot \cup {None}] /\ k \in Keys
    BY DEF WellFormed, Live
  <1>2. [s[k] EXCEPT !.flavor = f] \in Snapshot
    BY <1>1 DEF Snapshot
  <1>3. t = [s EXCEPT ![k] = [s[k] EXCEPT !.flavor = f]]
    OBVIOUS
  <1>4. t \in [Keys -> Snapshot \cup {None}] /\ Live(t) = Live(s)
    BY <1>1, <1>2, <1>3, NoneAssumption DEF Live
  <1>5. \A j \in Live(s) : /\ t[j].id = s[j].id /\ t[j].parent = s[j].parent
                           /\ t[j].kind = s[j].kind
    BY <1>1, <1>3 DEF Live, Snapshot
  <1> HIDE DEF t
  <1>6. Committed(t) = Committed(s) /\ Committed(s) \subseteq Live(s)
    BY <1>4, <1>5 DEF Committed
  <1>7. WellFormed(t, q)
    BY <1>4, <1>5, <1>6 DEF WellFormed
  <1> QED
    BY <1>7 DEF t
-----------------------------------------------------------------------------
(* What a step means for the calls of Mounts.                              *)

\* Whatever the writer commits, the snapshots that a call of Mounts knows and
\* that are still there are the same, unless they have been committed.
LEMMA ReadersKept ==
  ASSUME IInv, UNCHANGED readers, seq' \in Nat, seq <= seq',
         snaps' \in [Keys -> Snapshot \cup {None}],
         \A k \in Live(snaps') : \/ snaps'[k] = snaps[k]
                                 \/ snaps'[k].id > seq
                                 \/ snaps'[k].kind = "committed",
         \A p \in Committed(snaps) :
             snaps'[p] = snaps[p] \/ Children(snaps', p) = {}
  PROVE  ReaderInv'
  <1> SUFFICES ASSUME NEW r \in Readers, rpc[r] # "idle"
               PROVE  ReaderOK(r)'
    BY DEF ReaderInv, readers
  <1> DEFINE s == rsnaps[r]
             k == rkey[r]
  <1>1. ReaderOK(r)
    BY DEF IInv, MetaInv, ReaderInv
  <1>2. /\ k \in Live(s) /\ s[k].kind # "committed" /\ WellFormed(s, seq)
        /\ rsnaps'[r] = s /\ rkey'[r] = k /\ rpc'[r] = rpc[r]
        /\ rpc[r] \in {"mark", "mount"} => s[k].parent # None
    BY <1>1 DEF ReaderOK, readers
  <1>3. /\ \A c \in Committed(s), j \in Live(snaps) :
               s[c].id = snaps[j].id => snaps[j].kind = "committed"
        /\ snaps[k] = s[k] /\ s[k].parent # None
               => snaps[s[k].parent] = s[s[k].parent]
    BY <1>1 DEF ReaderOK
  <1>4. seq \in Nat /\ Committed(s) \subseteq Live(s)
    BY DEF IInv, TypeOK, Committed
  <1> HIDE DEF s, k
  <1>5. WellFormed(s, seq') /\ \A j \in Live(s) : s[j].id \in Nat /\ s[j].id <= seq
    <2>1. \A j \in Live(s) : s[j].id \in Nat /\ s[j].id <= seq
      BY <1>2 DEF WellFormed, Live, Snapshot, Ids
    <2> QED
      BY <1>2, <1>4, <2>1 DEF WellFormed
  <1>6. ASSUME NEW c \in Committed(s), NEW j \in Live(snaps'), s[c].id = snaps'[j].id
        PROVE  snaps'[j].kind = "committed"
    <2>1. j \in Live(snaps) \/ snaps'[j] # snaps[j]
      BY DEF Live
    <2> QED
      BY <1>3, <1>4, <1>5, <1>6, <2>1
  <1>7. ASSUME snaps'[k] = s[k], s[k].parent # None
        PROVE  snaps'[s[k].parent] = s[s[k].parent]
    <2>1. s[k] # None /\ k \in Keys /\ k \in Live(snaps')
      BY <1>2, <1>7 DEF Live
    <2>2. snaps[k] = s[k]
      BY <1>2, <1>4, <1>5, <1>7, <2>1
    <2>3. snaps[s[k].parent] = s[s[k].parent] /\ s[k].parent \in Committed(snaps)
      BY <1>2, <1>3, <1>7, <2>2, ParentTyped DEF Committed, Live
    <2>4. k \in Children(snaps', s[k].parent)
      BY <1>7, <2>1 DEF Children
    <2> QED
      BY <2>3, <2>4
  <1> QED
    BY <1>2, <1>5, <1>6, <1>7 DEF ReaderOK, s, k

\* As long as the store stays the same, so does everything else about it.
LEMMA ReadersStay ==
  ASSUME IInv, UNCHANGED readers, UNCHANGED store
  PROVE  ReaderInv' /\ WellFormed(snaps', seq')
  <1>1. WellFormed(snaps', seq') /\ snaps' = snaps /\ seq' = seq
    BY DEF IInv, MetaInv, store, WellFormed
  <1>2. rpc' = rpc /\ rkey' = rkey /\ rsnaps' = rsnaps
    BY DEF readers
  <1>3. ASSUME NEW r \in Readers, rpc[r] # "idle"
        PROVE  ReaderOK(r)'
    <2>1. ReaderOK(r)
      BY <1>3 DEF IInv, MetaInv, ReaderInv
    <2> QED
      BY <1>1, <1>2, <2>1 DEF ReaderOK, Live, Committed, WellFormed
  <1> QED
    BY <1>1, <1>2, <1>3 DEF ReaderInv

-----------------------------------------------------------------------------
(* The steps.                                                              *)

\* A transaction that is rolled back leaves the committed metadata.
LEMMA RollbackMeta ==
  ASSUME IInv, Rollback,
         \/ UNCHANGED readers
         \/ \A r \in Readers : rpc'[r] = "idle"
  PROVE  MetaInv'
  <1>1. UNCHANGED store /\ wsnaps' = snaps' /\ wseq' = seq'
        /\ pc' = "idle" /\ call' = NoCall
    BY DEF Rollback, Finish, store
  <1>2. ReaderInv'
    <2>1. CASE UNCHANGED readers
      BY <1>1, <2>1, ReadersStay
    <2>2. CASE \A r \in Readers : rpc'[r] = "idle"
      BY <2>2 DEF ReaderInv
    <2> QED
      BY <2>1, <2>2
  <1>3. WellFormed(snaps', seq')
    BY <1>1 DEF IInv, MetaInv, store
  <1>4. WriterInv'
    BY <1>1 DEF WriterInv, Preparing, Sealing, Removing, Leaving
  <1> QED
    BY <1>1, <1>2, <1>3, <1>4 DEF MetaInv

\* A step that leaves the metadata and the calls alone.
LEMMA IdleMeta ==
  ASSUME IInv, UNCHANGED <<store, writer, readers>>
  PROVE  MetaInv'
  <1>1. WriterInv'
    BY DEF IInv, MetaInv, WriterInv, AddedInv, AddedKind, Made, store, writer, Live,
           LiveIds, Committed, Children, ParentId
  <1> QED
    BY <1>1, ReadersStay DEF IInv, MetaInv, writer, store

\* A call of Mounts goes on.
LEMMA MountsMeta ==
  ASSUME IInv, NEW r \in Readers, MountsStep(r) \/ \E k \in Keys : BeginMounts(r, k)
  PROVE  MetaInv'
  <1>1. UNCHANGED <<store, writer>>
    BY DEF MountsStep, LockMounts, LockMountsParent, MountsOfDirectory, MountsAttach,
           MountsAttachFails, MountsMark, MountsMarkFails, MountsMount,
           MountsMountFails, BeginMounts
  <1>2. WriterInv'
    BY <1>1 DEF IInv, MetaInv, WriterInv, AddedInv, AddedKind, Made, store, writer,
                Live, LiveIds, Committed, Children, ParentId
  <1>3. \A q \in Readers \ {r} :
           rpc'[q] = rpc[q] /\ rkey'[q] = rkey[q] /\ rsnaps'[q] = rsnaps[q]
    BY DEF MountsStep, LockMounts, LockMountsParent, MountsOfDirectory, MountsAttach,
           MountsAttachFails, MountsMark, MountsMarkFails, MountsMount,
           MountsMountFails, BeginMounts, Return, EndMounts, IInv, TypeOK
  <1>4. ASSUME NEW q \in Readers \ {r}, rpc'[q] # "idle"
        PROVE  ReaderOK(q)'
    <2>1. ReaderOK(q)
      BY <1>3, <1>4 DEF IInv, MetaInv, ReaderInv
    <2> QED
      BY <1>1, <1>3, <2>1, SMTT(30) DEF ReaderOK, store, Live, Committed, WellFormed
  <1>5. rpc'[r] # "idle" => ReaderOK(r)'
    <2>1. CASE \E k \in Keys : BeginMounts(r, k)
      <3>1. PICK k \in Keys : BeginMounts(r, k)
        BY <2>1
      <3>2. /\ snaps[k] # None /\ snaps[k].kind # "committed"
            /\ rkey'[r] = k /\ rsnaps'[r] = snaps /\ rpc'[r] = "lock"
        BY <3>1 DEF BeginMounts, IInv, TypeOK
      <3> QED
        BY <1>1, <3>2 DEF ReaderOK, store, IInv, MetaInv, Live, Committed, WellFormed
    <2>2. CASE \/ LockMounts(r) \/ LockMountsParent(r)
               \/ MountsAttach(r) /\ rpc'[r] = "mark"
               \/ MountsMark(r)
      <3>1. /\ rpc[r] # "idle" /\ rkey'[r] = rkey[r] /\ rsnaps'[r] = rsnaps[r]
            /\ rpc'[r] \in {"mark", "mount"} => NeedsParent(r) \/ rpc[r] = "mark"
        BY <2>2 DEF LockMounts, LockMountsParent, MountsAttach, MountsMark, Return,
                    EndMounts, IInv, TypeOK
      <3>2. ReaderOK(r)
        BY <3>1 DEF IInv, MetaInv, ReaderInv
      <3> QED
        BY <1>1, <3>1, <3>2, SMTT(30)
           DEF ReaderOK, store, Live, Committed, WellFormed, NeedsParent, ParentIsBlock
    <2>3. CASE EndMounts(r)
      BY <2>3 DEF EndMounts, IInv, TypeOK
    <2> QED
      BY <2>1, <2>2, <2>3 DEF MountsStep, MountsOfDirectory, MountsAttach,
         MountsAttachFails, MountsMark, MountsMarkFails, MountsMount, MountsMountFails,
         Return, IInv, TypeOK
  <1> QED
    BY <1>1, <1>2, <1>4, <1>5 DEF IInv, MetaInv, ReaderInv, store, writer

\* Prepare or View begins.
LEMMA BeginPrepareMeta ==
  ASSUME IInv, NEW q \in Requests, BeginPrepare(q)
  PROVE  MetaInv'
  <1> DEFINE x == [id |-> seq + 1, parent |-> q.parent, flavor |-> q.flavor,
                   kind |-> IF q.flavor = "view" THEN "view" ELSE "active"]
  <1>1. /\ pc = "idle" /\ snaps[q.key] = None /\ q.key \in Keys /\ q.name \in Keys
        /\ q.parent \in Committed(snaps) \cup {None} /\ q.flavor \in Flavors
        /\ seq < MaxId /\ wseq' = seq + 1
        /\ wsnaps' = [snaps EXCEPT ![q.key] = x]
        /\ pc' = "rename"
        /\ call' = [NoCall EXCEPT !.key = q.key, !.name = q.name, !.id = seq + 1]
        /\ UNCHANGED <<store, readers>>
    BY RequestsAssumption DEF BeginPrepare
  <1>2. /\ WellFormed(snaps, seq) /\ seq \in 0 .. MaxId
        /\ snaps \in [Keys -> Snapshot \cup {None}]
    BY DEF IInv, MetaInv, TypeOK
  <1>3. x \in Snapshot /\ x.id = seq + 1 /\ x.parent = q.parent /\ x # None
    <2>1. seq + 1 \in Ids /\ q.parent \in Keys \cup {None}
      BY <1>1, <1>2, BoundsAssumption DEF Ids, Committed, Live
    <2>2. x \in Snapshot
      BY <1>1, <2>1 DEF Snapshot
    <2> QED
      BY <2>2, NoneAssumption
  <1>4. x.kind # "committed"
    OBVIOUS
  <1> HIDE DEF x
  <1>5. WellFormed(wsnaps', wseq')
    BY <1>1, <1>2, <1>3, AddSnapshot
  <1>6. ReaderInv' /\ WellFormed(snaps', seq')
    BY <1>1, ReadersStay
  <1>7. /\ wsnaps'[q.key] = x /\ \A k \in Keys \ {q.key} : wsnaps'[k] = snaps[k]
        /\ call'.key = q.key /\ call'.name = q.name /\ call'.id = seq + 1
        /\ call'.dev = None /\ call'.locks = {} /\ call'.removals = {}
    BY <1>1, <1>2 DEF NoCall
  <1>8. Made' = q.key
    BY <1>3, <1>7 DEF Made
  <1>9. AddedInv' /\ AddedKind'
    BY <1>1, <1>3, <1>4, <1>7, <1>8 DEF AddedInv, AddedKind, store
  <1> QED
    BY <1>1, <1>5, <1>6, <1>9
       DEF MetaInv, WriterInv, Preparing, Sealing, Removing, Leaving

\* Prepare or View goes on and leaves its metadata.
LEMMA PrepareOnMeta ==
  ASSUME IInv, pc \in Preparing, pc' \in Preparing, AddedKind',
         UNCHANGED <<store, wsnaps, wseq, readers>>,
         \E d : call' = [call EXCEPT !.dev = d]
  PROVE  MetaInv'
  <1>1. /\ call'.key = call.key /\ call'.name = call.name /\ call'.id = call.id
        /\ call'.locks = call.locks /\ call'.removals = call.removals
    BY DEF IInv, TypeOK, Call
  <1>2. AddedInv
    BY DEF IInv, MetaInv, WriterInv
  <1>3. AddedInv'
    BY <1>1, <1>2 DEF AddedInv, Made, store
  <1>4. WriterInv'
    BY <1>3 DEF WriterInv, Preparing, Sealing, Removing, Leaving
  <1>5. WellFormed(wsnaps', wseq')
    BY DEF IInv, MetaInv
  <1> QED
    BY <1>4, <1>5, ReadersStay DEF MetaInv

\* The steps of Prepare and View that leave the metadata.
LEMMA PreparePlainMeta ==
  ASSUME IInv, \/ RenameDirectory \/ PrepareLayer \/ PrepareDockerLayer
               \/ AttachDevice \/ AttachDeviceFails \/ MarkDevice \/ MarkDeviceFails
               \/ MountDevice \/ MountDeviceFails
               \/ CommitPrepareFails
  PROVE  MetaInv'
  <1>1. CASE Rollback /\ UNCHANGED readers
    BY <1>1, RollbackMeta
  <1>2. CASE RenameDirectory /\ ~Rollback
    <2>1. /\ pc = "rename" /\ pc' = "spec"
          /\ UNCHANGED <<store, call, wsnaps, wseq, readers>>
      BY <1>2 DEF RenameDirectory
    <2>2. AddedKind'
      BY <2>1 DEF IInv, MetaInv, WriterInv, Preparing, AddedKind, ParentId
    <2>3. call' = [call EXCEPT !.dev = call.dev]
      BY <2>1 DEF IInv, TypeOK, Call
    <2> QED
      BY <2>1, <2>2, <2>3, PrepareOnMeta DEF Preparing
  <1>3. CASE PrepareLayer
    <2>1. /\ pc = "spec" /\ pc' = "commit" /\ wsnaps[call.key].flavor = "layer"
          /\ UNCHANGED <<store, call, wsnaps, wseq, readers>>
      BY <1>3 DEF PrepareLayer
    <2>2. AddedKind'
      BY <2>1 DEF IInv, MetaInv, WriterInv, Preparing, AddedKind, ParentId
    <2>3. call' = [call EXCEPT !.dev = call.dev]
      BY <2>1 DEF IInv, TypeOK, Call
    <2> QED
      BY <2>1, <2>2, <2>3, PrepareOnMeta DEF Preparing
  <1>4. CASE PrepareDockerLayer
    <2>1. /\ pc = "spec" /\ wsnaps[call.key].flavor \in {"rootfs", "view", "rw"}
          /\ UNCHANGED <<store, wsnaps, wseq, readers>>
          /\ \/ /\ pc' = "attach" /\ wsnaps[call.key].parent # None
                /\ call' = [call EXCEPT !.dev = ParentId(wsnaps, call.key)]
             \/ pc' = "commit" /\ call' = call
      BY <1>4 DEF PrepareDockerLayer, IsRootfs, ParentIsBlock
    <2>2. AddedKind /\ WellFormed(wsnaps, wseq) /\ AddedInv
      BY <2>1 DEF IInv, MetaInv, WriterInv, Preparing
    <2>3. call.key \in Live(wsnaps)
      BY <2>1, <2>2 DEF AddedKind, AddedInv, Live
    <2>4. CASE pc' = "attach"
      <3>1. call' = [call EXCEPT !.dev = ParentId(wsnaps, call.key)]
            /\ wsnaps[call.key].parent # None
        BY <2>1, <2>4
      <3>2. ParentId(wsnaps, call.key) # None
        BY <2>2, <2>3, <3>1, ParentTyped, NoneAssumption
      <3>3. /\ call'.key = call.key /\ call'.dev = ParentId(wsnaps, call.key)
            /\ ParentId(wsnaps', call'.key) = ParentId(wsnaps, call.key)
        BY <2>1, <3>1 DEF IInv, TypeOK, Call, ParentId
      <3>4. AddedKind'
        BY <2>1, <2>2, <2>4, <3>1, <3>2, <3>3 DEF AddedKind
      <3> QED
        BY <2>1, <2>4, <3>1, <3>4, PrepareOnMeta DEF Preparing
    <2>5. CASE pc' = "commit" /\ call' = call
      <3>1. AddedKind'
        BY <2>1, <2>2, <2>5 DEF AddedKind, ParentId
      <3>2. call' = [call EXCEPT !.dev = call.dev]
        BY <2>5 DEF IInv, TypeOK, Call
      <3> QED
        BY <2>1, <2>5, <3>1, <3>2, PrepareOnMeta DEF Preparing
    <2> QED
      BY <2>1, <2>4, <2>5
  <1>5. CASE AttachDevice \/ MarkDevice \/ MountDevice
    <2>1. /\ pc \in {"attach", "mark", "mount"} /\ pc' \in {"mark", "mount", "commit"}
          /\ UNCHANGED <<store, call, wsnaps, wseq, readers>>
      BY <1>5 DEF AttachDevice, MarkDevice, MountDevice
    <2>2. AddedKind'
      BY <2>1 DEF IInv, MetaInv, WriterInv, Preparing, AddedKind, ParentId
    <2>3. call' = [call EXCEPT !.dev = call.dev]
      BY <2>1 DEF IInv, TypeOK, Call
    <2> QED
      BY <2>1, <2>2, <2>3, PrepareOnMeta DEF Preparing
  <1> QED
    BY <1>1, <1>2, <1>3, <1>4, <1>5 DEF RenameDirectory, AttachDeviceFails,
                                        MarkDeviceFails, MountDeviceFails,
                                        CommitPrepareFails, AbandonPrepare


\* A remote layer is committed by Prepare.
LEMMA PrepareRemoteMeta ==
  ASSUME IInv, PrepareRemote
  PROVE  MetaInv'
  <1> DEFINE k == call.key
             n == call.name
             x == [wsnaps[k] EXCEPT !.kind = "committed"]
  <1>1. CASE Rollback
    BY <1>1, RollbackMeta DEF PrepareRemote
  <1>2. CASE ~Rollback
    <2>1. /\ pc = "spec" /\ wsnaps[k].flavor = "remote" /\ wsnaps[n] = None
          /\ wsnaps' = [wsnaps EXCEPT ![k] = None, ![n] = x]
          /\ pc' = "commit" /\ UNCHANGED <<store, call, wseq, readers>>
      BY <1>2 DEF PrepareRemote, AbandonPrepare
    <2>2. AddedInv /\ AddedKind /\ WellFormed(wsnaps, wseq)
      BY <2>1 DEF IInv, MetaInv, WriterInv, Preparing
    <2>3. /\ k \in Live(wsnaps) /\ n \in Keys /\ n # k /\ wsnaps[k].kind # "committed"
          /\ wsnaps \in [Keys -> Snapshot \cup {None}] /\ Made = k /\ call.dev = None
      BY <2>1, <2>2 DEF AddedInv, AddedKind, Live, WellFormed, Made
    <2>4. /\ x \in Snapshot /\ x.id = wsnaps[k].id /\ x.parent = wsnaps[k].parent
          /\ x.kind = "committed" /\ x.flavor = "remote"
      BY <2>1, <2>3 DEF Live, Snapshot
    <2> HIDE DEF x
    <2>5. WellFormed(wsnaps', wseq')
      BY <2>1, <2>2, <2>3, <2>4, CommitSnapshot
    <2>6. /\ wsnaps'[k] = None /\ wsnaps'[n] = x /\ x # None
          /\ \A j \in Keys \ {k, n} : wsnaps'[j] = wsnaps[j]
      BY <2>1, <2>3, <2>4, NoneAssumption DEF Live
    <2>7. Made' = n
      BY <2>1, <2>6 DEF Made
    <2>8. AddedInv' /\ AddedKind'
      BY <2>1, <2>2, <2>3, <2>4, <2>6, <2>7 DEF AddedInv, AddedKind, store
    <2>9. WriterInv'
      BY <2>1, <2>8 DEF WriterInv, Preparing, Sealing, Removing, Leaving
    <2> QED
      BY <2>1, <2>5, <2>9, ReadersStay DEF MetaInv
  <1> QED
    BY <1>1, <1>2

\* A root filesystem is prepared.
LEMMA PrepareRootfsMeta ==
  ASSUME IInv, PrepareRootfs
  PROVE  MetaInv'
  <1> DEFINE k == call.key
  <1>1. CASE Rollback
    BY <1>1, RollbackMeta DEF PrepareRootfs
  <1>2. CASE ~Rollback
    <2>1. /\ pc = "spec" /\ wsnaps[k].flavor \in {"rootfs", "view", "rw"}
          /\ UNCHANGED <<store, wseq, readers>>
          /\ \/ /\ wsnaps[k].flavor = "rw" /\ call' = [call EXCEPT !.dev = call.id]
                /\ pc' = "attach" /\ UNCHANGED wsnaps
             \/ /\ wsnaps[k].parent # None
                /\ call' = [call EXCEPT !.dev = ParentId(wsnaps, k)]
                /\ pc' = "attach" /\ UNCHANGED wsnaps
             \/ /\ wsnaps' = [wsnaps EXCEPT ![k].flavor = IF @ = "rw" THEN "rootfs" ELSE @]
                /\ pc' = "commit" /\ UNCHANGED call
      BY <1>2 DEF PrepareRootfs, IsRootfs, AbandonPrepare, Writable, ParentIsBlock
    <2>2. AddedInv /\ AddedKind /\ WellFormed(wsnaps, wseq)
      BY <2>1 DEF IInv, MetaInv, WriterInv, Preparing
    <2>3. /\ k \in Live(wsnaps) /\ wsnaps[k].kind # "committed" /\ call.dev = None
          /\ wsnaps \in [Keys -> Snapshot \cup {None}] /\ Made = k /\ call.id # None
      BY <2>1, <2>2, NoneAssumption DEF AddedInv, AddedKind, Live, WellFormed, Made,
                                        Snapshot
    <2>4. CASE pc' = "attach"
      <3>1. PICK d : /\ call' = [call EXCEPT !.dev = d] /\ UNCHANGED wsnaps
                     /\ \/ wsnaps[k].flavor = "rw" /\ d = call.id
                        \/ wsnaps[k].parent # None /\ d = ParentId(wsnaps, k)
        BY <2>1, <2>4
      <3>2. d # None
        BY <2>2, <2>3, <3>1, ParentTyped, NoneAssumption
      <3>3. call'.key = k /\ call'.dev = d /\ call'.id = call.id
        BY <3>1 DEF IInv, TypeOK, Call
      <3>4. AddedKind'
        BY <2>1, <2>3, <2>4, <3>1, <3>2, <3>3 DEF AddedKind, ParentId, Live
      <3> QED
        BY <2>1, <2>4, <3>1, <3>4, PrepareOnMeta DEF Preparing
    <2>5. CASE pc' = "commit"
      <3> DEFINE f == IF wsnaps[k].flavor = "rw" THEN "rootfs" ELSE wsnaps[k].flavor
      <3>1. wsnaps' = [wsnaps EXCEPT ![k].flavor = f] /\ call' = call
        BY <2>1, <2>5
      <3>2. f \in {"rootfs", "view"} /\ f \in Flavors
        BY <2>1 DEF Flavors
      <3> HIDE DEF f
      <3>3. WellFormed(wsnaps', wseq')
        BY <2>1, <2>2, <2>3, <3>1, <3>2, RelabelSnapshot
      <3>4. /\ wsnaps'[k] \in Snapshot /\ wsnaps'[k] # None /\ wsnaps'[k].id = wsnaps[k].id
            /\ wsnaps'[k].flavor = f /\ wsnaps'[k].kind = wsnaps[k].kind
            /\ \A j \in Keys \ {k} : wsnaps'[j] = wsnaps[j]
        BY <2>3, <3>1, <3>2, NoneAssumption DEF Live, Snapshot
      <3>5. Made' = k
        BY <3>1, <3>4 DEF Made
      <3>6. AddedInv' /\ AddedKind'
        BY <2>1, <2>2, <2>3, <2>5, <3>1, <3>2, <3>4, <3>5 DEF AddedInv, AddedKind, store
      <3>7. WriterInv'
        BY <2>5, <3>6 DEF WriterInv, Preparing, Sealing, Removing, Leaving
      <3> QED
        BY <2>1, <3>3, <3>7, ReadersStay DEF MetaInv
    <2> QED
      BY <2>1, <2>4, <2>5
  <1> QED
    BY <1>1, <1>2

\* A transaction commits.
LEMMA CommitTransactionMeta ==
  ASSUME IInv, CommitTransaction, UNCHANGED readers,
         pc \in {"commit", "publish", "removeCommit"}
  PROVE  MetaInv'
  <1>1. /\ snaps' = wsnaps /\ seq' = wseq /\ wsnaps' = wsnaps /\ wseq' = wseq
        /\ pc' = "idle" /\ call' = NoCall
    BY DEF CommitTransaction, Finish
  <1>2. /\ WellFormed(wsnaps, wseq) /\ wseq \in Nat /\ seq \in Nat
        /\ wsnaps \in [Keys -> Snapshot \cup {None}]
        /\ snaps \in [Keys -> Snapshot \cup {None}]
    BY DEF IInv, MetaInv, TypeOK
  <1>3. /\ seq <= wseq
        /\ \A k \in Live(wsnaps) : \/ wsnaps[k] = snaps[k] \/ wsnaps[k].id > seq
                                   \/ wsnaps[k].kind = "committed"
        /\ \A p \in Committed(snaps) :
               wsnaps[p] = snaps[p] \/ Children(wsnaps, p) = {}
    <2>1. CASE pc = "commit"
      <3>1. AddedInv
        BY <2>1 DEF IInv, MetaInv, WriterInv, Preparing
      <3> QED
        BY <1>2, <3>1 DEF AddedInv, Live, Committed
    <2>2. CASE pc = "publish"
      BY <1>2, <2>2 DEF IInv, MetaInv, WriterInv, Live, Committed
    <2>3. CASE pc = "removeCommit"
      <3>1. /\ wsnaps = [snaps EXCEPT ![call.key] = None] /\ seq = wseq
            /\ Children(snaps, call.key) = {} /\ call.key \in Keys
        BY <2>3 DEF IInv, MetaInv, WriterInv, Leaving, Live
      <3>2. /\ Children(wsnaps, call.key) = {} /\ wsnaps[call.key] = None
            /\ \A j \in Keys \ {call.key} : wsnaps[j] = snaps[j]
        BY <1>2, <3>1 DEF Children, Live
      <3>3. seq <= wseq
        BY <1>2, <3>1
      <3>4. \A j \in Live(wsnaps) : wsnaps[j] = snaps[j]
        BY <3>2 DEF Live
      <3>5. \A p \in Committed(snaps) :
               wsnaps[p] = snaps[p] \/ Children(wsnaps, p) = {}
        BY <3>2 DEF Live, Committed
      <3> QED
        BY <3>3, <3>4, <3>5
    <2> QED
      BY <2>1, <2>2, <2>3
  <1>4. ReaderInv'
    BY <1>1, <1>2, <1>3, ReadersKept
  <1>5. WriterInv'
    BY <1>1 DEF WriterInv, Preparing, Sealing, Removing, Leaving
  <1> QED
    BY <1>1, <1>2, <1>4, <1>5 DEF MetaInv

\* The metadata after Prepare or View.
LEMMA CommitPrepareMeta ==
  ASSUME IInv, CommitPrepare
  PROVE  MetaInv'
  BY CommitTransactionMeta DEF CommitPrepare

\* Commit begins.
LEMMA BeginCommitMeta ==
  ASSUME IInv, NEW k \in Keys, NEW n \in Keys, BeginCommit(k, n)
  PROVE  MetaInv'
  <1>1. /\ pc = "idle" /\ snaps[k] # None /\ snaps[k].kind = "active" /\ pc' = "seal"
        /\ call' = [NoCall EXCEPT !.key = k, !.name = n, !.id = snaps[k].id]
        /\ UNCHANGED <<store, wsnaps, wseq, readers>>
    BY DEF BeginCommit
  <1>2. call'.key = k /\ call'.name = n /\ call'.id = snaps[k].id
    BY <1>1 DEF NoCall
  <1>3. WriterInv'
    BY <1>1, <1>2 DEF IInv, MetaInv, WriterInv, Preparing, Sealing, Removing, Leaving,
                      store, Live
  <1>4. WellFormed(wsnaps', wseq')
    BY <1>1 DEF IInv, MetaInv
  <1> QED
    BY <1>1, <1>3, <1>4, ReadersStay DEF MetaInv

\* Remove begins.
LEMMA BeginRemoveMeta ==
  ASSUME IInv, NEW k \in Keys, BeginRemove(k)
  PROVE  MetaInv'
  <1>1. /\ pc = "idle" /\ snaps[k] # None /\ pc' = "ownDevice"
        /\ call' = [NoCall EXCEPT !.key = k, !.id = snaps[k].id]
        /\ UNCHANGED <<store, wsnaps, wseq, readers>>
    BY DEF BeginRemove
  <1>2. call'.key = k /\ call'.id = snaps[k].id
    BY <1>1 DEF NoCall
  <1>3. WriterInv'
    BY <1>1, <1>2 DEF IInv, MetaInv, WriterInv, Preparing, Sealing, Removing, Leaving,
                      store, Live
  <1>4. WellFormed(wsnaps', wseq')
    BY <1>1 DEF IInv, MetaInv
  <1> QED
    BY <1>1, <1>3, <1>4, ReadersStay DEF MetaInv

\* Commit or Remove goes on and leaves the metadata.
LEMMA GoesOnMeta ==
  ASSUME IInv, UNCHANGED <<store, wsnaps, wseq, readers>>,
         call'.key = call.key, call'.id = call.id, call'.name = call.name,
         call'.removals = call.removals,
         \/ pc = "seal" /\ pc' = "metadata"
         \/ /\ pc \in Removing /\ pc' \in Removing
            /\ pc' \in {"lockParent", "parentDevice"} => snaps[call.key].parent # None
         \/ pc \in Leaving /\ pc' \in Leaving
  PROVE  MetaInv'
  <1>1. WriterInv'
    <2>1. CASE pc = "seal" /\ pc' = "metadata"
      BY <2>1 DEF IInv, MetaInv, WriterInv, Preparing, Sealing, Removing, Leaving,
                  store, Live
    <2>2. CASE pc \in Removing /\ pc' \in Removing
      BY <2>2 DEF IInv, MetaInv, WriterInv, Preparing, Sealing, Removing, Leaving,
                  store, Live
    <2>3. CASE pc \in Leaving /\ pc' \in Leaving
      BY <2>3 DEF IInv, MetaInv, WriterInv, Preparing, Sealing, Removing, Leaving,
                  store, Live, LiveIds, Children
    <2> QED
      BY <2>1, <2>2, <2>3
  <1>2. WellFormed(wsnaps', wseq')
    BY DEF IInv, MetaInv
  <1> QED
    BY <1>1, <1>2, ReadersStay DEF MetaInv

\* The steps of Commit and Remove that leave the metadata.
LEMMA PlainMeta ==
  ASSUME IInv, \/ SealWritable \/ DetachWritableFails \/ SealWritableFails
               \/ CommitCommitFails
               \/ RemoveOwnDevice \/ RemoveOwnDeviceFails \/ RemoveDockerDevice
               \/ RemoveDockerDeviceFails \/ LockOwnId \/ LockParentId
               \/ RemoveParentDevice \/ RemoveParentDeviceFails
               \/ RemoveDirectories \/ CommitRemoveFails
  PROVE  MetaInv'
  <1>1. CASE DetachWritableFails \/ SealWritableFails \/ CommitCommitFails
             \/ RemoveOwnDeviceFails \/ RemoveParentDeviceFails \/ CommitRemoveFails
    BY <1>1, RollbackMeta DEF DetachWritableFails, SealWritableFails,
                              CommitCommitFails, RemoveOwnDeviceFails,
                              RemoveParentDeviceFails, CommitRemoveFails
  <1>2. CASE SealWritable
    BY <1>2, GoesOnMeta DEF SealWritable
  <1>3. CASE RemoveOwnDevice
    BY <1>3, GoesOnMeta DEF RemoveOwnDevice, Removing
  <1>4. CASE RemoveDockerDevice \/ RemoveDockerDeviceFails
    BY <1>4, GoesOnMeta DEF RemoveDockerDevice, RemoveDockerDeviceFails, Removing
  <1>5. CASE RemoveParentDevice
    BY <1>5, GoesOnMeta DEF RemoveParentDevice, Removing
  <1>7. CASE LockOwnId \/ LockParentId
    <2>1. /\ pc \in {"lockOwn", "lockParent"}
          /\ pc' \in {"lockParent", "parentDevice", "removeMetadata"}
          /\ UNCHANGED <<store, wsnaps, wseq, readers>>
          /\ call' = call \/ \E l : call' = [call EXCEPT !.locks = l]
      BY <1>7 DEF LockOwnId, LockParentId
    <2>2. /\ call'.key = call.key /\ call'.id = call.id /\ call'.name = call.name
          /\ call'.removals = call.removals
      BY <2>1 DEF IInv, TypeOK, Call
    <2>3. pc' \in {"lockParent", "parentDevice"} => snaps[call.key].parent # None
      BY <1>7 DEF LockOwnId, LockParentId, RemovesParentDevice, IInv, MetaInv,
                  WriterInv, Removing
    <2> QED
      BY <2>1, <2>2, <2>3, GoesOnMeta DEF Removing
  <1>6. CASE RemoveDirectories
    <2>1. /\ pc = "removeDirectories" /\ pc' = "removeCommit"
          /\ UNCHANGED <<store, wsnaps, wseq, readers>>
          /\ call' = [call EXCEPT !.locks = {}]
      BY <1>6 DEF RemoveDirectories
    <2>2. /\ call'.key = call.key /\ call'.id = call.id /\ call'.name = call.name
          /\ call'.removals = call.removals
      BY <2>1 DEF IInv, TypeOK, Call
    <2> QED
      BY <2>1, <2>2, GoesOnMeta DEF Leaving
  <1> QED
    BY <1>1, <1>2, <1>3, <1>4, <1>5, <1>6, <1>7

\* Commit commits the snapshot in its transaction.
LEMMA CommitMetadataMeta ==
  ASSUME IInv, CommitMetadata
  PROVE  MetaInv'
  <1> DEFINE k == call.key
             n == call.name
  <1>1. CASE Rollback
    BY <1>1, RollbackMeta DEF CommitMetadata
  <1>2. CASE ~Rollback
    <2>1. PICK f \in {wsnaps[k].flavor, "layer"} :
             /\ pc = "metadata" /\ wsnaps[n] = None
             /\ wsnaps' = [wsnaps EXCEPT ![k] = None,
                   ![n] = [wsnaps[k] EXCEPT !.kind = "committed", !.flavor = f]]
             /\ pc' = "publish" /\ UNCHANGED <<store, call, wseq, readers>>
      BY <1>2 DEF CommitMetadata
    <2> DEFINE x == [wsnaps[k] EXCEPT !.kind = "committed", !.flavor = f]
    <2>2. /\ k \in Live(wsnaps) /\ n \in Keys /\ wsnaps[k].kind # "committed"
          /\ wsnaps = snaps /\ wseq = seq /\ call.id = snaps[k].id
          /\ snaps[k].kind = "active" /\ snaps[n] = None
          /\ WellFormed(wsnaps, wseq) /\ wsnaps \in [Keys -> Snapshot \cup {None}]
      BY <2>1 DEF IInv, MetaInv, WriterInv, Sealing, TypeOK
    <2>3. n # k
      BY <2>1, <2>2 DEF Live
    <2>4. /\ x \in Snapshot /\ x.id = wsnaps[k].id /\ x.parent = wsnaps[k].parent
          /\ x.kind = "committed"
      <3>1. wsnaps[k] \in Snapshot /\ f \in Flavors
        BY <2>2 DEF Live, Snapshot, Flavors
      <3> QED
        BY <3>1 DEF Snapshot
    <2>5. /\ wsnaps' = [wsnaps EXCEPT ![k] = None, ![n] = x]
      BY <2>1
    <2> HIDE DEF x
    <2>6. WellFormed(wsnaps', wseq')
      <3>1. WellFormed([wsnaps EXCEPT ![k] = None, ![n] = x], wseq)
        BY <2>1, <2>2, <2>4, CommitSnapshot
      <3> QED
        BY <2>1, <2>5, <3>1
    <2>7. /\ wsnaps'[k] = None /\ wsnaps'[n] = x /\ x # None
          /\ \A j \in Keys \ {k, n} : wsnaps'[j] = wsnaps[j]
      BY <2>2, <2>3, <2>4, <2>5, NoneAssumption DEF Live
    <2>8. WriterInv'
      BY <2>1, <2>2, <2>4, <2>7
         DEF WriterInv, Preparing, Sealing, Removing, Leaving, store, Live, Committed
    <2> QED
      BY <2>1, <2>6, <2>8, ReadersStay DEF MetaInv
  <1> QED
    BY <1>1, <1>2

\* Remove drops the snapshot in its transaction.
LEMMA RemoveMetadataMeta ==
  ASSUME IInv, RemoveMetadata
  PROVE  MetaInv'
  <1>1. CASE Rollback
    BY <1>1, RollbackMeta DEF RemoveMetadata
  <1>2. CASE ~Rollback
    <2>1. /\ pc = "removeMetadata" /\ Children(wsnaps, call.key) = {}
          /\ wsnaps' = [wsnaps EXCEPT ![call.key] = None]
          /\ call' = [call EXCEPT !.removals = IF AsyncRemove THEN {} ELSE Orphans(wsnaps')]
          /\ pc' = "removeDirectories" /\ UNCHANGED <<store, wseq, readers>>
      BY <1>2 DEF RemoveMetadata
    <2>2. /\ wsnaps = snaps /\ wseq = seq /\ call.key \in Live(snaps)
          /\ call.id = snaps[call.key].id /\ WellFormed(wsnaps, wseq) /\ call \in Call
      BY <2>1 DEF IInv, MetaInv, WriterInv, Removing, TypeOK
    <2>3. /\ call'.key = call.key /\ call'.id = call.id
          /\ call'.removals = IF AsyncRemove THEN {} ELSE Orphans(wsnaps')
      BY <2>1, <2>2 DEF Call
    <2>4. WellFormed(wsnaps', wseq')
      BY <2>1, <2>2, DropSnapshot DEF Live
    <2>5. call'.removals \cap LiveIds(wsnaps') = {}
      BY <2>3 DEF Orphans
    <2>6. LiveIds(wsnaps') = LiveIds(wsnaps)'
      BY DEF LiveIds, Live
    <2>7. WriterInv'
      BY <2>1, <2>2, <2>3, <2>5, <2>6
         DEF WriterInv, Preparing, Sealing, Removing, Leaving, store, Live, Children
    <2> QED
      BY <2>1, <2>4, <2>7, ReadersStay DEF MetaInv
  <1> QED
    BY <1>1, <1>2

\* Every step keeps the metadata well-formed.
LEMMA MetaStep ==
  ASSUME IInv, [Next]_vars
  PROVE  MetaInv'
  <1>1. CASE PrepareStep
    BY <1>1, PreparePlainMeta, PrepareRemoteMeta, PrepareRootfsMeta, CommitPrepareMeta
       DEF PrepareStep
  <1>2. CASE CommitStep
    <2>1. CASE CommitCommit
      BY <2>1, CommitTransactionMeta DEF CommitCommit
    <2> QED
      BY <1>2, <2>1, PlainMeta, CommitMetadataMeta DEF CommitStep
  <1>3. CASE RemoveStep
    <2>1. CASE CommitRemove
      BY <2>1, CommitTransactionMeta DEF CommitRemove
    <2> QED
      BY <1>3, <2>1, PlainMeta, RemoveMetadataMeta DEF RemoveStep
  <1>4. CASE \E q \in Requests : BeginPrepare(q)
    BY <1>4, BeginPrepareMeta
  <1>5. CASE \E m \in Names : BeginCommit(m[1], m[2])
    BY <1>5, BeginCommitMeta, NamesAssumption
  <1>6. CASE \E k \in Keys : BeginRemove(k)
    BY <1>6, BeginRemoveMeta
  <1>7. CASE \/ \E r \in Readers : MountsStep(r)
             \/ \E r \in Readers, k \in Keys : BeginMounts(r, k)
    BY <1>7, MountsMeta
  <1>8. CASE \/ \E k \in Keys : ClientUnpack(k) \/ ClientMount(k) \/ ClientUnmount(k)
             \/ ScanOrphans
             \/ \E i \in Ids : RemoveDoomed(i)
             \/ UNCHANGED vars
    BY <1>8, IdleMeta
       DEF ClientUnpack, ClientMount, ClientUnmount, ScanOrphans, RemoveDoomed, vars
  <1>9. CASE Crash
    BY <1>9, RollbackMeta DEF Crash
  <1> QED
    BY <1>1, <1>2, <1>3, <1>4, <1>5, <1>6, <1>7, <1>8, <1>9 DEF Next, WriterStep

-----------------------------------------------------------------------------
(* Which steps change what.                                                *)

\* The steps that change a directory.
LEMMA DirActions ==
  ASSUME [Next]_vars
  PROVE  \/ UNCHANGED dir
         \/ RenameDirectory \/ PrepareRemote \/ PrepareRootfs \/ AttachDeviceFails
         \/ MarkDevice \/ MarkDeviceFails \/ MountDeviceFails
         \/ SealWritable \/ CommitMetadata \/ RemoveDirectories
         \/ \E k \in Keys : ClientUnpack(k)
         \/ \E r \in Readers : MountsMark(r)
         \/ \E i \in Ids : RemoveDoomed(i)
  <1>1. CASE PrepareStep
    BY <1>1 DEF PrepareStep, PrepareLayer, PrepareDockerLayer, AttachDevice,
                MountDevice, CommitPrepare, CommitPrepareFails, disk
  <1>2. CASE CommitStep
    BY <1>2 DEF CommitStep, DetachWritableFails, SealWritableFails, CommitCommit,
                CommitCommitFails, disk
  <1>3. CASE RemoveStep
    BY <1>3 DEF RemoveStep, RemoveOwnDevice, RemoveOwnDeviceFails, RemoveDockerDevice,
                RemoveDockerDeviceFails, LockOwnId, LockParentId, RemoveParentDevice,
                RemoveParentDeviceFails, RemoveMetadata, CommitRemove,
                CommitRemoveFails, disk
  <1>4. CASE \E r \in Readers : MountsStep(r)
    BY <1>4 DEF MountsStep, LockMounts, LockMountsParent, MountsOfDirectory,
                MountsAttach, MountsAttachFails, MountsMarkFails, MountsMount,
                MountsMountFails, disk
  <1>5. CASE \E q \in Requests : BeginPrepare(q)
    BY <1>5 DEF BeginPrepare, disk
  <1>6. ASSUME NEW i, NEW n, BeginCommit(i, n) PROVE UNCHANGED dir
    BY <1>6 DEF BeginCommit, disk
  <1>7. CASE \E m \in Names : BeginCommit(m[1], m[2])
    BY <1>6, <1>7
  <1>8. CASE \E k \in Keys : BeginRemove(k) \/ ClientMount(k) \/ ClientUnmount(k)
    BY <1>8 DEF BeginRemove, ClientMount, ClientUnmount, disk
  <1>9. CASE \E r \in Readers, k \in Keys : BeginMounts(r, k)
    BY <1>9 DEF BeginMounts, disk
  <1>10. CASE ScanOrphans \/ Crash
    BY <1>10 DEF ScanOrphans, Crash, disk
  <1>11. CASE UNCHANGED vars
    BY <1>11 DEF vars, disk
  <1> QED
    BY <1>1, <1>2, <1>3, <1>4, <1>5, <1>8, <1>9, <1>10, <1>11, <1>6,
       <1>7 DEF Next, WriterStep

\* The steps that attach or detach a device, or mount or unmount it.
LEMMA KernelActions ==
  ASSUME [Next]_vars
  PROVE  \/ UNCHANGED kernel
         \/ AttachDevice \/ MountDevice \/ CommitPrepareFails
         \/ SealWritable \/ DetachWritableFails \/ SealWritableFails
         \/ RemoveOwnDevice \/ RemoveOwnDeviceFails
         \/ RemoveDockerDevice \/ RemoveDockerDeviceFails
         \/ RemoveParentDevice \/ RemoveParentDeviceFails
         \/ \E r \in Readers : MountsAttach(r) \/ MountsMount(r)
  <1>1. CASE PrepareStep
    BY <1>1 DEF PrepareStep, RenameDirectory, PrepareRemote, PrepareLayer,
                PrepareDockerLayer, PrepareRootfs, AttachDeviceFails, MarkDevice,
                MarkDeviceFails, MountDeviceFails, CommitPrepare
  <1>2. CASE CommitStep
    BY <1>2 DEF CommitStep, CommitMetadata, CommitCommit, CommitCommitFails
  <1>3. CASE RemoveStep
    BY <1>3 DEF RemoveStep, LockOwnId, LockParentId, RemoveMetadata,
                RemoveDirectories, CommitRemove, CommitRemoveFails
  <1>4. CASE \E r \in Readers : MountsStep(r)
    BY <1>4 DEF MountsStep, LockMounts, LockMountsParent, MountsOfDirectory,
                MountsAttachFails, MountsMark, MountsMarkFails,
                MountsMountFails
  <1>5. CASE \E q \in Requests : BeginPrepare(q)
    BY <1>5 DEF BeginPrepare
  <1>6. ASSUME NEW i, NEW n, BeginCommit(i, n) PROVE UNCHANGED kernel
    BY <1>6 DEF BeginCommit
  <1>7. CASE \E m \in Names : BeginCommit(m[1], m[2])
    BY <1>6, <1>7
  <1>8. CASE \E k \in Keys : BeginRemove(k) \/ ClientUnpack(k) \/ ClientMount(k)
                              \/ ClientUnmount(k)
    BY <1>8 DEF BeginRemove, ClientUnpack, ClientMount, ClientUnmount
  <1>9. CASE \E r \in Readers, k \in Keys : BeginMounts(r, k)
    BY <1>9 DEF BeginMounts
  <1>10. CASE ScanOrphans \/ Crash \/ \E i \in Ids : RemoveDoomed(i)
    BY <1>10 DEF ScanOrphans, Crash, RemoveDoomed
  <1>11. CASE UNCHANGED vars
    BY <1>11 DEF vars
  <1> QED
    BY <1>1, <1>2, <1>3, <1>4, <1>5, <1>8, <1>9, <1>10, <1>11, <1>6,
       <1>7 DEF Next, WriterStep

\* The steps that change the committed metadata.
LEMMA StoreActions ==
  ASSUME [Next]_vars
  PROVE  UNCHANGED store \/ CommitPrepare \/ CommitCommit \/ CommitRemove
  <1>1. CASE PrepareStep
    BY <1>1 DEF PrepareStep, RenameDirectory, PrepareRemote, PrepareLayer,
                PrepareDockerLayer, PrepareRootfs, AttachDevice, AttachDeviceFails,
                MarkDevice, MarkDeviceFails, MountDevice, MountDeviceFails,
                CommitPrepareFails, AbandonPrepare, Rollback
  <1>2. CASE CommitStep
    BY <1>2 DEF CommitStep, SealWritable, DetachWritableFails, SealWritableFails,
                CommitMetadata, CommitCommitFails, Rollback
  <1>3. CASE RemoveStep
    BY <1>3 DEF RemoveStep, RemoveOwnDevice, RemoveOwnDeviceFails, RemoveDockerDevice,
                RemoveDockerDeviceFails, LockOwnId, LockParentId, RemoveParentDevice,
                RemoveParentDeviceFails, RemoveMetadata, RemoveDirectories,
                CommitRemoveFails, Rollback
  <1>4. CASE \E r \in Readers : MountsStep(r)
    BY <1>4 DEF MountsStep, LockMounts, LockMountsParent, MountsOfDirectory,
                MountsAttach, MountsAttachFails, MountsMark, MountsMarkFails,
                MountsMount, MountsMountFails
  <1>5. CASE \E q \in Requests : BeginPrepare(q)
    BY <1>5 DEF BeginPrepare
  <1>6. ASSUME NEW i, NEW n, BeginCommit(i, n) PROVE UNCHANGED store
    BY <1>6 DEF BeginCommit
  <1>7. CASE \E m \in Names : BeginCommit(m[1], m[2])
    BY <1>6, <1>7
  <1>8. CASE \E k \in Keys : BeginRemove(k) \/ ClientUnpack(k) \/ ClientMount(k)
                              \/ ClientUnmount(k)
    BY <1>8 DEF BeginRemove, ClientUnpack, ClientMount, ClientUnmount
  <1>9. CASE \E r \in Readers, k \in Keys : BeginMounts(r, k)
    BY <1>9 DEF BeginMounts
  <1>10. CASE ScanOrphans \/ Crash \/ \E i \in Ids : RemoveDoomed(i)
    BY <1>10 DEF ScanOrphans, Crash, RemoveDoomed, Rollback
  <1>11. CASE UNCHANGED vars
    BY <1>11 DEF vars
  <1> QED
    BY <1>1, <1>2, <1>3, <1>4, <1>5, <1>8, <1>9, <1>10, <1>11, <1>6,
       <1>7 DEF Next, WriterStep


\* The steps that begin, go on with or end a call of the writer.
LEMMA WriterActions ==
  ASSUME [Next]_vars
  PROVE  \/ UNCHANGED writer
         \/ WriterStep
         \/ \E q \in Requests : BeginPrepare(q)
         \/ \E k \in Keys, n \in Keys : BeginCommit(k, n)
         \/ \E k \in Keys : BeginRemove(k)
         \/ Crash
  <1>1. CASE \E r \in Readers : MountsStep(r)
    BY <1>1 DEF MountsStep, LockMounts, LockMountsParent, MountsOfDirectory,
                MountsAttach, MountsAttachFails, MountsMark, MountsMarkFails,
                MountsMount, MountsMountFails
  <1>2. CASE \E m \in Names : BeginCommit(m[1], m[2])
    BY <1>2, NamesAssumption
  <1>3. CASE \E k \in Keys : ClientUnpack(k) \/ ClientMount(k) \/ ClientUnmount(k)
    BY <1>3 DEF ClientUnpack, ClientMount, ClientUnmount
  <1>4. CASE \E r \in Readers, k \in Keys : BeginMounts(r, k)
    BY <1>4 DEF BeginMounts
  <1>5. CASE ScanOrphans \/ \E i \in Ids : RemoveDoomed(i)
    BY <1>5 DEF ScanOrphans, RemoveDoomed
  <1>6. CASE UNCHANGED vars
    BY <1>6 DEF vars
  <1> QED
    BY <1>1, <1>2, <1>3, <1>4, <1>5, <1>6 DEF Next

\* The steps that change what the clients hold.
LEMMA ClientActions ==
  ASSUME [Next]_vars
  PROVE  \/ UNCHANGED client
         \/ CommitPrepare \/ CommitCommit \/ CommitRemove
         \/ \E k \in Keys, n \in Keys : BeginCommit(k, n)
         \/ \E k \in Keys : BeginRemove(k) \/ ClientMount(k) \/ ClientUnmount(k)
         \/ \E r \in Readers : MountsOfDirectory(r) \/ MountsAttach(r) \/ MountsMount(r)
  <1>1. CASE PrepareStep
    BY <1>1 DEF PrepareStep, RenameDirectory, PrepareRemote, PrepareLayer,
                PrepareDockerLayer, PrepareRootfs, AttachDevice, AttachDeviceFails,
                MarkDevice, MarkDeviceFails, MountDevice, MountDeviceFails,
                CommitPrepareFails
  <1>2. CASE CommitStep
    BY <1>2 DEF CommitStep, SealWritable, DetachWritableFails, SealWritableFails,
                CommitMetadata, CommitCommitFails
  <1>3. CASE RemoveStep
    BY <1>3 DEF RemoveStep, RemoveOwnDevice, RemoveOwnDeviceFails, RemoveDockerDevice,
                RemoveDockerDeviceFails, LockOwnId, LockParentId, RemoveParentDevice,
                RemoveParentDeviceFails, RemoveMetadata, RemoveDirectories,
                CommitRemoveFails
  <1>4. CASE \E r \in Readers : MountsStep(r)
    BY <1>4 DEF MountsStep, LockMounts, LockMountsParent, MountsAttachFails, MountsMark,
                MountsMarkFails, MountsMountFails
  <1>5. CASE \E q \in Requests : BeginPrepare(q)
    BY <1>5 DEF BeginPrepare
  <1>6. CASE \E m \in Names : BeginCommit(m[1], m[2])
    BY <1>6, NamesAssumption
  <1>7. CASE \E k \in Keys : ClientUnpack(k)
    BY <1>7 DEF ClientUnpack
  <1>8. CASE \E r \in Readers, k \in Keys : BeginMounts(r, k)
    BY <1>8 DEF BeginMounts
  <1>9. CASE ScanOrphans \/ Crash \/ \E i \in Ids : RemoveDoomed(i)
    BY <1>9 DEF ScanOrphans, Crash, RemoveDoomed
  <1>10. CASE UNCHANGED vars
    BY <1>10 DEF vars
  <1> QED
    BY <1>1, <1>2, <1>3, <1>4, <1>5, <1>6, <1>7, <1>8, <1>9, <1>10 DEF Next, WriterStep

\* The steps that change what Cleanup has listed.
LEMMA DoomedActions ==
  ASSUME [Next]_vars
  PROVE  UNCHANGED doomed \/ ScanOrphans \/ Crash \/ \E i \in Ids : RemoveDoomed(i)
  <1>1. CASE PrepareStep
    BY <1>1 DEF PrepareStep, RenameDirectory, PrepareRemote, PrepareLayer,
                PrepareDockerLayer, PrepareRootfs, AttachDevice, AttachDeviceFails,
                MarkDevice, MarkDeviceFails, MountDevice, MountDeviceFails,
                CommitPrepare, CommitPrepareFails
  <1>2. CASE CommitStep
    BY <1>2 DEF CommitStep, SealWritable, DetachWritableFails, SealWritableFails,
                CommitMetadata, CommitCommit, CommitCommitFails
  <1>3. CASE RemoveStep
    BY <1>3 DEF RemoveStep, RemoveOwnDevice, RemoveOwnDeviceFails, RemoveDockerDevice,
                RemoveDockerDeviceFails, LockOwnId, LockParentId, RemoveParentDevice,
                RemoveParentDeviceFails, RemoveMetadata, RemoveDirectories,
                CommitRemove, CommitRemoveFails
  <1>4. CASE \E r \in Readers : MountsStep(r)
    BY <1>4 DEF MountsStep, LockMounts, LockMountsParent, MountsOfDirectory,
                MountsAttach, MountsAttachFails, MountsMark, MountsMarkFails,
                MountsMount, MountsMountFails
  <1>5. CASE \E q \in Requests : BeginPrepare(q)
    BY <1>5 DEF BeginPrepare
  <1>6. ASSUME NEW k, NEW n, BeginCommit(k, n)
        PROVE  UNCHANGED doomed
    BY <1>6 DEF BeginCommit
  <1>7. CASE \E m \in Names : BeginCommit(m[1], m[2])
    BY <1>6, <1>7
  <1>8. CASE \E k \in Keys : BeginRemove(k) \/ ClientUnpack(k) \/ ClientMount(k)
                              \/ ClientUnmount(k)
    BY <1>8 DEF BeginRemove, ClientUnpack, ClientMount, ClientUnmount
  <1>9. CASE \E r \in Readers, k \in Keys : BeginMounts(r, k)
    BY <1>9 DEF BeginMounts
  <1>10. CASE UNCHANGED vars
    BY <1>10 DEF vars
  <1> QED
    BY <1>1, <1>2, <1>3, <1>4, <1>5, <1>7, <1>8, <1>9, <1>10 DEF Next, WriterStep

\* The steps of the calls of Mounts.
LEMMA ReaderActions ==
  ASSUME [Next]_vars
  PROVE  \/ UNCHANGED readers
         \/ \E r \in Readers : MountsStep(r)
         \/ \E r \in Readers, k \in Keys : BeginMounts(r, k)
         \/ Crash
  <1>1. CASE PrepareStep
    BY <1>1 DEF PrepareStep, RenameDirectory, PrepareRemote, PrepareLayer,
                PrepareDockerLayer, PrepareRootfs, AttachDevice, AttachDeviceFails,
                MarkDevice, MarkDeviceFails, MountDevice, MountDeviceFails,
                CommitPrepare, CommitPrepareFails
  <1>2. CASE CommitStep
    BY <1>2 DEF CommitStep, SealWritable, DetachWritableFails, SealWritableFails,
                CommitMetadata, CommitCommit, CommitCommitFails
  <1>3. CASE RemoveStep
    BY <1>3 DEF RemoveStep, RemoveOwnDevice, RemoveOwnDeviceFails, RemoveDockerDevice,
                RemoveDockerDeviceFails, LockOwnId, LockParentId, RemoveParentDevice,
                RemoveParentDeviceFails, RemoveMetadata, RemoveDirectories,
                CommitRemove, CommitRemoveFails
  <1>4. CASE \E q \in Requests : BeginPrepare(q)
    BY <1>4 DEF BeginPrepare
  <1>5. ASSUME NEW k, NEW n, BeginCommit(k, n)
        PROVE  UNCHANGED readers
    BY <1>5 DEF BeginCommit
  <1>6. CASE \E m \in Names : BeginCommit(m[1], m[2])
    BY <1>5, <1>6
  <1>7. CASE \E k \in Keys : BeginRemove(k) \/ ClientUnpack(k) \/ ClientMount(k)
                              \/ ClientUnmount(k)
    BY <1>7 DEF BeginRemove, ClientUnpack, ClientMount, ClientUnmount
  <1>8. CASE ScanOrphans \/ \E i \in Ids : RemoveDoomed(i)
    BY <1>8 DEF ScanOrphans, RemoveDoomed
  <1>9. CASE UNCHANGED vars
    BY <1>9 DEF vars
  <1> QED
    BY <1>1, <1>2, <1>3, <1>4, <1>6, <1>7, <1>8, <1>9 DEF Next, WriterStep

\* The steps that count a fault.
LEMMA FaultActions ==
  ASSUME [Next]_vars
  PROVE  UNCHANGED faults \/ \E f \in AllFaults : Fault(f)
  <1>1. CASE PrepareStep
    BY <1>1 DEF PrepareStep, RenameDirectory, PrepareRemote, PrepareLayer,
                PrepareDockerLayer, PrepareRootfs, AttachDevice, AttachDeviceFails,
                MarkDevice, MarkDeviceFails, MountDevice, MountDeviceFails,
                CommitPrepare, CommitPrepareFails, NoFault, AllFaults
  <1>2. CASE CommitStep
    BY <1>2 DEF CommitStep, SealWritable, DetachWritableFails, SealWritableFails,
                CommitMetadata, CommitCommit, CommitCommitFails, NoFault, AllFaults
  <1>3. CASE RemoveStep
    BY <1>3 DEF RemoveStep, RemoveOwnDevice, RemoveOwnDeviceFails, RemoveDockerDevice,
                RemoveDockerDeviceFails, LockOwnId, LockParentId, RemoveParentDevice,
                RemoveParentDeviceFails, RemoveMetadata, RemoveDirectories,
                CommitRemove, CommitRemoveFails, AllFaults
  <1>4. CASE \E r \in Readers : MountsStep(r)
    BY <1>4 DEF MountsStep, LockMounts, LockMountsParent, MountsOfDirectory,
                MountsAttach, MountsAttachFails, MountsMark, MountsMarkFails,
                MountsMount, MountsMountFails, NoFault, AllFaults
  <1>5. CASE \E q \in Requests : BeginPrepare(q)
    BY <1>5 DEF BeginPrepare
  <1>6. ASSUME NEW k, NEW n, BeginCommit(k, n)
        PROVE  UNCHANGED faults
    BY <1>6 DEF BeginCommit
  <1>7. CASE \E m \in Names : BeginCommit(m[1], m[2])
    BY <1>6, <1>7
  <1>8. CASE \E k \in Keys : BeginRemove(k) \/ ClientUnpack(k) \/ ClientMount(k)
                              \/ ClientUnmount(k)
    BY <1>8 DEF BeginRemove, ClientUnpack, ClientMount, ClientUnmount
  <1>9. CASE \E r \in Readers, k \in Keys : BeginMounts(r, k)
    BY <1>9 DEF BeginMounts
  <1>10. CASE ScanOrphans \/ Crash \/ \E i \in Ids : RemoveDoomed(i)
    BY <1>10 DEF ScanOrphans, Crash, RemoveDoomed, AllFaults
  <1>11. CASE UNCHANGED vars
    BY <1>11 DEF vars
  <1> QED
    BY <1>1, <1>2, <1>3, <1>4, <1>5, <1>7, <1>8, <1>9, <1>10, <1>11
       DEF Next, WriterStep

\* The steps that create or remove a temporary directory.
LEMMA TempActions ==
  ASSUME [Next]_vars
  PROVE  \/ UNCHANGED temp
         \/ \E q \in Requests : BeginPrepare(q)
         \/ RenameDirectory \/ RemoveDirectories \/ ScanOrphans
  <1>1. CASE PrepareStep
    BY <1>1 DEF PrepareStep, PrepareRemote, PrepareLayer, PrepareDockerLayer,
                PrepareRootfs, AttachDevice, AttachDeviceFails, MarkDevice,
                MarkDeviceFails, MountDevice, MountDeviceFails, CommitPrepare,
                CommitPrepareFails, AbandonPrepare, disk
  <1>2. CASE CommitStep
    BY <1>2 DEF CommitStep, SealWritable, DetachWritableFails, SealWritableFails,
                CommitMetadata, CommitCommit, CommitCommitFails, disk
  <1>3. CASE RemoveStep
    BY <1>3 DEF RemoveStep, RemoveOwnDevice, RemoveOwnDeviceFails, RemoveDockerDevice,
                RemoveDockerDeviceFails, LockOwnId, LockParentId, RemoveParentDevice,
                RemoveParentDeviceFails, RemoveMetadata, CommitRemove,
                CommitRemoveFails, disk
  <1>4. CASE \E r \in Readers : MountsStep(r)
    BY <1>4 DEF MountsStep, LockMounts, LockMountsParent, MountsOfDirectory,
                MountsAttach, MountsAttachFails, MountsMark, MountsMarkFails,
                MountsMount, MountsMountFails, disk
  <1>5. ASSUME NEW k, NEW n, BeginCommit(k, n)
        PROVE  UNCHANGED temp
    BY <1>5 DEF BeginCommit, disk
  <1>6. CASE \E m \in Names : BeginCommit(m[1], m[2])
    BY <1>5, <1>6
  <1>7. CASE \E k \in Keys : BeginRemove(k) \/ ClientUnpack(k) \/ ClientMount(k)
                              \/ ClientUnmount(k)
    BY <1>7 DEF BeginRemove, ClientUnpack, ClientMount, ClientUnmount, disk
  <1>8. CASE \E r \in Readers, k \in Keys : BeginMounts(r, k)
    BY <1>8 DEF BeginMounts, disk
  <1>9. CASE Crash \/ \E i \in Ids : RemoveDoomed(i)
    BY <1>9 DEF Crash, RemoveDoomed, disk
  <1>10. CASE UNCHANGED vars
    BY <1>10 DEF vars, disk
  <1> QED
    BY <1>1, <1>2, <1>3, <1>4, <1>6, <1>7, <1>8, <1>9, <1>10 DEF Next, WriterStep

-----------------------------------------------------------------------------
(* Types.                                                                  *)

\* The parent of a call of Mounts that needs its device.
LEMMA ReaderParent ==
  ASSUME IInv, NEW r \in Readers,
         rpc[r] \in {"mark", "mount"} \/ (rpc[r] # "idle" /\ NeedsParent(r))
  PROVE  /\ ParentId(rsnaps[r], rkey[r]) \in Ids
         /\ rsnaps[r][rkey[r]].parent # None /\ rkey[r] \in Keys
  <1>1. ReaderOK(r)
    BY DEF IInv, MetaInv, ReaderInv
  <1>2. /\ rkey[r] \in Live(rsnaps[r]) /\ WellFormed(rsnaps[r], seq)
        /\ rsnaps[r][rkey[r]].parent # None
    BY <1>1 DEF ReaderOK, NeedsParent, ParentIsBlock
  <1> QED
    BY <1>2, ParentTyped DEF Live

\* The id that a call works on.
LEMMA CallId ==
  ASSUME IInv, pc # "idle"
  PROVE  /\ call.id \in Ids /\ call.key \in Keys
         /\ pc \in Sealing \cup Removing \cup
                 {"rename", "spec", "attach", "mark", "mount"} =>
                call.key \in Live(wsnaps)
         /\ pc \in {"attach", "mark", "mount"} => call.dev \in Ids
  <1>1. pc \in Preparing \cup Sealing \cup {"publish"} \cup Removing \cup Leaving
    BY DEF IInv, TypeOK, Steps, Preparing, Sealing, Removing, Leaving
  <1>2. CASE pc \in Preparing
    <2>1. AddedInv /\ AddedKind /\ call \in Call
      BY <1>2 DEF IInv, MetaInv, WriterInv, TypeOK
    <2>2. Made \in Keys /\ wsnaps[Made] \in Snapshot
      BY <2>1 DEF AddedInv, IInv, TypeOK, Made
    <2>3. pc \in {"attach", "mark", "mount"} => call.dev \in Ids
      BY <2>1 DEF AddedKind, Call
    <2>4. pc # "commit" => call.key \in Live(wsnaps)
      BY <2>1 DEF AddedInv, AddedKind, Live
    <2> QED
      BY <1>2, <2>1, <2>2, <2>3, <2>4
         DEF AddedInv, Snapshot, Preparing, Sealing, Removing
  <1>3. CASE pc \notin Preparing
    <2>1. call.key \in Live(snaps) /\ call.id = snaps[call.key].id
          /\ (pc \in Sealing \cup Removing => wsnaps = snaps)
      BY <1>1, <1>3 DEF IInv, MetaInv, WriterInv
    <2>2. snaps[call.key] \in Snapshot /\ call.key \in Keys
      BY <2>1 DEF IInv, TypeOK, Live
    <2> QED
      BY <1>1, <1>3, <2>1, <2>2 DEF Snapshot, Preparing
  <1> QED
    BY <1>2, <1>3

\* Configs and directories.
LEMMA ConfTyped ==
  ASSUME TypeOK
  PROVE  /\ \A i \in Ids : Conf(i) \in Seq(Ids) \cup {None}
         /\ \A i \in Ids : Removed(i) \in Directory \cup {None}
         /\ NewDir \in Directory
  <1>1. \A i \in Ids : Conf(i) \in Seq(Ids) \cup {None}
    BY NoneAssumption DEF TypeOK, Conf, Directory
  <1>2. NewDir \in Directory /\ [NewDir EXCEPT !.whole = FALSE] \in Directory
    BY DEF NewDir, Directory
  <1> QED
    BY <1>1, <1>2 DEF Removed

\* The config with which a config begins.
LEMMA BaseTyped ==
  ASSUME TypeOK, NEW s, NEW q, WellFormed(s, q), NEW k \in Live(s)
  PROVE  BaseConf(s, k) \in Seq(Ids) \cup {None}
  <1>1. CASE s[k].parent = None
    BY <1>1 DEF BaseConf
  <1>2. CASE s[k].parent # None
    BY <1>2, ConfTyped, ParentTyped DEF BaseConf
  <1> QED
    BY <1>1, <1>2

\* One directory changes.
LEMMA OneDir ==
  ASSUME TypeOK, NEW i, NEW d \in Directory \cup {None}, dir' = [dir EXCEPT ![i] = d]
  PROVE  dir' \in [Ids -> Directory \cup {None}]
  BY DEF TypeOK

\* A field of one directory changes.
LEMMA OneField ==
  ASSUME TypeOK, NEW i \in Ids, dir[i] # None,
         \/ dir' = [dir EXCEPT ![i].mark = TRUE]
         \/ \E c \in Seq(Ids) : dir' = [dir EXCEPT ![i].conf = c]
         \/ \E x \in {"blob", "sealed"} : dir' = [dir EXCEPT ![i].data = x]
  PROVE  dir' \in [Ids -> Directory \cup {None}]
  <1>1. dir[i] \in Directory
    BY DEF TypeOK
  <1>2. CASE dir' = [dir EXCEPT ![i].mark = TRUE]
    <2>1. [dir[i] EXCEPT !.mark = TRUE] \in Directory
      BY <1>1 DEF Directory
    <2> QED
      BY <1>2, <2>1, OneDir
  <1>3. ASSUME NEW c \in Seq(Ids), dir' = [dir EXCEPT ![i].conf = c]
        PROVE  dir' \in [Ids -> Directory \cup {None}]
    <2>1. [dir[i] EXCEPT !.conf = c] \in Directory
      BY <1>1 DEF Directory
    <2> QED
      BY <1>3, <2>1, OneDir
  <1>4. ASSUME NEW x \in {"blob", "sealed"}, dir' = [dir EXCEPT ![i].data = x]
        PROVE  dir' \in [Ids -> Directory \cup {None}]
    <2>1. [dir[i] EXCEPT !.data = x] \in Directory
      BY <1>1 DEF Directory
    <2> QED
      BY <1>4, <2>1, OneDir
  <1> QED
    BY <1>2, <1>3, <1>4

\* Directories stay directories.
LEMMA DirType ==
  ASSUME IInv, [Next]_vars
  PROVE  dir' \in [Ids -> Directory \cup {None}]
  <1>1. /\ dir \in [Ids -> Directory \cup {None}] /\ TypeOK
        /\ WellFormed(snaps, seq) /\ WellFormed(wsnaps, wseq)
    BY DEF IInv, MetaInv, TypeOK
  <1>2. ASSUME pc # "idle", AbandonPrepare
        PROVE  dir' \in [Ids -> Directory \cup {None}]
    <2>1. call.id \in Ids /\ dir' = [dir EXCEPT ![call.id] = Removed(call.id)]
      BY <1>2, CallId DEF AbandonPrepare
    <2> QED
      BY <1>1, <2>1, OneDir, ConfTyped
  <1>3. CASE UNCHANGED dir
    BY <1>1, <1>3
  <1>4. CASE AttachDeviceFails \/ MarkDeviceFails \/ MountDeviceFails
    BY <1>2, <1>4 DEF AttachDeviceFails, MarkDeviceFails, MountDeviceFails
  <1>5. CASE RenameDirectory
    <2>1. call.id \in Ids
      BY <1>5, CallId DEF RenameDirectory
    <2>2. \/ dir' = [dir EXCEPT ![call.id] = NewDir]
          \/ dir' = [dir EXCEPT ![call.id] = Removed(call.id)]
          \/ dir' = [dir EXCEPT ![call.id] = dir[call.id]]
      BY <1>5 DEF RenameDirectory
    <2>3. {NewDir, Removed(call.id), dir[call.id]} \subseteq Directory \cup {None}
      BY <1>1, <2>1, ConfTyped
    <2> QED
      BY <1>1, <2>2, <2>3, OneDir
  <1>6. CASE PrepareRemote \/ CommitMetadata
    <2>1. call.id \in Ids /\ call.key \in Live(wsnaps) /\ pc # "idle"
      BY <1>6, CallId DEF PrepareRemote, CommitMetadata, Sealing
    <2>2. \/ dir' = dir
          \/ AbandonPrepare
          \/ /\ Whole(call.id) /\ BaseConf(wsnaps, call.key) # None
             /\ dir' = [dir EXCEPT ![call.id].conf =
                          Append(BaseConf(wsnaps, call.key), call.id)]
      BY <1>6 DEF PrepareRemote, CommitMetadata, Stacked
    <2>3. CASE /\ Whole(call.id) /\ BaseConf(wsnaps, call.key) # None
               /\ dir' = [dir EXCEPT ![call.id].conf =
                            Append(BaseConf(wsnaps, call.key), call.id)]
      <3>1. BaseConf(wsnaps, call.key) \in Seq(Ids)
        BY <1>1, <2>1, <2>3, BaseTyped
      <3>2. Append(BaseConf(wsnaps, call.key), call.id) \in Seq(Ids)
        BY <2>1, <3>1
      <3>3. dir[call.id] # None
        BY <2>3 DEF Whole
      <3> QED
        BY <1>1, <2>1, <2>3, <3>2, <3>3, OneField
    <2> QED
      BY <1>2, <1>3, <2>1, <2>2, <2>3
  <1>7. CASE PrepareRootfs
    <2>1. call.id \in Ids /\ call.key \in Live(wsnaps) /\ pc # "idle"
      BY <1>7, CallId DEF PrepareRootfs
    <2> DEFINE d == [NewDir EXCEPT !.conf = BaseConf(wsnaps, call.key),
                                   !.data = "writable", !.whole = Whole(call.id)]
    <2>2. dir' = dir \/ AbandonPrepare \/ dir' = [dir EXCEPT ![call.id] = d]
      BY <1>7 DEF PrepareRootfs, disk
    <2>3. d \in Directory
      <3>1. BaseConf(wsnaps, call.key) \in Seq(Ids) \cup {None}
        BY <1>1, <2>1, BaseTyped
      <3> QED
        BY <3>1 DEF NewDir, Directory, Whole
    <2> HIDE DEF d
    <2> QED
      BY <1>1, <1>2, <1>3, <2>1, <2>2, <2>3, OneDir
  <1>8. CASE MarkDevice
    <2>1. call.dev \in Ids
      BY <1>8, CallId DEF MarkDevice
    <2>2. dir[call.dev] # None /\ dir' = [dir EXCEPT ![call.dev].mark = TRUE]
      BY <1>8 DEF MarkDevice, Marking
    <2> QED
      BY <1>1, <2>1, <2>2, OneField
  <1>9. ASSUME NEW r \in Readers, MountsMark(r)
        PROVE  dir' \in [Ids -> Directory \cup {None}]
    <2> DEFINE i == ParentId(rsnaps[r], rkey[r])
    <2>1. i \in Ids
      BY <1>9, ReaderParent DEF MountsMark
    <2>2. dir[i] # None /\ dir' = [dir EXCEPT ![i].mark = TRUE]
      BY <1>9 DEF MountsMark, Marking
    <2> HIDE DEF i
    <2> QED
      BY <1>1, <2>1, <2>2, OneField
  <1>10. CASE SealWritable
    <2>1. call.id \in Ids
      BY <1>10, CallId DEF SealWritable
    <2>2. dir' = dir \/ (dir[call.id] # None /\ dir' = [dir EXCEPT ![call.id].data = "sealed"])
      BY <1>10 DEF SealWritable, Data
    <2> QED
      BY <1>1, <1>3, <2>1, <2>2, OneField
  <1>11. ASSUME NEW k \in Keys, ClientUnpack(k)
         PROVE  dir' \in [Ids -> Directory \cup {None}]
    <2>1. snaps[k].id \in Ids
      BY <1>1, <1>11 DEF ClientUnpack, TypeOK, Snapshot
    <2>2. dir[snaps[k].id] # None /\ dir' = [dir EXCEPT ![snaps[k].id].data = "blob"]
      BY <1>11 DEF ClientUnpack
    <2> QED
      BY <1>1, <2>1, <2>2, OneField
  <1>12. CASE RemoveDirectories
    BY <1>1, <1>12, ConfTyped DEF RemoveDirectories
  <1>13. ASSUME NEW i \in Ids, RemoveDoomed(i)
         PROVE  dir' \in [Ids -> Directory \cup {None}]
    BY <1>1, <1>13, OneDir, ConfTyped DEF RemoveDoomed
  <1> QED
    BY <1>3, <1>4, <1>5, <1>6, <1>7, <1>8, <1>9, <1>10, <1>11, <1>12, <1>13, DirActions


\* Devices and mountpoints stay so.
LEMMA KernelType ==
  ASSUME IInv, [Next]_vars
  PROVE  dev' \in [Ids -> Seq(Ids) \cup {None}] /\ mnt' \subseteq Ids
  <1>1. dev \in [Ids -> Seq(Ids) \cup {None}] /\ mnt \subseteq Ids /\ TypeOK
    BY DEF IInv, TypeOK
  <1>2. CASE AttachDevice \/ MountDevice
    <2>1. call.dev \in Ids
      BY <1>2, CallId DEF AttachDevice, MountDevice
    <2> QED
      BY <1>1, <1>2, <2>1, ConfTyped DEF AttachDevice, MountDevice, Attached
  <1>3. ASSUME NEW r \in Readers, MountsAttach(r) \/ MountsMount(r)
        PROVE  dev' \in [Ids -> Seq(Ids) \cup {None}] /\ mnt' \subseteq Ids
    <2>1. ParentId(rsnaps[r], rkey[r]) \in Ids
      BY <1>3, ReaderParent DEF MountsAttach, MountsMount
    <2> QED
      BY <1>1, <1>3, <2>1, ConfTyped DEF MountsAttach, MountsMount, Attached
  <1>4. CASE CommitPrepareFails \/ SealWritable \/ DetachWritableFails
             \/ SealWritableFails
    BY <1>1, <1>4 DEF CommitPrepareFails, SealWritable, DetachWritableFails,
                      SealWritableFails, Detached, kernel
  <1>5. CASE RemoveOwnDevice \/ RemoveOwnDeviceFails \/ RemoveDockerDevice
             \/ RemoveDockerDeviceFails \/ RemoveParentDevice \/ RemoveParentDeviceFails
    BY <1>1, <1>5 DEF RemoveOwnDevice, RemoveOwnDeviceFails, RemoveDockerDevice,
       RemoveDockerDeviceFails, LockOwnId, LockParentId, RemoveParentDevice,
       RemoveParentDeviceFails, Detached, kernel
  <1> QED
    BY <1>1, <1>2, <1>3, <1>4, <1>5, KernelActions DEF kernel

\* What a call works on stays so.
LEMMA CallType ==
  ASSUME IInv, [Next]_vars
  PROVE  call' \in Call /\ pc' \in Steps
  <1>1. /\ call \in Call /\ pc \in Steps /\ NoCall \in Call
        /\ WellFormed(wsnaps, wseq) /\ seq \in 0 .. MaxId
    BY DEF IInv, MetaInv, TypeOK, NoCall, Call
  <1>2. ASSUME NEW d \in Ids PROVE [call EXCEPT !.dev = d] \in Call
    BY <1>1 DEF Call
  <1>3. ASSUME NEW l \in SUBSET Ids
        PROVE  [call EXCEPT !.locks = l] \in Call /\ [call EXCEPT !.removals = l] \in Call
    BY <1>1 DEF Call
  <1>4. ASSUME Finish PROVE call' \in Call /\ pc' \in Steps
    BY <1>1, <1>4 DEF Finish, Steps
  <1>5. CASE UNCHANGED writer
    BY <1>1, <1>5 DEF writer
  <1>6. CASE PrepareStep
    <2>1. Finish \/ (pc' \in Steps /\ (call' = call \/ \E d \in Ids : call' = [call EXCEPT !.dev = d]))
      <3>1. CASE PrepareDockerLayer \/ PrepareRootfs
        <4>1. call.id \in Ids /\ call.key \in Live(wsnaps)
          BY <3>1, CallId DEF PrepareDockerLayer, PrepareRootfs
        <4>2. ParentIsBlock(wsnaps, call.key) => ParentId(wsnaps, call.key) \in Ids
          BY <1>1, <4>1, ParentTyped DEF ParentIsBlock
        <4>3. CASE PrepareDockerLayer
          BY <4>2, <4>3 DEF PrepareDockerLayer, Steps
        <4>4. CASE PrepareRootfs
          BY <4>1, <4>2, <4>4 DEF PrepareRootfs, AbandonPrepare, Rollback, Steps
        <4> QED
          BY <3>1, <4>3, <4>4
      <3> QED
        BY <1>6, <3>1 DEF PrepareStep, RenameDirectory, PrepareRemote, PrepareLayer,
                          AttachDevice, AttachDeviceFails, MarkDevice,
                          MarkDeviceFails, MountDevice, MountDeviceFails,
                          CommitPrepare, CommitPrepareFails, AbandonPrepare, Rollback,
                          CommitTransaction, Steps
    <2> QED
      BY <1>1, <1>2, <1>4, <2>1
  <1>7. CASE CommitStep
    <2>1. Finish \/ (pc' \in Steps /\ call' = call)
      BY <1>7 DEF CommitStep, SealWritable, DetachWritableFails, SealWritableFails,
                  CommitMetadata, CommitCommit, CommitCommitFails, Rollback,
                  CommitTransaction, Steps
    <2> QED
      BY <1>1, <1>4, <2>1
  <1>8. CASE RemoveStep
    <2>1. \/ Finish
          \/ /\ pc' \in Steps
             /\ \/ call' = call
                \/ \E l \in SUBSET Ids : \/ call' = [call EXCEPT !.locks = l]
                                         \/ call' = [call EXCEPT !.removals = l]
      <3>1. CASE LockOwnId \/ LockParentId
        <4>1. call.id \in Ids /\ call.key \in Live(wsnaps)
          BY <3>1, CallId DEF LockOwnId, LockParentId, Removing
        <4>2. CASE LockOwnId
          <5>1. {call.id} \in SUBSET Ids
            BY <4>1
          <5> QED
            BY <4>2, <5>1 DEF LockOwnId, Steps
        <4>3. CASE LockParentId
          <5>1. wsnaps = snaps /\ snaps[call.key].parent # None
            BY <4>3 DEF LockParentId, IInv, MetaInv, WriterInv, Removing
          <5>2. ParentId(wsnaps, call.key) \in Ids
            BY <1>1, <4>1, <5>1, ParentTyped
          <5>3. call.locks \cup {ParentId(wsnaps, call.key)} \in SUBSET Ids
            BY <1>1, <5>2 DEF Call
          <5> QED
            BY <4>3, <5>3 DEF LockParentId, Steps
        <4> QED
          BY <3>1, <4>2, <4>3
      <3>2. CASE RemoveMetadata
        <4>1. (IF AsyncRemove THEN {} ELSE Orphans(wsnaps')) \in SUBSET Ids
          BY DEF Orphans
        <4> QED
          BY <3>2, <4>1 DEF RemoveMetadata, Rollback, Steps
      <3>3. CASE RemoveDirectories
        BY <3>3 DEF RemoveDirectories, Steps
      <3> QED
        BY <1>8, <3>1, <3>2, <3>3 DEF RemoveStep, RemoveOwnDevice,
                                      RemoveOwnDeviceFails, RemoveDockerDevice,
                                      RemoveDockerDeviceFails, RemoveParentDevice,
                                      RemoveParentDeviceFails, CommitRemove,
                                      CommitRemoveFails, Rollback, CommitTransaction,
                                      Steps
    <2> QED
      BY <1>1, <1>3, <1>4, <2>1
  <1>9. ASSUME NEW q \in Requests, BeginPrepare(q)
         PROVE  call' \in Call /\ pc' \in Steps
    <2>1. seq + 1 \in Ids /\ q.key \in Keys /\ q.name \in Keys
      BY <1>1, <1>9, BoundsAssumption, RequestsAssumption DEF BeginPrepare, Ids
    <2>2. [NoCall EXCEPT !.key = q.key, !.name = q.name, !.id = seq + 1] \in Call
      BY <2>1, NoneAssumption DEF NoCall, Call
    <2>3. /\ call' = [NoCall EXCEPT !.key = q.key, !.name = q.name, !.id = seq + 1]
          /\ pc' = "rename"
      BY <1>9 DEF BeginPrepare
    <2> QED
      BY <2>2, <2>3 DEF Steps
  <1>10. ASSUME NEW k \in Keys, NEW n \in Keys, BeginCommit(k, n) \/ BeginRemove(k)
         PROVE  call' \in Call /\ pc' \in Steps
    <2>1. snaps[k].id \in Ids
      BY <1>10 DEF BeginCommit, BeginRemove, IInv, TypeOK, Snapshot
    <2>2. /\ [NoCall EXCEPT !.key = k, !.name = n, !.id = snaps[k].id] \in Call
          /\ [NoCall EXCEPT !.key = k, !.id = snaps[k].id] \in Call
      BY <2>1, NoneAssumption DEF NoCall, Call
    <2>3. \/ /\ call' = [NoCall EXCEPT !.key = k, !.name = n, !.id = snaps[k].id]
             /\ pc' = "seal"
          \/ /\ call' = [NoCall EXCEPT !.key = k, !.id = snaps[k].id]
             /\ pc' = "ownDevice"
      BY <1>10 DEF BeginCommit, BeginRemove
    <2> QED
      BY <2>2, <2>3 DEF Steps
  <1>11. CASE Crash
    BY <1>4, <1>11 DEF Crash, Rollback
  <1> QED
    BY <1>5, <1>6, <1>7, <1>8, <1>9, <1>10, <1>11, WriterActions DEF WriterStep

\* The sequences stay in bounds.
LEMMA SeqType ==
  ASSUME IInv, [Next]_vars
  PROVE  seq' \in 0 .. MaxId /\ wseq' \in 0 .. MaxId
  <1>1. seq \in 0 .. MaxId /\ wseq \in 0 .. MaxId
    BY DEF IInv, TypeOK
  <1>2. seq' \in {seq, wseq}
    BY StoreActions DEF store, CommitPrepare, CommitCommit, CommitRemove,
                        CommitTransaction
  <1>3. wseq' \in {seq, wseq} \/ (wseq' = seq + 1 /\ seq < MaxId)
    <2>1. CASE PrepareStep
      BY <2>1 DEF PrepareStep, RenameDirectory, PrepareRemote, PrepareLayer,
                  PrepareDockerLayer, PrepareRootfs, AttachDevice, AttachDeviceFails,
                  MarkDevice, MarkDeviceFails, MountDevice, MountDeviceFails,
                  CommitPrepare, CommitPrepareFails, AbandonPrepare, Rollback,
                  CommitTransaction
    <2>2. CASE CommitStep
      BY <2>2 DEF CommitStep, SealWritable, DetachWritableFails, SealWritableFails,
                  CommitMetadata, CommitCommit, CommitCommitFails, Rollback,
                  CommitTransaction
    <2>3. CASE RemoveStep
      BY <2>3 DEF RemoveStep, RemoveOwnDevice, RemoveOwnDeviceFails,
                  RemoveDockerDevice, RemoveDockerDeviceFails, LockOwnId,
                  LockParentId, RemoveParentDevice, RemoveParentDeviceFails,
                  RemoveMetadata, RemoveDirectories, CommitRemove, CommitRemoveFails,
                  Rollback, CommitTransaction
    <2>4. CASE \E q \in Requests : BeginPrepare(q)
      BY <2>4 DEF BeginPrepare
    <2>5. ASSUME NEW k \in Keys, NEW n \in Keys, BeginCommit(k, n) \/ BeginRemove(k)
          PROVE  wseq' = wseq
      BY <2>5 DEF BeginCommit, BeginRemove
    <2>6. CASE UNCHANGED writer
      BY <2>6 DEF writer
    <2>7. CASE Crash
      BY <2>7 DEF Crash, Rollback
    <2> QED
      BY <2>1, <2>2, <2>3, <2>4, <2>5, <2>6, <2>7, WriterActions DEF WriterStep
  <1> QED
    BY <1>1, <1>2, <1>3, BoundsAssumption


\* The calls of Mounts stay so.
LEMMA ReadersType ==
  ASSUME IInv, [Next]_vars
  PROVE  /\ rpc' \in [Readers -> {"idle", "lock", "lockParent", "serve", "mark", "mount"}]
         /\ rkey' \in [Readers -> Keys \cup {None}]
         /\ rsnaps' \in [Readers -> [Keys -> Snapshot \cup {None}]]
  <1>1. /\ rpc \in [Readers -> {"idle", "lock", "lockParent", "serve", "mark", "mount"}]
        /\ rkey \in [Readers -> Keys \cup {None}]
        /\ rsnaps \in [Readers -> [Keys -> Snapshot \cup {None}]]
        /\ snaps \in [Keys -> Snapshot \cup {None}]
        /\ NoSnaps \in [Keys -> Snapshot \cup {None}]
    BY DEF IInv, TypeOK, NoSnaps
  <1>2. CASE UNCHANGED readers
    BY <1>1, <1>2 DEF readers
  <1>3. ASSUME NEW r \in Readers, EndMounts(r)
        PROVE  /\ rpc' \in [Readers -> {"idle", "lock", "lockParent", "serve", "mark", "mount"}]
               /\ rkey' \in [Readers -> Keys \cup {None}]
               /\ rsnaps' \in [Readers -> [Keys -> Snapshot \cup {None}]]
    BY <1>1, <1>3 DEF EndMounts
  <1>4. ASSUME NEW r \in Readers, MountsStep(r)
        PROVE  \/ EndMounts(r)
               \/ /\ \E x \in {"lockParent", "serve", "mark", "mount"} :
                           rpc' = [rpc EXCEPT ![r] = x]
                  /\ UNCHANGED <<rkey, rsnaps>>
    BY <1>4 DEF MountsStep, LockMounts, LockMountsParent, MountsOfDirectory,
                MountsAttach, MountsAttachFails, MountsMark, MountsMarkFails,
                MountsMount, MountsMountFails, Return
  <1>5. ASSUME NEW r \in Readers, NEW k \in Keys, BeginMounts(r, k)
        PROVE  /\ rpc' \in [Readers -> {"idle", "lock", "lockParent", "serve", "mark", "mount"}]
               /\ rkey' \in [Readers -> Keys \cup {None}]
               /\ rsnaps' \in [Readers -> [Keys -> Snapshot \cup {None}]]
    BY <1>1, <1>5 DEF BeginMounts
  <1>6. CASE Crash
    BY <1>1, <1>6 DEF Crash
  <1>7. ASSUME NEW r \in Readers, MountsStep(r)
        PROVE  /\ rpc' \in [Readers -> {"idle", "lock", "lockParent", "serve", "mark", "mount"}]
               /\ rkey' \in [Readers -> Keys \cup {None}]
               /\ rsnaps' \in [Readers -> [Keys -> Snapshot \cup {None}]]
    BY <1>1, <1>3, <1>4, <1>7
  <1> QED
    BY <1>2, <1>5, <1>6, <1>7, ReaderActions

\* What the clients hold stays so.
LEMMA ClientType ==
  ASSUME IInv, [Next]_vars
  PROVE  /\ given' \in [Keys -> SUBSET Ids] /\ handed' \in [Keys -> SUBSET Ids]
         /\ use' \in [Keys -> {"none", "handed", "mounted"}]
  <1>1. /\ given \in [Keys -> SUBSET Ids] /\ handed \in [Keys -> SUBSET Ids]
        /\ use \in [Keys -> {"none", "handed", "mounted"}]
    BY DEF IInv, TypeOK
  <1>2. ASSUME NEW s, NEW q, WellFormed(s, q), NEW k \in Live(s), IsContainerLayer(s, k)
        PROVE  ImageDevice(s, k) \subseteq Ids
    <2>1. s[k].parent # None
      BY <1>2, NoneAssumption DEF IsContainerLayer
    <2>2. s[k].parent \in Live(s)
      BY <1>2, <2>1, ParentTyped
    <2>3. CASE ParentIsBlock(s, s[k].parent)
      BY <1>2, <2>2, <2>3, ParentTyped DEF ParentIsBlock, ImageDevice
    <2> QED
      BY <2>3 DEF ImageDevice
  <1>3. CASE CommitPrepare
    <2>1. CASE wsnaps[call.key] = None
      BY <1>1, <1>3, <2>1 DEF CommitPrepare, client
    <2>2. CASE wsnaps[call.key] # None
      <3>1. /\ call.key \in Live(wsnaps) /\ WellFormed(wsnaps, wseq)
            /\ call.dev \in Ids \cup {None}
        BY <1>3, <2>2, CallId DEF CommitPrepare, Live, IInv, MetaInv, TypeOK, Call
      <3>2. PreparedDevices \subseteq Ids
        BY <1>2, <3>1 DEF PreparedDevices
      <3> QED
        BY <1>1, <1>3, <2>2, <3>2 DEF CommitPrepare
    <2> QED
      BY <2>1, <2>2
  <1>4. ASSUME NEW r \in Readers, rpc[r] # "idle", NEW D \in SUBSET Ids, Return(r, D)
        PROVE  /\ given' \in [Keys -> SUBSET Ids] /\ handed' \in [Keys -> SUBSET Ids]
               /\ use' \in [Keys -> {"none", "handed", "mounted"}]
    BY <1>1, <1>4 DEF Return, client
  <1>5. ASSUME NEW r \in Readers, MountsAttach(r) \/ MountsMount(r)
        PROVE  \/ UNCHANGED client
               \/ rpc[r] # "idle" /\ \E D \in SUBSET Ids : Return(r, D)
    <2>1. ParentId(rsnaps[r], rkey[r]) \in Ids
      BY <1>5, ReaderParent DEF MountsAttach, MountsMount
    <2>2. {ParentId(rsnaps[r], rkey[r])} \in SUBSET Ids
      BY <2>1
    <2> QED
      BY <1>5, <2>2 DEF MountsAttach, MountsMount, client
  <1>6. ASSUME NEW r \in Readers, MountsOfDirectory(r)
        PROVE  \E D \in SUBSET Ids : Return(r, D)
    <2> DEFINE s == rsnaps[r] k == rkey[r]
    <2>1. ReaderOK(r)
      BY <1>6 DEF IInv, MetaInv, ReaderInv, MountsOfDirectory
    <2>2. k \in Live(s) /\ WellFormed(s, seq)
      BY <2>1 DEF ReaderOK
    <2>3. s[k].id \in Ids
      BY <2>2 DEF WellFormed, Live, Snapshot
    <2>4. IsContainerLayer(s, k) => ImageDevice(s, k) \subseteq Ids
      BY <1>2, <2>2
    <2> HIDE DEF s, k
    <2>5. PICK D \in {{}, {s[k].id}, ImageDevice(s, k)} :
             Return(r, D) /\ (D = ImageDevice(s,
             k) => D = {} \/ D = {s[k].id} \/ IsContainerLayer(s, k))
      BY <1>6 DEF MountsOfDirectory, s, k
    <2>6. D \in SUBSET Ids
      BY <2>3, <2>4, <2>5
    <2> QED
      BY <2>5, <2>6
  <1>7. CASE CommitCommit \/ CommitRemove
    BY <1>1, <1>7 DEF CommitCommit, CommitRemove
  <1>8. ASSUME NEW k \in Keys, NEW n \in Keys,
               BeginCommit(k, n) \/ BeginRemove(k) \/ ClientMount(k) \/ ClientUnmount(k)
        PROVE  /\ given' \in [Keys -> SUBSET Ids] /\ handed' \in [Keys -> SUBSET Ids]
               /\ use' \in [Keys -> {"none", "handed", "mounted"}]
    BY <1>1, <1>8 DEF BeginCommit, BeginRemove, GiveUp, ClientMount, ClientUnmount
  <1>9. CASE UNCHANGED client
    BY <1>1, <1>9 DEF client
  <1>10. ASSUME NEW r \in Readers,
  MountsOfDirectory(r) \/ MountsAttach(r) \/ MountsMount(r)
         PROVE  /\ given' \in [Keys -> SUBSET Ids] /\ handed' \in [Keys -> SUBSET Ids]
                /\ use' \in [Keys -> {"none", "handed", "mounted"}]
    <2>1. MountsOfDirectory(r) => rpc[r] # "idle"
      BY DEF MountsOfDirectory
    <2> QED
      BY <1>4, <1>5, <1>6, <1>9, <1>10, <2>1
  <1> QED
    BY <1>3, <1>7, <1>8, <1>9, <1>10, ClientActions

\* What Cleanup has listed stays so, and so do the faults and the temporary
\* directory.
LEMMA RestType ==
  ASSUME IInv, [Next]_vars
  PROVE  doomed' \subseteq Ids /\ faults' \in 0 .. MaxFaults /\ temp' \in BOOLEAN
  <1>1. doomed \subseteq Ids /\ faults \in 0 .. MaxFaults /\ temp \in BOOLEAN
    BY DEF IInv, TypeOK
  <1>2. doomed' \subseteq Ids
    BY <1>1, DoomedActions DEF ScanOrphans, Orphans, RemoveDoomed, Crash
  <1>3. \/ UNCHANGED faults
        \/ faults < MaxFaults /\ faults' = faults + 1
    BY FaultActions DEF Fault
  <1>4. temp' \in BOOLEAN
    <2>1. CASE RemoveDirectories
      <3>1. temp' = (temp /\ AsyncRemove)
        BY <2>1 DEF RemoveDirectories
      <3> QED
        BY <3>1
    <2>2. ASSUME NEW q \in Requests, BeginPrepare(q)
          PROVE  temp' \in BOOLEAN
      BY <2>2 DEF BeginPrepare
    <2>3. CASE RenameDirectory \/ ScanOrphans
      BY <2>3 DEF RenameDirectory, ScanOrphans
    <2> QED
      BY <1>1, <2>1, <2>2, <2>3, TempActions
  <1> QED
    BY <1>1, <1>2, <1>3, <1>4, BoundsAssumption

\* Every step keeps the types.
LEMMA TypeStep ==
  ASSUME IInv, [Next]_vars
  PROVE  TypeOK'
  <1>1. /\ snaps' \in [Keys -> Snapshot \cup {None}]
        /\ wsnaps' \in [Keys -> Snapshot \cup {None}]
    BY MetaStep DEF MetaInv, WellFormed
  <1> QED
    BY <1>1, DirType, KernelType, CallType, SeqType, ReadersType, ClientType, RestType
       DEF TypeOK

\* Both hold at the start, and every step keeps them.
LEMMA InitInv == ASSUME Init PROVE IInv
  <1>1. TypeOK
    <2>1. NoSnaps \in [Keys -> Snapshot \cup {None}] /\ NoCall \in Call
      BY DEF NoSnaps, NoCall, Call
    <2>2. /\ seq \in 0 .. MaxId /\ wseq \in 0 .. MaxId /\ faults \in 0 .. MaxFaults
          /\ pc \in Steps
      BY BoundsAssumption DEF Init, Steps
    <2>6. temp \in BOOLEAN
      BY DEF Init
    <2>3. /\ dir \in [Ids -> Directory \cup {None}]
          /\ dev \in [Ids -> Seq(Ids) \cup {None}] /\ mnt \subseteq Ids
          /\ doomed \subseteq Ids
      BY DEF Init
    <2>4. /\ rpc \in [Readers -> {"idle", "lock", "lockParent", "serve", "mark", "mount"}]
          /\ rkey \in [Readers -> Keys \cup {None}]
          /\ rsnaps \in [Readers -> [Keys -> Snapshot \cup {None}]]
      BY <2>1 DEF Init
    <2>5. /\ given \in [Keys -> SUBSET Ids] /\ handed \in [Keys -> SUBSET Ids]
          /\ use \in [Keys -> {"none", "handed", "mounted"}]
      BY DEF Init
    <2> QED
      BY <2>1, <2>2, <2>3, <2>4, <2>5, <2>6 DEF Init, TypeOK
  <1>2. Live(NoSnaps) = {}
    BY DEF Live, NoSnaps
  <1>3. WellFormed(NoSnaps, 0)
    BY <1>2 DEF WellFormed, NoSnaps
  <1>4. WriterInv /\ ReaderInv
    BY DEF Init, WriterInv, ReaderInv, Preparing, Sealing, Removing, Leaving
  <1> QED
    BY <1>1, <1>3, <1>4 DEF IInv, MetaInv, Init

\* (See InitInv.)
LEMMA InvStep == IInv /\ [Next]_vars => IInv'
  BY MetaStep, TypeStep DEF IInv

-----------------------------------------------------------------------------
(* Theorems.                                                               *)

\* Every variable stays in its range, in every configuration and whatever
\* faults and crashes happen.
THEOREM SnapshotterTyping == Safety => []TypeOK
  <1>1. IInv => TypeOK
    BY DEF IInv
  <1> QED
    BY InitInv, InvStep, <1>1, PTL DEF Safety

\* The metadata that the store, the writer and every call of Mounts see is
\* well-formed, and the writer's differs from the store's by what its call has
\* done: ids are given once and in order, the parent of a snapshot is a
\* committed snapshot, and what Remove deletes belongs to no snapshot.
THEOREM SnapshotterMetadata == Safety => []MetaInv
  <1>1. IInv => MetaInv
    BY DEF IInv
  <1> QED
    BY InitInv, InvStep, <1>1, PTL DEF Safety

=============================================================================
