-------------------------- MODULE GraphBuildProofs --------------------------
(* Theorems about GraphBuild, for every source image and every limit.      *)
EXTENDS GraphBuild, FiniteSetTheorems, TLAPS

Halted == {"none", "ended"}
Working == {"none", "process", "acquire", "build", "wait", "push"}
Holders == {n \in Nodes : pc[n] \in {"build", "release"}}

\* TypeOK is inductive but for one fact: a token is only taken out by a
\* goroutine that holds one.
TypeInv == TypeOK

\* The tokens in the channel are those of the goroutines that build, and those
\* that a cancelled context left there.
TokensInv == Limit # 0 => Cardinality(Holders) <= sem

\* What makes a pushed index that is not whole the business of Build: one of
\* the conversions has failed, and its error is on its way to the errgroup.
Failing == \E c \in Nodes : res[c] = "failed"

ResultsInv ==
    /\ pc[Root] # "none"
    /\ \A n \in Nodes : pc[n] \in {"none", "process"}
                           => \A c \in Converted(n) : pc[c] = "none"
    /\ \A n \in Nodes : res[n] = "none" <=> pc[n] \in Working
    /\ \A n \in Nodes : pc[n] = "ended" /\ res[n] = "failed" => err
    /\ \A n \in Nodes : res[n] = "converted" => image[n] # "none"
    /\ \A n \in Nodes : WgDone(n) /\ res[n] = "converted" => listed[n] = "target"
    /\ \A n \in Nodes : pc[n] = "push" => \A c \in Converted(n) : WgDone(c)
    /\ \A n \in Nodes : image[n] = "mixed" => Failing
    /\ result = "converted" => /\ \A n \in Nodes : pc[n] \in Halted
                               /\ image[Root] = "whole"

-----------------------------------------------------------------------------

\* The initial states are typed.
LEMMA TypeInit == Init => TypeInv
  <1>1. 0 \in 0 .. Limit
    BY LimitAssumption
  <1> QED
    BY <1>1 DEF Init, TypeInv, TypeOK

\* Every step keeps the types.
LEMMA TypeStep == TypeInv /\ [Next]_vars => TypeInv'
  <1> SUFFICES ASSUME TypeInv, [Next]_vars
               PROVE  TypeInv'
    OBVIOUS
  <1> USE LimitAssumption DEF TypeInv, TypeOK
  <1>1. CASE GroupWait
    BY <1>1 DEF GroupWait
  <1>2. ASSUME NEW n \in Nodes, ProcessManifest(n) \/ ProcessFails(n)
        PROVE  TypeInv'
    BY <1>2 DEF ProcessManifest, ProcessFails, Returns
  <1>3. ASSUME NEW n \in Nodes, ProcessIndex(n)
        PROVE  TypeInv'
    BY <1>3 DEF ProcessIndex
  <1>4. ASSUME NEW n \in Nodes, Acquire(n)
        PROVE  TypeInv'
    BY <1>4 DEF Acquire, Returns
  <1>5. ASSUME NEW n \in Nodes, BuildManifest(n)
        PROVE  TypeInv'
    BY <1>5 DEF BuildManifest
  <1>6. ASSUME NEW n \in Nodes, Release(n)
        PROVE  TypeInv'
    BY <1>6 DEF Release
  <1>7. ASSUME NEW n \in Nodes, WaitChildren(n)
        PROVE  TypeInv'
    BY <1>7 DEF WaitChildren, Returns
  <1>8. ASSUME NEW n \in Nodes, PushIndex(n)
        PROVE  TypeInv'
    BY <1>8 DEF PushIndex, Returns, Composed
  <1>9. ASSUME NEW n \in Nodes, FinishProcess(n) \/ RecordError(n)
        PROVE  TypeInv'
    BY <1>9 DEF FinishProcess, RecordError
  <1>10. CASE UNCHANGED vars
    BY <1>10 DEF vars
  <1> QED
    BY <1>1, <1>2, <1>3, <1>4, <1>5, <1>6, <1>7, <1>8, <1>9, <1>10
       DEF Next, NodeStep

\* The state of the conversion of an image keeps its type (GraphBuild.Spec).
THEOREM GraphTyping == Safety => []TypeOK
  BY TypeInit, TypeStep, PTL DEF Safety, TypeInv

-----------------------------------------------------------------------------

\* The goroutines that hold a token can be counted.
LEMMA HoldersFinite == IsFiniteSet(Holders) /\ Cardinality(Holders) \in Nat
  BY FiniteAssumption, FS_Subset, FS_CardinalityType DEF Holders

\* No goroutine holds a token at first.
LEMMA TokensInit == Init => TokensInv
  <1> SUFFICES ASSUME Init
               PROVE  TokensInv
    OBVIOUS
  <1>1. Holders = {}
    BY DEF Init, Holders
  <1> QED
    BY <1>1, FS_EmptySet DEF Init, TokensInv

\* A step takes at least as many tokens as goroutines it lets in, and takes out
\* at most one for the goroutine it lets go.
LEMMA TokensStep == TypeInv /\ TokensInv /\ [Next]_vars => TokensInv'
  <1> SUFFICES ASSUME TypeInv, TokensInv, [Next]_vars, Limit # 0
               PROVE  Cardinality(Holders') <= sem'
    BY DEF TokensInv
  <1>1. IsFiniteSet(Holders) /\ Cardinality(Holders) \in Nat
    BY HoldersFinite
  <1>2. Cardinality(Holders) <= sem /\ sem \in Nat
    BY LimitAssumption DEF TokensInv, TypeInv, TypeOK
  <1> USE DEF TypeInv, TypeOK
  <1>3. ASSUME Holders' = Holders, sem' = sem
        PROVE  Cardinality(Holders') <= sem'
    BY <1>2, <1>3
  <1>4. CASE GroupWait \/ UNCHANGED vars
    <2>1. Holders' = Holders /\ sem' = sem
      BY <1>4 DEF GroupWait, vars, Holders
    <2> QED
      BY <1>3, <2>1
  <1>5. ASSUME NEW n \in Nodes,
               \/ ProcessManifest(n) \/ ProcessFails(n) \/ WaitChildren(n)
               \/ PushIndex(n) \/ FinishProcess(n) \/ RecordError(n)
               \/ BuildManifest(n)
        PROVE  Cardinality(Holders') <= sem'
    <2>1. Holders' = Holders /\ sem' = sem
      BY <1>5 DEF ProcessManifest, ProcessFails, WaitChildren, PushIndex,
         FinishProcess, RecordError, BuildManifest, Returns, Holders
    <2> QED
      BY <1>3, <2>1
  <1>6. ASSUME NEW n \in Nodes, ProcessIndex(n)
        PROVE  Cardinality(Holders') <= sem'
    <2>1. Holders' \subseteq Holders /\ sem' = sem
      BY <1>6 DEF ProcessIndex, Holders
    <2>2. Cardinality(Holders') <= Cardinality(Holders) /\ Cardinality(Holders') \in Nat
      BY <1>1, <2>1, FS_Subset, FS_CardinalityType
    <2> QED
      BY <1>2, <1>1, <2>1, <2>2
  <1>7. ASSUME NEW n \in Nodes, Acquire(n)
        PROVE  Cardinality(Holders') <= sem'
    <2>1. CASE Holders' = Holders /\ sem' = sem
      BY <1>3, <2>1
    <2>2. CASE Holders' = Holders \cup {n} /\ sem' = sem + 1
      <3>1. Cardinality(Holders \cup {n}) =
               IF n \in Holders THEN Cardinality(Holders)
                               ELSE Cardinality(Holders) + 1
        BY <1>1, FS_AddElement
      <3>2. Cardinality(Holders') \in {Cardinality(Holders), Cardinality(Holders) + 1}
        BY <2>2, <3>1
      <3> QED
        BY <1>1, <1>2, <2>2, <3>2
    <2> QED
      BY <1>7, <2>1, <2>2 DEF Acquire, Returns, Holders
  <1>8. ASSUME NEW n \in Nodes, Release(n)
        PROVE  Cardinality(Holders') <= sem'
    <2>1. n \in Holders /\ Holders' = Holders \ {n} /\ sem' \in {sem, sem - 1}
      BY <1>8 DEF Release, Holders
    <2>2. Cardinality(Holders') = Cardinality(Holders) - 1
      BY <1>1, <2>1, FS_RemoveElement
    <2> QED
      BY <1>1, <1>2, <2>1, <2>2
  <1> QED
    BY <1>4, <1>5, <1>6, <1>7, <1>8 DEF Next, NodeStep

\* The tokens in the channel bound the goroutines that build.
LEMMA TokensBound == TypeInv /\ TokensInv => BuildsBounded
  <1> SUFFICES ASSUME TypeInv, TokensInv, Limit # 0
               PROVE  Cardinality({n \in Nodes : pc[n] = "build"}) <= Limit
    BY DEF BuildsBounded
  <1> DEFINE B == {n \in Nodes : pc[n] = "build"}
  <1>1. B \subseteq Holders
    BY DEF Holders
  <1>2. Cardinality(B) <= Cardinality(Holders) /\ Cardinality(B) \in Nat
    BY <1>1, HoldersFinite, FS_Subset, FS_CardinalityType
  <1> QED
    BY <1>2, HoldersFinite, LimitAssumption DEF TypeInv, TypeOK, TokensInv

\* However many manifests an image has and whichever of their conversions fail,
\* never more than ConcurrencyLimit of them are converted at once (buildOne).
THEOREM AtMostLimit == Safety => []BuildsBounded
  BY TypeInit, TypeStep, TokensInit, TokensStep, TokensBound, PTL DEF Safety

-----------------------------------------------------------------------------

\* No goroutine has a result at first.
LEMMA ResultsInit == Init => ResultsInv
  BY TreeAssumption
     DEF Init, ResultsInv, Working, Halted, WgDone, Converted, Failing

\* The only parent of a descriptor is the index whose goroutine starts it.
LEMMA OneParent ==
    ASSUME NEW m \in Nodes, NEW n \in Nodes, NEW c \in Converted(m),
           c \in Converted(n)
    PROVE  m = n
  BY DEF Converted

\* An index is pushed as anything but a whole only over a failure.
LEMMA MixedFails ==
    ASSUME TypeInv, ResultsInv, NEW n \in Nodes, pc[n] = "push",
           Composed(n) = "mixed"
    PROVE  Failing
  <1>1. PICK c \in Converted(n) : ~(listed[c] = "target" /\ image[c] = "whole")
    BY DEF Composed
  <1>2. c \in Nodes /\ WgDone(c)
    BY <1>1 DEF ResultsInv, Converted
  <1>3. res[c] \in {"converted", "failed"}
    BY <1>2 DEF ResultsInv, Working, WgDone, TypeInv, TypeOK
  <1>4. CASE res[c] = "failed"
    BY <1>2, <1>4 DEF Failing
  <1>5. CASE res[c] = "converted"
    <2>1. listed[c] = "target" /\ image[c] # "none"
      BY <1>2, <1>5 DEF ResultsInv
    <2>2. image[c] = "mixed"
      BY <1>1, <1>2, <2>1 DEF TypeInv, TypeOK
    <2> QED
      BY <1>2, <2>2 DEF ResultsInv
  <1> QED
    BY <1>3, <1>4, <1>5

\* Every step keeps what the results say.
LEMMA ResultsStep == TypeInv /\ ResultsInv /\ [Next]_vars => ResultsInv'
  <1> SUFFICES ASSUME TypeInv, ResultsInv, [Next]_vars
               PROVE  ResultsInv'
    OBVIOUS
  <1> USE TreeAssumption DEF TypeInv, TypeOK
  <1>1. CASE UNCHANGED vars
    BY <1>1 DEF vars, ResultsInv, WgDone, Failing
  <1>2. CASE GroupWait
    <2>1. UNCHANGED <<pc, res, listed, sem, err, image>>
          /\ \A n \in Nodes : pc[n] \in Halted
      BY <1>2 DEF GroupWait, Halted
    <2>2. ASSUME result' = "converted"
          PROVE  image[Root] = "whole"
      <3>1. ~err
        BY <1>2, <2>2 DEF GroupWait
      <3>2. ~Failing
        BY <2>1, <3>1 DEF Failing, ResultsInv, Halted, Working
      <3>3. res[Root] = "converted"
        BY <2>1, <3>2 DEF ResultsInv, Halted, Working, Failing
      <3> QED
        BY <3>2, <3>3 DEF ResultsInv
    <2> QED
      BY <2>1, <2>2 DEF ResultsInv, WgDone, Failing
  <1>3. ASSUME NEW n \in Nodes, NodeStep(n)
        PROVE  ResultsInv'
    <2>1. pc[n] \notin Halted /\ result' = result
      BY <1>3 DEF NodeStep, ProcessManifest, ProcessIndex, ProcessFails, Acquire,
         BuildManifest, Release, WaitChildren, PushIndex, FinishProcess,
         RecordError, Halted
    <2>2. result # "converted"
      BY <2>1 DEF ResultsInv
    <2>3. CASE ProcessIndex(n)
      <3>1. /\ pc[n] = "process"
            /\ \A c \in Converted(n) : c \in Nodes /\ pc[c] = "none"
        BY <2>3 DEF ProcessIndex, ResultsInv, Converted
      <3>2. /\ UNCHANGED <<res, listed, err, image, result>>
            /\ pc'[n] = "wait"
            /\ \A c \in Converted(n) : pc'[c] = "process"
            /\ \A m \in Nodes : m # n /\ m \notin Converted(n) => pc'[m] = pc[m]
        BY <2>3, <3>1 DEF ProcessIndex
      <3>3. \A m \in Nodes : /\ pc'[m] \in Working <=> pc[m] \in Working
                             /\ WgDone(m)' <=> WgDone(m)
                             /\ pc'[m] = "push" => pc[m] = "push"
                             /\ pc'[m] = "ended" <=> pc[m] = "ended"
        BY <3>1, <3>2 DEF Working, WgDone
      <3>4. ASSUME NEW m \in Nodes, pc'[m] \in {"none", "process"},
                   NEW c \in Converted(m)
            PROVE  pc'[c] = "none"
        <4>1. pc[m] \in {"none", "process"} /\ m # n
          BY <3>1, <3>2, <3>4
        <4>2. pc[c] = "none" /\ c \in Nodes
          BY <4>1 DEF ResultsInv, Converted
        <4>3. c # n /\ c \notin Converted(n)
          BY <3>1, <4>1, <4>2, OneParent
        <4> QED
          BY <3>2, <4>2, <4>3
      <3>5. pc'[Root] # "none"
        BY <3>1, <3>2 DEF ResultsInv
      <3>6. (\A m \in Nodes : pc[m] = "push" => \A c \in Converted(m) : WgDone(c))'
        BY <3>3 DEF ResultsInv, Converted
      <3> QED
        BY <2>2, <3>2, <3>3, <3>4, <3>5, <3>6 DEF ResultsInv, Failing, Converted
    <2>4. CASE ProcessManifest(n) \/ ProcessFails(n) \/ Acquire(n)
      BY <2>1, <2>2, <2>4 DEF ProcessManifest, ProcessFails, Acquire, Returns,
         ResultsInv, WgDone, Failing, Working, Converted
    <2>5. CASE BuildManifest(n) \/ Release(n)
      BY <2>1, <2>2, <2>5 DEF BuildManifest, Release,
         ResultsInv, WgDone, Failing, Working, Converted
    <2>6. CASE WaitChildren(n)
      BY <2>1, <2>2, <2>6 DEF WaitChildren, Returns,
         ResultsInv, WgDone, Failing, Working, Converted
    <2>7. CASE PushIndex(n)
      <3>1. Composed(n) = "mixed" => Failing
        BY <2>7, MixedFails DEF PushIndex
      <3>2. Composed(n) \in {"whole", "mixed"}
        BY DEF Composed
      <3> QED
        BY <2>1, <2>2, <2>7, <3>1, <3>2 DEF PushIndex, Returns,
           ResultsInv, WgDone, Failing, Working, Converted
    <2>8. CASE FinishProcess(n)
      BY <2>1, <2>2, <2>8 DEF FinishProcess,
         ResultsInv, WgDone, Failing, Working, Converted
    <2>9. CASE RecordError(n)
      <3>1. /\ UNCHANGED <<res, listed, image>>
            /\ (err => err') /\ (res[n] = "failed" => err')
        BY <2>9 DEF RecordError
      <3>2. /\ pc[n] = "returned" /\ pc'[n] = "ended"
            /\ \A m \in Nodes \ {n} : pc'[m] = pc[m]
        BY <2>9 DEF RecordError
      <3> QED
        BY <2>1, <2>2, <3>1, <3>2 DEF ResultsInv, WgDone, Failing, Working,
           Converted
    <2> QED
      BY <1>3, <2>3, <2>4, <2>5, <2>6, <2>7, <2>8, <2>9 DEF NodeStep
  <1> QED
    BY <1>1, <1>2, <1>3 DEF Next

\* Build reports success only for an image that was pushed whole, although an
\* index may be pushed before the error of a manifest is recorded (process).
THEOREM SuccessMeansWhole == Safety => []SuccessIsWhole
  <1>1. ResultsInv => SuccessIsWhole
    BY DEF ResultsInv, SuccessIsWhole
  <1> QED
    BY <1>1, TypeInit, TypeStep, ResultsInit, ResultsStep, PTL DEF Safety
=============================================================================
