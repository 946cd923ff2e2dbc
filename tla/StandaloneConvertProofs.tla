----------------------- MODULE StandaloneConvertProofs -----------------------
(* Theorems about StandaloneConvert, for any commands, images, hosts and     *)
(* repositories, and any number of failures, lost blobs and collections.     *)
EXTENDS StandaloneConvert, SequenceTheorems, TLAPS

-----------------------------------------------------------------------------
(* Conversions, and stacks of them; p says whether they are reproducible.  *)

\* The layers of an image, by number.
Layers(c) == 1 .. Len(Image[c])

\* A conversion of the first n layers of an image, itself of the last of them.
Conversion(p, b, c, n) ==
    /\ b \in Blobs /\ Len(b) = n
    /\ \A k \in 1 .. n :
        /\ b[k][1] = Image[c][k]
        /\ p => b[k] = <<Image[c][k], <<None, 0>>>>

\* A stack of conversions of the first n layers of an image.
StackOf(p, s, c, n) ==
    /\ s \in Seq(Blobs) /\ Len(s) = n
    /\ \A i \in 1 .. n : Conversion(p, s[i], c, i)

\* An image is a non-empty sequence of layers.
LEMMA ImageType ==
  ASSUME NEW c \in Convertor
  PROVE  /\ Image[c] \in Seq(Layer) /\ Len(Image[c]) \in Nat \ {0}
         /\ DOMAIN Image[c] = Layers(c)
         /\ \A i \in Layers(c) : Image[c][i] \in Layer
         /\ Host[c] \in Hosts /\ Repo[c] \in Repos
  <1>1. Image[c] \in Seq(Layer) /\ Image[c] # <<>>
    BY ImageAssumption
  <1>2. Len(Image[c]) \in Nat \ {0} /\ DOMAIN Image[c] = 1 .. Len(Image[c])
    BY <1>1, EmptySeq, LenProperties
  <1>3. \A i \in 1 .. Len(Image[c]) : Image[c][i] \in Layer
    BY <1>1, ElementOfSeq
  <1> QED
    BY <1>1, <1>2, <1>3 DEF Layers, Hosts, Repos

\* A chain ID names the first layers of an image.
LEMMA ChainType ==
  ASSUME NEW c \in Convertor, NEW i \in Layers(c)
  PROVE  /\ Chain(c, i) \in Chains /\ Chain(c, i) \in Seq(Layer)
         /\ Len(Chain(c, i)) = i
         /\ \A k \in 1 .. i : Chain(c, i)[k] = Image[c][k]
  <1>1. /\ Chain(c, i) \in Seq(Layer) /\ Len(Chain(c, i)) = i
        /\ \A k \in 1 .. i : Chain(c, i)[k] = Image[c][k]
    <2>1. i \in Int /\ 1 \in Int /\ 1 <= i /\ \A k \in 1 .. i : Image[c][k] \in Layer
      BY ImageType DEF Layers
    <2>2. /\ SubSeq(Image[c], 1, i) \in Seq(Layer)
          /\ Len(SubSeq(Image[c], 1, i)) = IF 1 <= i THEN i - 1 + 1 ELSE 0
          /\ \A k \in 1 .. i - 1 + 1 : SubSeq(Image[c], 1, i)[k] = Image[c][1 + k - 1]
      BY <2>1, SubSeqProperties
    <2> QED
      BY <2>1, <2>2 DEF Chain
  <1>2. Chain(c, i) \in Chains
    BY DEF Chains, Layers
  <1> QED
    BY <1>1, <1>2

\* Images with one chain in common have these layers in common.
LEMMA SameChain ==
  ASSUME NEW c \in Convertor, NEW d \in Convertor, NEW i \in Layers(c),
         NEW j \in Layers(d), Chain(c, i) = Chain(d, j)
  PROVE  i = j /\ \A k \in 1 .. i : Image[c][k] = Image[d][k]
  BY ChainType

\* What was made of a chain serves every image that has the chain.
LEMMA ConversionOfChain ==
  ASSUME NEW c \in Convertor, NEW d \in Convertor, NEW i \in Layers(c),
         NEW j \in Layers(d), Chain(c, i) = Chain(d, j), NEW p, NEW b
  PROVE  /\ Conversion(p, b, c, i) => Conversion(p, b, d, j)
         /\ StackOf(p, b, c, i) => StackOf(p, b, d, j)
  <1>1. i \in Nat /\ i = j /\ \A k \in 1 .. i : Image[c][k] = Image[d][k]
    BY SameChain DEF Layers
  <1>2. \A x : \A n \in 1 .. i : Conversion(p, x, c, n) => Conversion(p, x, d, n)
    BY <1>1 DEF Conversion
  <1>3. i \in 1 .. i
    BY DEF Layers
  <1> QED
    BY <1>1, <1>2, <1>3 DEF StackOf

\* The last element of a sequence that is not empty.
LEMMA TopElement ==
  ASSUME NEW c \in Convertor, NEW n \in Layers(c), NEW p, NEW s, StackOf(p, s, c, n)
  PROVE  Conversion(p, Top(s), c, n) /\ s # <<>>
  <1>1. n \in 1 .. n /\ n # 0
    BY DEF Layers
  <1>2. Conversion(p, Top(s), c, n)
    BY <1>1 DEF StackOf, Top
  <1>3. s # <<>>
    BY <1>1, EmptySeq DEF StackOf
  <1> QED
    BY <1>2, <1>3

\* One conversion more on a stack.
LEMMA StackAppend ==
  ASSUME NEW c \in Convertor, NEW n \in Layers(c), NEW p, NEW s, StackOf(p, s, c, n - 1),
         NEW b, Conversion(p, b, c, n)
  PROVE  StackOf(p, Append(s, b), c, n)
  <1>1. s \in Seq(Blobs) /\ Len(s) = n - 1 /\ b \in Blobs /\ n \in Nat \ {0}
    BY DEF StackOf, Conversion, Layers
  <1>2. /\ Append(s, b) \in Seq(Blobs) /\ Len(Append(s, b)) = n
        /\ \A i \in 1 .. n - 1 : Append(s, b)[i] = s[i]
        /\ Append(s, b)[n] = b
    BY <1>1, AppendProperties
  <1> QED
    BY <1>1, <1>2 DEF StackOf

\* Stamps are stamps.
LEMMA StampType ==
  ASSUME NEW h \in Hosts, collected \in 0 .. MaxCollect
  PROVE  Stamp(h) \in Stamps /\ (reproducible => Stamp(h) = <<None, 0>>)
  BY BoundsAssumption DEF Stamp, Stamps

\* A layer that is built over a stack of conversions is one itself.
LEMMA BuiltConverts ==
  ASSUME NEW c \in Convertor, NEW n \in Layers(c), NEW s, StackOf(reproducible, s, c, n - 1),
         collected \in 0 .. MaxCollect
  PROVE  Conversion(reproducible, Built(s, Image[c][n], Host[c]), c, n)
  <1> DEFINE new == <<Image[c][n], Stamp(Host[c])>>
             b == Built(s, Image[c][n], Host[c])
  <1>1. n \in Nat \ {0} /\ Len(s) = n - 1 /\ n <= Len(Image[c])
    BY ImageType DEF StackOf, Layers
  <1>2. new \in Layer \X Stamps /\ (reproducible => new = <<Image[c][n], <<None, 0>>>>)
    BY ImageType, StampType
  <1>3. ASSUME NEW k \in 1 .. n - 1
        PROVE  /\ Top(s[k]) \in Layer \X Stamps /\ Top(s[k])[1] = Image[c][k]
               /\ reproducible => Top(s[k]) = <<Image[c][k], <<None, 0>>>>
    <2>1. Conversion(reproducible, s[k], c, k) /\ k \in 1 .. k
      BY <1>1 DEF StackOf
    <2>2. s[k] \in Seq(Layer \X Stamps) /\ Len(s[k]) = k
      BY <2>1 DEF Conversion, Blobs
    <2>3. s[k][k] \in Layer \X Stamps
      BY <2>1, <2>2, ElementOfSeq
    <2> QED
      BY <2>1, <2>2, <2>3 DEF Conversion, Top
  <1>4. b = [k \in 1 .. n |-> IF k <= n - 1 THEN Top(s[k]) ELSE new]
    BY <1>1 DEF Built
  <1>5. \A k \in 1 .. n : b[k] = IF k <= n - 1 THEN Top(s[k]) ELSE new
    BY <1>4
  <1>6. b \in [1 .. n -> Layer \X Stamps]
    BY <1>1, <1>2, <1>3, <1>4
  <1>7. b \in Blobs /\ Len(b) = n
    BY <1>1, <1>6 DEF Blobs
  <1>8. ASSUME NEW k \in 1 .. n
        PROVE  /\ b[k][1] = Image[c][k]
               /\ reproducible => b[k] = <<Image[c][k], <<None, 0>>>>
    <2>1. CASE k \in 1 .. n - 1
      BY <1>1, <1>3, <1>5, <2>1
    <2>2. CASE k = n
      BY <1>1, <1>2, <1>5, <2>2
    <2> QED
      BY <1>1, <2>1, <2>2
  <1> QED
    BY <1>7, <1>8 DEF Conversion

\* What a conversion converts.
LEMMA ConversionSource ==
  ASSUME NEW c \in Convertor, NEW i \in Layers(c), NEW p, NEW b, Conversion(p, b, c, i)
  PROVE  SourceLayers(b) = Chain(c, i)
  <1>1. b \in Seq(Layer \X Stamps) /\ Len(b) = i /\ i \in Nat
    BY DEF Conversion, Blobs, Layers
  <1>2. DOMAIN b = 1 .. i
    BY <1>1, LenProperties
  <1>3. SourceLayers(b) = [k \in 1 .. i |-> Image[c][k]]
    BY <1>2 DEF SourceLayers, Conversion
  <1>4. Chain(c, i) = [k \in 1 .. i |-> Image[c][k]]
    <2>1. Chain(c, i) \in [1 .. i -> Layer]
      BY ChainType, LenProperties
    <2> QED
      BY <2>1, ChainType
  <1> QED
    BY <1>3, <1>4

\* What a stack of conversions converts.
LEMMA StackConverts ==
  ASSUME NEW c \in Convertor, NEW n \in 0 .. Len(Image[c]), NEW p, NEW s,
         StackOf(p, s, c, n)
  PROVE  Converts(s, SubSeq(Image[c], 1, n))
  <1> DEFINE ch == SubSeq(Image[c], 1, n)
  <1>1. Len(s) = n /\ n \in Nat /\ DOMAIN s = 1 .. n /\ n <= Len(Image[c])
        /\ Len(Image[c]) \in Nat
    BY ImageType, LenProperties DEF StackOf
  <1>2. ch \in Seq(Layer) /\ Len(ch) = n
    <2>1. /\ n \in Int /\ 1 \in Int /\ (IF 1 <= n THEN n - 1 + 1 ELSE 0) = n
          /\ \A k \in 1 .. n : Image[c][k] \in Layer
      BY <1>1, ImageType DEF Layers
    <2> QED
      BY <2>1, SubSeqProperties
  <1>3. ASSUME NEW i \in 1 .. n PROVE SourceLayers(s[i]) = SubSeq(ch, 1, i)
    <2>1. i \in Layers(c) /\ Conversion(p, s[i], c, i)
      BY <1>1 DEF StackOf, Layers
    <2>2. SourceLayers(s[i]) = Chain(c, i)
      BY <2>1, ConversionSource
    <2>3. SubSeq(ch, 1, i) = SubSeq(Image[c], 1, i)
      <3>1. /\ 1 \in 1 .. Len(Image[c]) /\ n \in 1 .. Len(Image[c])
            /\ 1 \in 1 .. n - 1 + 1 /\ i \in 1 .. n - 1 + 1
            /\ Image[c] \in Seq(Layer) /\ 1 + 1 - 1 = 1 /\ 1 + i - 1 = i
        BY <1>1, ImageType
      <3>2. SubSeq(ch, 1, i) = SubSeq(Image[c], 1 + 1 - 1, 1 + i - 1)
        BY <3>1, <1>2, SubSeqOfSubSeq
      <3> QED
        BY <3>1, <3>2
    <2> QED
      BY <2>2, <2>3 DEF Chain
  <1> QED
    BY <1>1, <1>2, <1>3 DEF Converts

\* Conversions that are reproducible are made over one another.
LEMMA StackIsStacked ==
  ASSUME NEW c \in Convertor, NEW s, NEW p, StackOf(p, s, c, Len(Image[c]))
  PROVE  p = TRUE => Stacked(s)
  <1>1. DOMAIN s = Layers(c) /\ Len(Image[c]) \in Nat
    BY ImageType, LenProperties DEF StackOf, Layers
  <1>2. \A i \in Layers(c) : Conversion(p, s[i], c, i)
    BY DEF StackOf, Layers
  <1> HAVE p = TRUE
  <1>3. ASSUME NEW i \in Layers(c)
        PROVE  s[i] = [k \in 1 .. i |-> <<Image[c][k], <<None, 0>>>>]
    <2>1. s[i] \in [1 .. i -> Layer \X Stamps]
      BY <1>2, LenProperties DEF Conversion, Blobs
    <2> QED
      BY <1>2, <2>1 DEF Conversion
  <1>4. ASSUME NEW k \in Layers(c)
        PROVE  Top(s[k]) = <<Image[c][k], <<None, 0>>>>
    <2>1. k \in 1 .. k
      BY <1>1 DEF Layers
    <2> QED
      BY <1>2, <2>1 DEF Conversion, Top
  <1>5. ASSUME NEW i \in Layers(c)
        PROVE  s[i] = [k \in 1 .. i |-> Top(s[k])]
    <2>1. \A k \in 1 .. i : k \in Layers(c)
      BY <1>1 DEF Layers
    <2> QED
      BY <1>3, <1>4, <2>1
  <1> QED
    BY <1>1, <1>5 DEF Stacked

-----------------------------------------------------------------------------
(* One command: r is its record and P what its repository has had.         *)

Candidates == SUBSET (Repos \X Blobs)

Fields == {"stage", "run", "mode", "idx", "parent", "found", "rest", "layers",
           "exports", "cancelled"}

IsCommand(r) ==
    /\ DOMAIN r = Fields
    /\ r.stage \in Stages /\ r.run \in 0 .. MaxRuns
    /\ r.mode \in {"local", "remote"} /\ r.idx \in Nat \ {0}
    /\ r.parent \in Names \cup {None} /\ r.found \in Blobs
    /\ r.rest \in Candidates /\ r.layers \in Seq(Blobs)
    /\ r.exports \in SUBSET Nat /\ r.cancelled \in BOOLEAN

\* What is empty has every type.
LEMMA EmptyTypes == <<>> \in Blobs /\ <<>> \in Seq(Blobs) /\ {} \in Candidates
  BY EmptySeq DEF Blobs, Candidates

RemoteStages == Loop \ {"apply"}

\* A snapshot that is named for the first d layers of an image.
NamedFor(c, n, d) == IF d = 0 THEN n = None ELSE n \in {Chain(c, d), Image[c][d]}

\* The layers below the parent, and those whose blob is known or is exported.
Depth(r) == IF r.stage \in {"push", "insert"} THEN r.idx ELSE r.idx - 1
Known(r) == IF r.stage \in {"insert", "wait", "commit"} THEN r.idx ELSE r.idx - 1

\* The first n layers are in the image, or are being exported.
LayersOK(p, c, r, P, n) ==
    /\ Len(r.layers) = Len(Image[c])
    /\ r.cancelled => r.mode = "local"
    /\ \A i \in r.exports : i \in 1 .. n /\ r.mode = "local"
    /\ ~r.cancelled => \A i \in (1 .. n) \ r.exports :
                           /\ Conversion(p, r.layers[i], c, i)
                           /\ r.mode = "remote" => r.layers[i] \in P

\* What a command has found for its layer.
FoundOK(p, c, r, P) ==
    /\ r.found # <<>> => Conversion(p, r.found, c, r.idx)
    /\ r.stage \in {"fetch", "record", "prepare"} => r.found # <<>> /\ r.found \in P
    /\ \A q \in r.rest : Conversion(p, q[2], c, r.idx)

\* A command has the name of its parent only; nothing keeps the snapshot there.
ParentOK(c, r) == r.stage \in Loop => NamedFor(c, r.parent, Depth(r))

CommandOK(p, c, r, P) ==
    /\ r.idx \in Layers(c)
    /\ r.stage \in RemoteStages => r.mode = "remote"
    /\ r.stage \in Ended => r.parent = None /\ r.exports = {}
    /\ ParentOK(c, r)
    /\ FoundOK(p, c, r, P)
    /\ r.stage \notin Ended => LayersOK(p, c, r, P, Known(r))
    /\ r.stage \in {"wait", "commit"} => r.idx = Len(Image[c])
    /\ r.stage = "commit" => r.exports = {} /\ ~r.cancelled

\* A command that stands still keeps what it had; the snapshots do not matter to it.
LEMMA CommandFrame ==
  ASSUME NEW p, NEW c \in Convertor, NEW r, NEW P, NEW P2,
         CommandOK(p, c, r, P), P \subseteq P2
  PROVE  CommandOK(p, c, r, P2)
  <1>1. FoundOK(p, c, r, P2)
    BY DEF CommandOK, FoundOK
  <1>2. ASSUME r.stage \notin Ended PROVE LayersOK(p, c, r, P2, Known(r))
    BY <1>2 DEF CommandOK, LayersOK
  <1> QED
    BY <1>1, <1>2 DEF CommandOK

\* The next turn of the loop, when the layer of this one is known or exported.
LEMMA AfterLayerOK ==
  ASSUME NEW p, NEW c \in Convertor, NEW r, IsCommand(r), NEW P,
         r.idx \in Layers(c), NamedFor(c, r.parent, r.idx),
         LayersOK(p, c, r, P, r.idx)
  PROVE  IsCommand(AfterLayer(r, c)) /\ CommandOK(p, c, AfterLayer(r, c), P)
  <1> DEFINE s == AfterLayer(r, c)
  <1>0. r.idx \in Nat \ {0} /\ r.mode \in {"local", "remote"} /\ Len(Image[c]) \in Nat
    BY ImageType DEF IsCommand
  <1>1. /\ IsCommand(s) /\ s.mode = r.mode /\ s.parent = r.parent
        /\ s.found = <<>> /\ s.rest = {} /\ s.layers = r.layers
        /\ s.exports = r.exports /\ s.cancelled = r.cancelled
    <2> QED
      BY <1>0, EmptyTypes DEF AfterLayer, IsCommand, Stages, Ended, Loop, FirstStage
  <1>2. CASE r.idx < Len(Image[c])
    <2>1. s.idx = r.idx + 1 /\ s.stage = FirstStage(r.mode)
      BY <1>2 DEF AfterLayer, IsCommand
    <2>2. /\ s.stage \in {"find", "apply"} /\ (s.stage = "find" => s.mode = "remote")
          /\ s.idx \in Layers(c) /\ s.idx - 1 = r.idx
      BY <1>0, <1>1, <1>2, <2>1 DEF FirstStage, Layers
    <2>3. Depth(s) = r.idx /\ Known(s) = r.idx
      BY <1>1, <2>2 DEF Depth, Known
    <2>4. ParentOK(c, s) /\ FoundOK(p, c, s, P)
      BY <1>1, <2>2, <2>3 DEF ParentOK, FoundOK
    <2>5. LayersOK(p, c, s, P, Known(s))
      BY <1>1, <2>3 DEF LayersOK
    <2> QED
      BY <1>1, <2>2, <2>4, <2>5 DEF CommandOK, RemoteStages, Loop, Ended
  <1>3. CASE ~(r.idx < Len(Image[c]))
    <2>1. s.idx = r.idx /\ s.stage = "wait"
      BY <1>3 DEF AfterLayer, IsCommand
    <2>2. r.idx = Len(Image[c]) /\ Known(s) = r.idx
      BY <1>0, <1>3, <2>1 DEF Layers, Known
    <2>3. ParentOK(c, s) /\ FoundOK(p, c, s, P)
      BY <1>1, <2>1 DEF ParentOK, FoundOK, Loop
    <2>5. LayersOK(p, c, s, P, Known(s))
      BY <1>1, <2>2 DEF LayersOK
    <2> QED
      BY <1>1, <2>1, <2>2, <2>3, <2>5 DEF CommandOK, RemoteStages, Loop, Ended
  <1> QED
    BY <1>2, <1>3

\* A command that has nothing yet.
Fresh(s) ==
    /\ DOMAIN s = Fields
    /\ s.stage \in Stages /\ s.run \in 0 .. MaxRuns
    /\ s.mode \in {"local", "remote"} /\ s.idx = 1 /\ s.parent = None
    /\ s.found = <<>> /\ s.rest = {} /\ s.layers \in Seq(Blobs)
    /\ s.exports = {} /\ s.cancelled = FALSE

\* It has the types of a command.
LEMMA FreshType ==
  ASSUME NEW s, Fresh(s)
  PROVE  IsCommand(s)
  <1>1. s.idx \in Nat \ {0} /\ s.parent \in Names \cup {None}
    BY DEF Fresh
  <1>2. s.found \in Blobs /\ s.rest \in Candidates
    BY EmptyTypes DEF Fresh
  <1>3. s.exports \in SUBSET Nat
    BY DEF Fresh
  <1>4. s.cancelled \in BOOLEAN
    BY DEF Fresh
  <1> QED
    BY <1>1, <1>2, <1>3, <1>4 DEF IsCommand, Fresh

\* A command that has not begun, or has stopped.
LEMMA StoppedOK ==
  ASSUME NEW p, NEW c \in Convertor, NEW P, NEW s, Fresh(s), s.stage \in Ended
  PROVE  CommandOK(p, c, s, P)
  <1>1. 1 \in Layers(c)
    BY ImageType DEF Layers
  <1> QED
    BY <1>1 DEF CommandOK, ParentOK, FoundOK, RemoteStages, Loop, Ended, Fresh

\* The records of such commands.
LEMMA IdleFresh ==
  ASSUME NEW n \in 0 .. MaxRuns
  PROVE  /\ Fresh(Idle) /\ Idle.stage = "idle"
         /\ \A st \in Stages :
              LET s == [Idle EXCEPT !.stage = st, !.run = n] IN Fresh(s) /\ s.stage = st
  <1>1. "idle" \in Stages /\ 0 \in 0 .. MaxRuns
    BY BoundsAssumption DEF Stages, Ended
  <1> QED
    BY <1>1, EmptyTypes DEF Idle, Fresh, Fields

\* What a command that has stopped is left with.
LEMMA StoppedFresh ==
  ASSUME NEW n \in 0 .. MaxRuns, NEW s,
         \/ s = [Idle EXCEPT !.stage = "failed", !.run = n]
         \/ s = [Idle EXCEPT !.stage = "done", !.run = n]
  PROVE  Fresh(s) /\ s.stage \in Ended
  <1>1. PICK st \in {"failed", "done"} : s = [Idle EXCEPT !.stage = st, !.run = n]
    OBVIOUS
  <1>2. st \in Stages /\ st \in Ended
    BY DEF Stages, Ended
  <1> QED
    BY <1>1, <1>2, IdleFresh

\* A command that has begun.
LEMMA BegunOK ==
  ASSUME NEW p, NEW c \in Convertor, NEW P, NEW s, Fresh(s),
         s.stage = FirstStage(s.mode), Len(s.layers) = Len(Image[c])
  PROVE  CommandOK(p, c, s, P)
  <1>2. /\ 1 \in Layers(c) /\ s.stage \in {"find", "apply"}
        /\ s.stage = "find" => s.mode = "remote"
    BY ImageType DEF Layers, FirstStage
  <1>3. Depth(s) = 0 /\ Known(s) = 0
    BY <1>2 DEF Depth, Known, Fresh
  <1>4. ParentOK(c, s)
    BY <1>3 DEF ParentOK, NamedFor, Fresh
  <1>5. FoundOK(p, c, s, P) /\ LayersOK(p, c, s, P, Known(s))
    BY <1>2, <1>3 DEF FoundOK, LayersOK, Fresh
  <1> QED
    BY <1>2, <1>4, <1>5 DEF CommandOK, RemoteStages, Loop, Ended, Fresh

\* The record of such a command.
LEMMA BegunFresh ==
  ASSUME NEW c \in Convertor, NEW n \in 0 .. MaxRuns, NEW m \in {"local", "remote"},
         NEW s, s = [Idle EXCEPT !.stage = FirstStage(m), !.run = n, !.mode = m,
                                 !.layers = [i \in DOMAIN Image[c] |-> <<>>]]
  PROVE  Fresh(s) /\ s.stage = FirstStage(s.mode) /\ Len(s.layers) = Len(Image[c])
  <1> DEFINE none == [i \in DOMAIN Image[c] |-> <<>>]
  <1>1. none \in Seq(Blobs) /\ Len(none) = Len(Image[c])
    <2>1. DOMAIN Image[c] = 1 .. Len(Image[c]) /\ Len(Image[c]) \in Nat
      BY ImageType DEF Layers
    <2> QED
      BY <2>1, EmptyTypes
  <1>2. FirstStage(m) \in Stages
    BY DEF FirstStage, Stages, Loop
  <1> HIDE DEF none
  <1>3. /\ DOMAIN s = Fields /\ s.stage = FirstStage(m) /\ s.run = n /\ s.mode = m
        /\ s.layers = none /\ s.idx = 1 /\ s.parent = None /\ s.found = <<>>
        /\ s.rest = {} /\ s.exports = {} /\ s.cancelled = FALSE
    BY DEF Idle, Fields, none
  <1> QED
    BY <1>1, <1>2, <1>3 DEF Fresh

\* The stages of a command that looks for its layer, or is about to build it.
Looking == {"find", "fetch", "delete", "query", "mount", "record", "prepare"}

\* While a command looks for its layer, its snapshots and its image stand still.
LEMMA LookingOK ==
  ASSUME NEW p, NEW c \in Convertor, NEW r, NEW s, NEW P,
         CommandOK(p, c, r, P), r.stage \in Looking,
         s.stage \in Looking \cup {"apply"}, s.idx = r.idx, s.mode = r.mode,
         s.parent = r.parent, s.layers = r.layers, s.exports = r.exports,
         s.cancelled = r.cancelled, FoundOK(p, c, s, P)
  PROVE  CommandOK(p, c, s, P)
  <1>1. Depth(s) = Depth(r) /\ Known(s) = Known(r)
    BY DEF Depth, Known, Looking
  <1>2. /\ r.stage \in Loop /\ r.stage \notin Ended /\ r.stage \in RemoteStages
        /\ s.stage \in Loop /\ s.stage \notin Ended \cup {"wait", "commit"}
    BY DEF Looking, Loop, Ended, RemoteStages
  <1>3. ParentOK(c, s)
    BY <1>1, <1>2 DEF CommandOK, ParentOK
  <1>4. LayersOK(p, c, s, P, Known(s))
    BY <1>1, <1>2 DEF CommandOK, LayersOK
  <1> QED
    BY <1>2, <1>3, <1>4 DEF CommandOK

-----------------------------------------------------------------------------
(* The invariant.                                                          *)

TypeInv ==
    /\ reproducible \in BOOLEAN
    /\ snaps \in [Hosts -> [Names -> Seq(Blobs)]]
    /\ collected \in 0 .. MaxCollect
    /\ registry \in [Repos -> SUBSET Blobs]
    /\ pushed \in [Repos -> SUBSET Blobs]
    /\ rows \in [Repos -> [Chains -> Blobs]]
    /\ DOMAIN conv = Convertor
    /\ \A c \in Convertor : IsCommand(conv[c])
    /\ faults \in 0 .. MaxFaults /\ lost \in 0 .. MaxLost

\* A snapshot of either name is a stack of conversions of what it is named for.
SnapsOK ==
    \A h \in Hosts, c \in Convertor : \A i \in Layers(c) :
        \A n \in {Chain(c, i), Image[c][i]} :
            snaps[h][n] # <<>> => StackOf(reproducible, snaps[h][n], c, i)

\* A row names a conversion of its chain that its repository has had.
RowsOK ==
    \A r \in Repos, c \in Convertor : \A i \in Layers(c) :
        LET b == rows[r][Chain(c, i)] IN
        b # <<>> => Conversion(reproducible, b, c, i) /\ b \in pushed[r]

\* What a repository has, it has had.
RegistryOK == \A r \in Repos : registry[r] \subseteq pushed[r]

\* An image is a conversion of each of its layers.
ImagesOK ==
    \A im \in images :
        /\ im.conv \in Convertor /\ Len(im.layers) = Len(Image[im.conv])
        /\ im.layers \in Seq(Blobs)
        /\ \A i \in Layers(im.conv) :
            /\ Conversion(reproducible, im.layers[i], im.conv, i)
            /\ im.mode = "remote" => im.layers[i] \in pushed[Repo[im.conv]]

CommandsOK ==
    \A c \in Convertor :
        CommandOK(reproducible, c, conv[c], pushed[Repo[c]])

IInv == TypeInv /\ SnapsOK /\ RowsOK /\ RegistryOK /\ ImagesOK /\ CommandsOK

\* There are no snapshots, rows and images to begin with.
LEMMA InitInv == Init => IInv
  <1> SUFFICES ASSUME Init PROVE IInv
    OBVIOUS
  <1>1. ASSUME NEW c \in Convertor
        PROVE  /\ IsCommand(conv[c])
               /\ CommandOK(reproducible, c, conv[c], pushed[Repo[c]])
    <2>1. conv[c] = Idle
      BY DEF Init
    <2>2. "idle" \in Ended /\ 0 \in 0 .. MaxRuns
      BY BoundsAssumption DEF Ended
    <2>3. Fresh(Idle) /\ Idle.stage = "idle"
      BY <2>2, IdleFresh
    <2> QED
      BY <2>1, <2>2, <2>3, FreshType, StoppedOK
  <1>2. TypeInv
    BY <1>1, EmptyTypes, BoundsAssumption DEF Init, TypeInv
  <1>3. SnapsOK
    <2>1. \A c \in Convertor : \A i \in Layers(c) :
            Chain(c, i) \in Names /\ Image[c][i] \in Names
      BY ChainType, ImageType DEF Names
    <2> QED
      BY <2>1 DEF Init, SnapsOK
  <1>4. RowsOK
    BY ChainType DEF Init, RowsOK
  <1>5. RegistryOK /\ ImagesOK
    BY DEF Init, RegistryOK, ImagesOK
  <1> QED
    BY <1>1, <1>2, <1>3, <1>4, <1>5 DEF IInv, CommandsOK

\* The step of one command: the others find their blobs as they were.
CommandStep(c) ==
    /\ reproducible' = reproducible /\ collected' = collected
    /\ DOMAIN conv' = Convertor
    /\ \A d \in Convertor \ {c} : conv'[d] = conv[d]
    /\ \A r \in Repos : pushed[r] \subseteq pushed'[r]
    /\ IsCommand(conv'[c])
    /\ CommandOK(reproducible, c, conv'[c], pushed'[Repo[c]])

\* All commands are in order after the step of one.
LEMMA CommandsStep ==
  ASSUME IInv, NEW c \in Convertor, CommandStep(c)
  PROVE  CommandsOK' /\ \A d \in Convertor : IsCommand(conv'[d])
  <1>1. ASSUME NEW d \in Convertor, d # c
        PROVE  /\ IsCommand(conv'[d])
               /\ CommandOK(reproducible', d, conv'[d], pushed'[Repo[d]])
    <2>1. /\ conv'[d] = conv[d] /\ IsCommand(conv[d]) /\ reproducible' = reproducible
          /\ CommandOK(reproducible, d, conv[d], pushed[Repo[d]])
      BY <1>1 DEF CommandStep, IInv, TypeInv, CommandsOK
    <2>3. pushed[Repo[d]] \subseteq pushed'[Repo[d]]
      BY ImageType DEF CommandStep
    <2> QED
      BY <2>1, <2>3, CommandFrame
  <1>2. /\ IsCommand(conv'[c])
        /\ CommandOK(reproducible', c, conv'[c], pushed'[Repo[c]])
    BY DEF CommandStep
  <1> QED
    BY <1>1, <1>2 DEF CommandsOK

\* Blobs and snapshots that are added leave rows and images as they were.
LEMMA WorldFrame ==
  ASSUME IInv, NEW c \in Convertor, CommandStep(c)
  PROVE  /\ rows' = rows => RowsOK'
         /\ images' = images => ImagesOK'
         /\ snaps' = snaps => SnapsOK'
         /\ UNCHANGED <<registry, pushed>> => RegistryOK'
  <1>1. rows' = rows => RowsOK'
    BY DEF IInv, RowsOK, CommandStep
  <1>2. images' = images => ImagesOK'
    <2>1. \A im \in images : Repo[im.conv] \in Repos
      BY ImageType DEF IInv, ImagesOK
    <2> QED
      BY <2>1 DEF IInv, ImagesOK, CommandStep
  <1>3. snaps' = snaps => SnapsOK'
    BY DEF IInv, SnapsOK, CommandStep
  <1> QED
    BY <1>1, <1>2, <1>3 DEF IInv, RegistryOK

\* A step of a command that changes nothing but the command.
LEMMA AsideStep ==
  ASSUME IInv, NEW c \in Convertor, CommandStep(c), UNCHANGED world,
         faults' \in 0 .. MaxFaults
  PROVE  IInv'
  <1>1. CommandsOK' /\ \A d \in Convertor : IsCommand(conv'[d])
    BY CommandsStep
  <1>2. RowsOK' /\ ImagesOK' /\ SnapsOK' /\ RegistryOK'
    BY WorldFrame DEF world
  <1>3. TypeInv'
    BY <1>1 DEF TypeInv, IInv, CommandStep, world
  <1> QED
    BY <1>1, <1>2, <1>3 DEF IInv

\* A blob more in the repository.
LEMMA PushStep ==
  ASSUME IInv, NEW c \in Convertor, CommandStep(c), NEW b \in Blobs,
         registry' = [registry EXCEPT ![Repo[c]] = @ \cup {b}],
         pushed' = [pushed EXCEPT ![Repo[c]] = @ \cup {b}],
         UNCHANGED <<snaps, rows, images, lost, faults>>
  PROVE  IInv'
  <1>1. CommandsOK' /\ \A d \in Convertor : IsCommand(conv'[d])
    BY CommandsStep
  <1>2. RowsOK' /\ ImagesOK' /\ SnapsOK'
    BY WorldFrame
  <1>3. registry' \in [Repos -> SUBSET Blobs] /\ pushed' \in [Repos -> SUBSET Blobs]
    BY ImageType DEF IInv, TypeInv
  <1>4. RegistryOK'
    BY DEF IInv, TypeInv, RegistryOK
  <1>5. TypeInv'
    BY <1>1, <1>3 DEF IInv, TypeInv, CommandStep
  <1> QED
    BY <1>1, <1>2, <1>4, <1>5 DEF IInv

\* Another row for the chain, or none.
LEMMA RowStep ==
  ASSUME IInv, NEW c \in Convertor, CommandStep(c), NEW b \in Blobs,
         conv[c].idx \in Layers(c), Insert(Repo[c], ChainOf(c), b),
         b # <<>> => /\ Conversion(reproducible, b, c, conv[c].idx)
                     /\ b \in pushed[Repo[c]],
         UNCHANGED <<snaps, registry, pushed, images, lost, faults>>
  PROVE  IInv'
  <1>1. CommandsOK' /\ \A d \in Convertor : IsCommand(conv'[d])
    BY CommandsStep
  <1>2. ImagesOK' /\ SnapsOK' /\ RegistryOK'
    BY WorldFrame
  <1>3. /\ Repo[c] \in Repos /\ ChainOf(c) \in Chains
        /\ rows \in [Repos -> [Chains -> Blobs]]
        /\ rows' = [rows EXCEPT ![Repo[c]][ChainOf(c)] = b]
    BY ImageType, ChainType DEF IInv, TypeInv, Insert, ChainOf
  <1>4. rows' \in [Repos -> [Chains -> Blobs]]
    BY <1>3
  <1>5. ASSUME NEW r \in Repos, NEW d \in Convertor, NEW i \in Layers(d),
               rows'[r][Chain(d, i)] # <<>>
        PROVE  /\ Conversion(reproducible, rows'[r][Chain(d, i)], d, i)
               /\ rows'[r][Chain(d, i)] \in pushed[r]
    <2>1. Chain(d, i) \in Chains
      BY ChainType
    <2>2. CASE r = Repo[c] /\ Chain(d, i) = ChainOf(c)
      <3>1. rows'[r][Chain(d, i)] = b
        BY <1>3, <2>1, <2>2
      <3>2. Conversion(reproducible, b, d, i)
        BY <1>5, <2>2, <3>1, ConversionOfChain DEF ChainOf
      <3> QED
        BY <1>5, <2>2, <3>1, <3>2
    <2>3. CASE ~(r = Repo[c] /\ Chain(d, i) = ChainOf(c))
      <3>1. rows'[r][Chain(d, i)] = rows[r][Chain(d, i)]
        BY <1>3, <2>1, <2>3
      <3> QED
        BY <1>5, <3>1 DEF IInv, RowsOK
    <2> QED
      BY <2>2, <2>3
  <1>6. RowsOK'
    BY <1>5 DEF RowsOK, CommandStep
  <1>7. TypeInv'
    BY <1>1, <1>4 DEF IInv, TypeInv, CommandStep
  <1> QED
    BY <1>1, <1>2, <1>6, <1>7 DEF IInv

\* Another snapshot, by either name.  A layer is committed under its own name, so
\* it must be clear what lies below it.
LEMMA SnapStep ==
  ASSUME LayersHaveOneChain, IInv, NEW c \in Convertor, CommandStep(c),
         conv[c].idx \in Layers(c),
         NEW n \in {ChainOf(c), LayerOf(c)}, NEW st,
         StackOf(reproducible, st, c, conv[c].idx),
         snaps' = [snaps EXCEPT ![Host[c]][n] = st],
         UNCHANGED <<rows, registry, pushed, images, lost, faults>>
  PROVE  IInv'
  <1>1. CommandsOK' /\ \A d \in Convertor : IsCommand(conv'[d])
    BY CommandsStep
  <1>2. ImagesOK' /\ RowsOK' /\ RegistryOK'
    BY WorldFrame
  <1>3. /\ Host[c] \in Hosts /\ n \in Names /\ st \in Seq(Blobs)
        /\ snaps \in [Hosts -> [Names -> Seq(Blobs)]]
        /\ ChainOf(c) \in Chains /\ LayerOf(c) \in Layer
    <2>1. ChainOf(c) \in Chains /\ LayerOf(c) \in Layer
      BY ImageType, ChainType DEF ChainOf, LayerOf
    <2>2. n \in Names
      BY <2>1 DEF Names
    <2>3. Host[c] \in Hosts /\ st \in Seq(Blobs)
      BY ImageType DEF StackOf
    <2>4. snaps \in [Hosts -> [Names -> Seq(Blobs)]]
      BY DEF IInv, TypeInv
    <2> QED
      BY <2>1, <2>2, <2>3, <2>4
  <1>4. snaps' \in [Hosts -> [Names -> Seq(Blobs)]]
    BY <1>3
  <1>5. ASSUME NEW h \in Hosts, NEW d \in Convertor, NEW i \in Layers(d),
               NEW m \in {Chain(d, i), Image[d][i]}, snaps'[h][m] # <<>>
        PROVE  StackOf(reproducible, snaps'[h][m], d, i)
    <2>1. /\ m \in Names /\ Chain(d, i) \in Chains /\ Image[d][i] \in Layer
      BY ChainType, ImageType DEF Names
    <2>2. CASE h = Host[c] /\ m = n
      <3>1. snaps'[h][m] = st
        BY <1>3, <2>1, <2>2
      <3>2. Chain(c, conv[c].idx) = Chain(d, i)
        <4>1. CASE n = ChainOf(c)
          <5>1. m # Image[d][i]
            BY <1>3, <2>1, <2>2, <4>1, NamesAssumption
          <5> QED
            BY <2>2, <4>1, <5>1 DEF ChainOf
        <4>2. CASE n = LayerOf(c)
          <5>1. m # Chain(d, i)
            BY <1>3, <2>1, <2>2, <4>2, NamesAssumption
          <5>2. Image[c][conv[c].idx] = Image[d][i]
            BY <2>2, <4>2, <5>1 DEF LayerOf
          <5>3. conv[c].idx \in DOMAIN Image[c] /\ i \in DOMAIN Image[d]
            BY ImageType
          <5> QED
            BY <5>2, <5>3 DEF LayersHaveOneChain
        <4> QED
          BY <4>1, <4>2
      <3> QED
        BY <3>1, <3>2, ConversionOfChain
    <2>3. CASE ~(h = Host[c] /\ m = n)
      <3>1. snaps'[h][m] = snaps[h][m]
        BY <1>3, <2>1, <2>3
      <3> QED
        BY <1>5, <3>1 DEF IInv, SnapsOK
    <2> QED
      BY <2>2, <2>3
  <1>6. SnapsOK'
    BY <1>5 DEF SnapsOK, CommandStep
  <1>7. TypeInv'
    BY <1>1, <1>4 DEF IInv, TypeInv, CommandStep
  <1> QED
    BY <1>1, <1>2, <1>6, <1>7 DEF IInv

-----------------------------------------------------------------------------
(* The steps of a command.                                                 *)

\* The lookup of a layer, as far as it changes nothing but the command.
LEMMA LookAside ==
  ASSUME IInv, NEW c \in Convertor,
         \/ FindRow(c) \/ FetchFound(c) \/ QueryRows(c) \/ NotFoundRemote(c)
         \/ LookupFails(c) \/ RecordFails(c)
         \/ \E q \in conv[c].rest : MountFails(c, q)
  PROVE  IInv'
  <1> DEFINE r == conv[c]
             s == conv'[c]
  <1>0. /\ IsCommand(r) /\ DOMAIN conv = Convertor /\ DOMAIN r = Fields
        /\ CommandOK(reproducible, c, r, pushed[Repo[c]])
        /\ Host[c] \in Hosts /\ Repo[c] \in Repos /\ r.idx \in Layers(c)
    BY ImageType DEF IInv, TypeInv, CommandsOK, IsCommand, CommandOK
  <1>1. /\ UNCHANGED <<world, reproducible>> /\ faults' \in 0 .. MaxFaults
    BY BoundsAssumption DEF FindRow, FetchFound, QueryRows, LookupFails, RecordFails,
       MountFails, NotFoundRemote, IInv, TypeInv
  <1>2. /\ DOMAIN conv' = Convertor /\ \A d \in Convertor \ {c} : conv'[d] = conv[d]
        /\ DOMAIN s = Fields /\ r.stage \in Looking /\ s.stage \in Looking \cup {"apply"}
        /\ s.idx = r.idx /\ s.mode = r.mode /\ s.run = r.run
        /\ s.parent = r.parent /\ s.layers = r.layers /\ s.exports = r.exports
        /\ s.cancelled = r.cancelled
    BY <1>0 DEF FindRow, FetchFound, QueryRows, LookupFails, RecordFails, MountFails,
       NotFoundRemote, At, Goto, Looking, Fields
  <1>3. FoundOK(reproducible, c, s, pushed[Repo[c]]) /\ s.found \in Blobs
        /\ s.rest \in Candidates
    <2>1. /\ FoundOK(reproducible, c, r, pushed[Repo[c]]) /\ r.found \in Blobs
          /\ r.rest \in Candidates
      BY <1>0 DEF CommandOK, IsCommand
    <2>2. \A q \in Repos : /\ rows[q][ChainOf(c)] \in Blobs
                           /\ rows[q][ChainOf(c)] # <<>> =>
                                /\ Conversion(reproducible, rows[q][ChainOf(c)], c, r.idx)
                                /\ rows[q][ChainOf(c)] \in pushed[q]
      BY <1>0, ChainType DEF IInv, TypeInv, RowsOK, ChainOf
    <2>3. CASE FindRow(c)
      <3>1. /\ s.found = Row(c) /\ s.rest = r.rest
            /\ s.stage = IF Row(c) = <<>> THEN "query" ELSE "fetch"
        BY <1>0, <2>3 DEF FindRow, Fields
      <3> QED
        BY <1>0, <1>2, <2>1, <2>2, <3>1 DEF FoundOK, Row
    <2>4. CASE FetchFound(c)
      <3>1. /\ s.found = r.found /\ s.rest = r.rest /\ r.stage = "fetch"
            /\ s.stage \in {"prepare", "delete"}
        BY <1>0, <2>4 DEF FetchFound, Goto, At, Fields
      <3> QED
        BY <1>2, <2>1, <3>1 DEF FoundOK
    <2>5. CASE QueryRows(c)
      <3>1. /\ s.found = r.found /\ s.stage = "mount"
            /\ s.rest = {<<q, rows[q][ChainOf(c)]>> :
                             q \in {x \in Repos : rows[x][ChainOf(c)] # <<>>}}
        BY <1>0, <2>5 DEF QueryRows, Fields
      <3>2. s.rest \in Candidates
        BY <2>2, <3>1 DEF Candidates
      <3>3. \A q \in s.rest : Conversion(reproducible, q[2], c, r.idx)
        BY <2>2, <3>1
      <3> QED
        BY <1>2, <2>1, <3>1, <3>2, <3>3 DEF FoundOK
    <2>6. CASE LookupFails(c) \/ RecordFails(c) \/ NotFoundRemote(c)
      <3>1. /\ s.found = r.found /\ s.rest = r.rest
            /\ s.stage \in {"query", "mount", "apply"}
        BY <1>0, <2>6 DEF LookupFails, RecordFails, NotFoundRemote, Goto, Fields
      <3> QED
        BY <1>2, <2>1, <3>1 DEF FoundOK
    <2>7. CASE \E q \in r.rest : MountFails(c, q)
      <3>1. /\ s.found = r.found /\ s.rest \subseteq r.rest /\ s.stage = "mount"
        BY <1>0, <2>7 DEF MountFails, At, Fields
      <3> QED
        BY <1>2, <2>1, <3>1 DEF FoundOK, Candidates
    <2> QED
      BY <2>3, <2>4, <2>5, <2>6, <2>7
  <1>4. IsCommand(s)
    <2>1. s.stage \in Stages
      BY <1>2 DEF Stages, Loop, Looking
    <2> QED
      BY <1>0, <1>2, <1>3, <2>1 DEF IsCommand
  <1>5. CommandOK(reproducible, c, s, pushed[Repo[c]])
    BY <1>0, <1>2, <1>3, LookingOK
  <1>6. CommandStep(c)
    BY <1>1, <1>2, <1>4, <1>5 DEF CommandStep, world
  <1> QED
    BY <1>1, <1>6, AsideStep

\* A command that begins, or stops.
LEMMA Turns ==
  ASSUME IInv, NEW c \in Convertor,
         Convert(c) \/ SnapshotGone(c) \/ LoopCancelled(c) \/ Fail(c)
  PROVE  IInv'
  <1> DEFINE r == conv[c]
             s == conv'[c]
  <1>0. IsCommand(r) /\ DOMAIN conv = Convertor /\ r.run \in 0 .. MaxRuns
    BY DEF IInv, TypeInv, IsCommand
  <1>1. /\ UNCHANGED <<world, reproducible>> /\ faults' \in 0 .. MaxFaults
    <2>1. faults \in 0 .. MaxFaults /\ MaxFaults \in Nat
      BY BoundsAssumption DEF IInv, TypeInv
    <2>2. CASE Convert(c)
      BY <2>1, <2>2 DEF Convert
    <2>3. CASE LoopCancelled(c) \/ SnapshotGone(c)
      BY <2>1, <2>3 DEF LoopCancelled, SnapshotGone
    <2>4. CASE Fail(c)
      BY <2>1, <2>4 DEF Fail
    <2> QED
      BY <2>2, <2>3, <2>4
  <1>2. \E x : conv' = [conv EXCEPT ![c] = x]
    BY DEF Convert, SnapshotGone, LoopCancelled, Fail, Stop
  <1>3. DOMAIN conv' = Convertor /\ \A d \in Convertor \ {c} : conv'[d] = conv[d]
    BY <1>0, <1>2
  <1>4. /\ IsCommand(s)
        /\ CommandOK(reproducible, c, s, pushed[Repo[c]])
    <2>1. CASE Convert(c)
      <3>1. PICK m \in Modes[c] :
              conv' = [conv EXCEPT ![c] =
                  [Idle EXCEPT !.stage = FirstStage(m), !.run = r.run + 1, !.mode = m,
                               !.layers = [i \in DOMAIN Image[c] |-> <<>>]]]
        BY <2>1 DEF Convert
      <3>2. s = [Idle EXCEPT !.stage = FirstStage(m), !.run = r.run + 1, !.mode = m,
                             !.layers = [i \in DOMAIN Image[c] |-> <<>>]]
        BY <1>0, <3>1
      <3>3. m \in {"local", "remote"} /\ r.run + 1 \in 0 .. MaxRuns
        <4>1. r.run < MaxRuns
          BY <2>1 DEF Convert
        <4>2. m \in {"local", "remote"}
          BY ModesAssumption
        <4> QED
          BY <1>0, <4>1, <4>2, BoundsAssumption
      <3>4. Fresh(s) /\ s.stage = FirstStage(s.mode) /\ Len(s.layers) = Len(Image[c])
        <4> DEFINE next == r.run + 1
                   cmd == s
        <4>1. next \in 0 .. MaxRuns /\ m \in {"local", "remote"}
          BY <3>3
        <4>2. cmd = [Idle EXCEPT !.stage = FirstStage(m), !.run = next, !.mode = m,
                                 !.layers = [i \in DOMAIN Image[c] |-> <<>>]]
          BY <3>2
        <4> HIDE DEF next, cmd
        <4>3. /\ Fresh(cmd) /\ cmd.stage = FirstStage(cmd.mode)
              /\ Len(cmd.layers) = Len(Image[c])
          BY <4>1, <4>2, BegunFresh, Zenon
        <4> QED
          BY <4>3 DEF cmd
      <3> QED
        BY <3>4, FreshType, BegunOK
    <2>2. CASE SnapshotGone(c) \/ LoopCancelled(c) \/ Fail(c)
      <3>1. conv' = [conv EXCEPT ![c] = [Idle EXCEPT !.stage = "failed", !.run = r.run]]
        BY <2>2 DEF SnapshotGone, LoopCancelled, Fail, Stop
      <3>2. s = [Idle EXCEPT !.stage = "failed", !.run = r.run]
        BY <1>0, <3>1
      <3>3. r.run \in 0 .. MaxRuns
        BY <1>0 DEF IsCommand
      <3>4. Fresh(s) /\ s.stage \in Ended
        BY <3>2, <3>3, StoppedFresh
      <3> QED
        BY <3>4, FreshType, StoppedOK
    <2> QED
      BY <2>1, <2>2
  <1>5. CommandStep(c)
    BY <1>1, <1>3, <1>4 DEF CommandStep, world
  <1> QED
    BY <1>1, <1>5, AsideStep

\* What is known of the command that takes a step.
LEMMA CommandFacts ==
  ASSUME IInv, NEW c \in Convertor
  PROVE  /\ IsCommand(conv[c]) /\ DOMAIN conv = Convertor /\ DOMAIN conv[c] = Fields
         /\ CommandOK(reproducible, c, conv[c], pushed[Repo[c]])
         /\ Host[c] \in Hosts /\ Repo[c] \in Repos /\ conv[c].idx \in Layers(c)
         /\ snaps \in [Hosts -> [Names -> Seq(Blobs)]]
         /\ pushed \in [Repos -> SUBSET Blobs]
  BY ImageType DEF IInv, TypeInv, CommandsOK, IsCommand, CommandOK

\* A candidate is mounted, or is not there.
LEMMA MountStep ==
  ASSUME IInv, NEW c \in Convertor, NEW q \in conv[c].rest, MountFrom(c, q)
  PROVE  IInv'
  <1> DEFINE r == conv[c]
             s == conv'[c]
             has == q[2] \in registry[q[1]] \cup registry[Repo[c]]
  <1>0. /\ IsCommand(r) /\ DOMAIN conv = Convertor /\ DOMAIN r = Fields
        /\ CommandOK(reproducible, c, r, pushed[Repo[c]])
        /\ Host[c] \in Hosts /\ Repo[c] \in Repos /\ r.idx \in Layers(c)
        /\ pushed \in [Repos -> SUBSET Blobs]
    BY CommandFacts
  <1>1. UNCHANGED <<snaps, collected, rows, images, lost, reproducible, faults>>
    BY DEF MountFrom
  <1>2. /\ DOMAIN conv' = Convertor /\ \A d \in Convertor \ {c} : conv'[d] = conv[d]
        /\ DOMAIN s = Fields /\ r.stage = "mount"
        /\ s.stage = (IF has THEN "record" ELSE "mount")
        /\ s.idx = r.idx /\ s.mode = r.mode /\ s.run = r.run
        /\ s.parent = r.parent /\ s.layers = r.layers /\ s.exports = r.exports
        /\ s.cancelled = r.cancelled
        /\ s.found = q[2] /\ s.rest = r.rest \ {q}
    BY <1>0 DEF MountFrom, At, Fields
  <1>3. q[2] \in Blobs /\ s.rest \in Candidates /\ Conversion(reproducible, q[2], c, r.idx)
    BY <1>0, <1>2 DEF IsCommand, Candidates, CommandOK, FoundOK
  <1>4. IsCommand(s)
    <2>1. s.stage \in Stages
      BY <1>2 DEF Stages, Loop
    <2> QED
      BY <1>0, <1>2, <1>3, <2>1 DEF IsCommand
  <1>5. ASSUME NEW P, pushed[Repo[c]] \subseteq P, has => q[2] \in P
        PROVE  CommandOK(reproducible, c, s, P)
    <2>1. CommandOK(reproducible, c, r, P)
      BY <1>0, <1>5, CommandFrame
    <2>2. q[2] # <<>>
      BY <1>0, <1>3, EmptySeq DEF Conversion, Layers
    <2>3. FoundOK(reproducible, c, s, P)
      BY <1>0, <1>2, <1>3, <1>5, <2>2 DEF CommandOK, FoundOK
    <2>4. r.stage \in Looking /\ s.stage \in Looking
      BY <1>2 DEF Looking
    <2> QED
      BY <1>2, <2>1, <2>3, <2>4, LookingOK
  <1>6. CASE has
    <2>1. /\ registry' = [registry EXCEPT ![Repo[c]] = @ \cup {q[2]}]
          /\ pushed' = [pushed EXCEPT ![Repo[c]] = @ \cup {q[2]}]
      BY <1>6 DEF MountFrom
    <2>2. /\ pushed'[Repo[c]] = pushed[Repo[c]] \cup {q[2]}
          /\ \A x \in Repos : pushed[x] \subseteq pushed'[x]
      BY <1>0, <2>1
    <2>3. CommandOK(reproducible, c, s, pushed'[Repo[c]])
      BY <1>5, <2>2
    <2>4. CommandStep(c)
      BY <1>1, <1>2, <1>4, <2>2, <2>3 DEF CommandStep
    <2> QED
      BY <1>1, <1>3, <2>1, <2>4, PushStep
  <1>7. CASE ~has
    <2>1. UNCHANGED <<registry, pushed>>
      BY <1>7 DEF MountFrom
    <2>2. CommandOK(reproducible, c, s, pushed[Repo[c]])
      BY <1>5, <1>7
    <2>3. CommandStep(c)
      BY <1>1, <1>2, <1>4, <2>1, <2>2 DEF CommandStep
    <2>4. UNCHANGED world /\ faults' \in 0 .. MaxFaults
      BY <1>1, <2>1 DEF world, IInv, TypeInv
    <2> QED
      BY <2>3, <2>4, AsideStep
  <1> QED
    BY <1>6, <1>7

\* A row is deleted, or that of a mounted blob inserted.
LEMMA LookupRows ==
  ASSUME IInv, NEW c \in Convertor, DeleteRow(c) \/ RecordMount(c)
  PROVE  IInv'
  <1> DEFINE r == conv[c]
             s == conv'[c]
  <1>0. /\ IsCommand(r) /\ DOMAIN conv = Convertor /\ DOMAIN r = Fields
        /\ CommandOK(reproducible, c, r, pushed[Repo[c]])
        /\ Host[c] \in Hosts /\ Repo[c] \in Repos /\ r.idx \in Layers(c)
    BY CommandFacts
  <1>1. UNCHANGED <<snaps, collected, registry, pushed, images, lost, reproducible, faults>>
    BY DEF DeleteRow, RecordMount
  <1>2. /\ DOMAIN conv' = Convertor /\ \A d \in Convertor \ {c} : conv'[d] = conv[d]
        /\ DOMAIN s = Fields
        /\ \/ r.stage = "delete" /\ s.stage = "query"
           \/ r.stage = "record" /\ s.stage \in {"prepare", "mount"}
        /\ s.idx = r.idx /\ s.mode = r.mode /\ s.run = r.run
        /\ s.parent = r.parent /\ s.layers = r.layers /\ s.exports = r.exports
        /\ s.cancelled = r.cancelled /\ s.found = r.found /\ s.rest = r.rest
    BY <1>0 DEF DeleteRow, RecordMount, At, Goto, Fields
  <1>3. IsCommand(s)
    <2>1. s.stage \in Stages
      BY <1>2 DEF Stages, Loop
    <2> QED
      BY <1>0, <1>2, <2>1 DEF IsCommand
  <1>4. CommandOK(reproducible, c, s, pushed[Repo[c]])
    <2>1. FoundOK(reproducible, c, s, pushed[Repo[c]])
      BY <1>0, <1>2 DEF CommandOK, FoundOK
    <2>2. r.stage \in Looking /\ s.stage \in Looking
      BY <1>2 DEF Looking
    <2> QED
      BY <1>0, <1>2, <2>1, <2>2, LookingOK
  <1>5. CommandStep(c)
    BY <1>1, <1>2, <1>3, <1>4 DEF CommandStep
  <1>6. CASE DeleteRow(c)
    <2>1. Insert(Repo[c], ChainOf(c), <<>>)
      BY <1>6 DEF DeleteRow
    <2> QED
      BY <1>0, <1>1, <1>5, <2>1, EmptyTypes, RowStep
  <1>7. CASE RecordMount(c) /\ Row(c) = <<>>
    <2>1. Insert(Repo[c], ChainOf(c), r.found) /\ r.stage = "record"
      BY <1>7 DEF RecordMount, At
    <2>2. /\ r.found \in Blobs /\ r.found \in pushed[Repo[c]]
          /\ Conversion(reproducible, r.found, c, r.idx)
      BY <1>0, <2>1 DEF CommandOK, FoundOK, IsCommand
    <2> QED
      BY <1>0, <1>1, <1>5, <2>1, <2>2, RowStep
  <1>8. CASE RecordMount(c) /\ Row(c) # <<>>
    <2>1. UNCHANGED world /\ faults' \in 0 .. MaxFaults
      BY <1>1, <1>8 DEF RecordMount, world, IInv, TypeInv
    <2> QED
      BY <1>5, <2>1, AsideStep
  <1> QED
    BY <1>6, <1>7, <1>8

\* If the parent of a command is there, it holds the layers before: what is named for
\* them holds them, whoever made it and when.
LEMMA ParentStack ==
  ASSUME IInv, NEW c \in Convertor, conv[c].stage \in Loop, ParentThere(c)
  PROVE  StackOf(reproducible, Parent(c), c, Depth(conv[c]))
  <1> DEFINE d == Depth(conv[c])
  <1>1. NamedFor(c, conv[c].parent, d)
    BY CommandFacts DEF CommandOK, ParentOK
  <1>2. conv[c].idx \in Layers(c) /\ Host[c] \in Hosts
    BY CommandFacts
  <1>3. CASE d = 0
    <2>1. Parent(c) = <<>>
      BY <1>1, <1>3 DEF NamedFor, Parent
    <2>2. StackOf(reproducible, <<>>, c, 0)
      BY EmptySeq DEF StackOf
    <2> QED
      BY <1>3, <2>1, <2>2
  <1>4. CASE d # 0
    <2>1. d \in Layers(c)
      BY <1>2, <1>4, ImageType DEF Depth, Layers
    <2>2. conv[c].parent \in {Chain(c, d), Image[c][d]}
      BY <1>1, <1>4 DEF NamedFor
    <2>3. conv[c].parent # None
      BY <2>1, <2>2, ChainType, ImageType, NoneAssumption DEF Names
    <2>4. Parent(c) = snaps[Host[c]][conv[c].parent] /\ Parent(c) # <<>>
      BY <2>3 DEF Parent, ParentThere, Snapshot
    <2> QED
      BY <1>2, <2>1, <2>2, <2>4 DEF IInv, SnapsOK
  <1> QED
    BY <1>3, <1>4

\* Where the next snapshot of a command comes from: the one of that name, or a new
\* one on its parent.
TakeSnapshot(c, n, b) ==
    snaps' = IF Snapshot(c, n) # <<>> THEN snaps
             ELSE [snaps EXCEPT ![Host[c]][n] = Append(Parent(c), b)]

SnapshotTaken(c, n, b) ==
    \/ snaps' = snaps
    \/ /\ snaps' = [snaps EXCEPT ![Host[c]][n] = Append(Parent(c), b)]
       /\ StackOf(reproducible, Append(Parent(c), b), c, conv[c].idx)

\* A new one is made over the parent, and holds the layers of the chain then.
LEMMA NextSnapshot ==
  ASSUME IInv, NEW c \in Convertor,
         NEW n \in {ChainOf(c), LayerOf(c)}, NEW b,
         conv[c].stage \in {"prepare", "apply"},
         Snapshot(c, n) # <<>> \/ ParentThere(c),
         Conversion(reproducible, b, c, conv[c].idx), TakeSnapshot(c, n, b)
  PROVE  SnapshotTaken(c, n, b)
  <1>1. CASE Snapshot(c, n) # <<>>
    BY <1>1 DEF TakeSnapshot, SnapshotTaken
  <1>2. CASE Snapshot(c, n) = <<>>
    <2>1. snaps' = [snaps EXCEPT ![Host[c]][n] = Append(Parent(c), b)]
      BY <1>2 DEF TakeSnapshot
    <2>2. Depth(conv[c]) = conv[c].idx - 1 /\ conv[c].stage \in Loop
      BY DEF Depth, Loop
    <2>3. StackOf(reproducible, Parent(c), c, conv[c].idx - 1)
      BY <1>2, <2>2, ParentStack
    <2>4. StackOf(reproducible, Append(Parent(c), b), c, conv[c].idx)
      BY <2>3, CommandFacts, StackAppend
    <2> QED
      BY <2>1, <2>4 DEF SnapshotTaken
  <1> QED
    BY <1>1, <1>2

\* A step of a command that may add a snapshot and changes nothing else.
LEMMA SnapOrNot ==
  ASSUME LayersHaveOneChain, IInv, NEW c \in Convertor, CommandStep(c),
         NEW n \in {ChainOf(c), LayerOf(c)}, NEW b, SnapshotTaken(c, n, b),
         UNCHANGED <<collected, registry, pushed, rows, images, lost, faults>>
  PROVE  IInv'
  <1>1. CASE snaps' = snaps
    <2>1. UNCHANGED world /\ faults' \in 0 .. MaxFaults
      BY <1>1 DEF world, IInv, TypeInv
    <2> QED
      BY <2>1, AsideStep
  <1>2. CASE /\ snaps' = [snaps EXCEPT ![Host[c]][n] = Append(Parent(c), b)]
             /\ StackOf(reproducible, Append(Parent(c), b), c, conv[c].idx)
    <2>1. conv[c].idx \in Layers(c)
      BY CommandFacts
    <2> QED
      BY <1>2, <2>1, SnapStep
  <1> QED
    BY <1>1, <1>2 DEF SnapshotTaken

\* The snapshot of a layer that was found.
LEMMA PrepareStep ==
  ASSUME LayersHaveOneChain, IInv, NEW c \in Convertor, PrepareRemote(c)
  PROVE  IInv'
  <1> DEFINE r == conv[c]
             n == ChainOf(c)
             q == [r EXCEPT !.parent = n, !.layers[r.idx] = r.found]
             P == pushed[Repo[c]]
  <1>0. /\ IsCommand(r) /\ DOMAIN conv = Convertor /\ DOMAIN r = Fields
        /\ CommandOK(reproducible, c, r, P)
        /\ Host[c] \in Hosts /\ r.idx \in Layers(c)
        /\ snaps \in [Hosts -> [Names -> Seq(Blobs)]]
    BY CommandFacts
  <1>1. /\ r.stage = "prepare"
        /\ UNCHANGED <<collected, registry, pushed, rows, images, lost, reproducible,
                       faults>>
        /\ TakeSnapshot(c, n, r.found)
        /\ Snapshot(c, n) # <<>> \/ ParentThere(c)
        /\ conv' = [conv EXCEPT ![c] = AfterLayer(q, c)]
    BY DEF PrepareRemote, At, TakeSnapshot
  <1>2. /\ r.found \in Blobs /\ Conversion(reproducible, r.found, c, r.idx)
        /\ r.found \in P /\ r.mode = "remote" /\ Known(r) = r.idx - 1
        /\ LayersOK(reproducible, c, r, P, r.idx - 1)
    BY <1>0, <1>1 DEF CommandOK, FoundOK, IsCommand, RemoteStages, Loop, Ended, Known
  <1>3. SnapshotTaken(c, n, r.found)
    BY <1>1, <1>2, NextSnapshot
  <1>4. /\ DOMAIN q = Fields /\ q.parent = n /\ q.layers = [r.layers EXCEPT ![r.idx] = r.found]
        /\ q.stage = r.stage /\ q.run = r.run /\ q.mode = r.mode /\ q.idx = r.idx
        /\ q.found = r.found /\ q.rest = r.rest /\ q.exports = r.exports
        /\ q.cancelled = r.cancelled
    BY <1>0 DEF Fields
  <1>5. /\ q.layers \in Seq(Blobs) /\ Len(q.layers) = Len(Image[c])
        /\ \A j \in Layers(c) : q.layers[j] = IF j = r.idx THEN r.found ELSE r.layers[j]
    <2>1. r.layers \in Seq(Blobs) /\ Len(r.layers) = Len(Image[c])
      BY <1>0, <1>2 DEF IsCommand, LayersOK
    <2> QED
      BY <1>0, <1>2, <1>4, <2>1, ExceptSeq DEF Layers
  <1>6. IsCommand(q)
    <2> HIDE DEF q
    <2> QED
      BY <1>0, <1>4, <1>5, ChainType DEF IsCommand, ChainOf, Names
  <1>7. LayersOK(reproducible, c, q, P, q.idx)
    <2>1. r.exports = {} /\ ~r.cancelled
      BY <1>2 DEF LayersOK
    <2>2. ASSUME NEW j \in 1 .. r.idx
          PROVE  Conversion(reproducible, q.layers[j], c, j) /\ q.layers[j] \in P
      <3>1. j \in Layers(c)
        BY <1>0, ImageType DEF Layers
      <3>2. CASE j = r.idx
        BY <1>2, <1>5, <3>1, <3>2
      <3>3. CASE j # r.idx
        <4>1. j \in (1 .. (r.idx - 1)) \ r.exports
          BY <1>0, <2>1, <3>3 DEF Layers
        <4> QED
          BY <1>2, <1>5, <2>1, <3>1, <3>3, <4>1 DEF LayersOK
      <3> QED
        BY <3>2, <3>3
    <2> QED
      BY <1>4, <1>5, <2>1, <2>2 DEF LayersOK
  <1>9. /\ IsCommand(AfterLayer(q, c))
        /\ CommandOK(reproducible, c, AfterLayer(q, c), P)
    <2>1. q.idx \in Layers(c) /\ q.parent = n /\ q.idx = r.idx
      BY <1>0, <1>4
    <2> HIDE DEF q
    <2>2. NamedFor(c, q.parent, q.idx)
      BY <1>0, <2>1 DEF NamedFor, ChainOf, Layers
    <2> QED
      BY <1>6, <1>7, <2>1, <2>2, AfterLayerOK
  <1>10. /\ DOMAIN conv' = Convertor /\ \A d \in Convertor \ {c} : conv'[d] = conv[d]
         /\ conv'[c] = AfterLayer(q, c)
    <2> HIDE DEF q
    <2> QED
      BY <1>0, <1>1
  <1>11. CommandStep(c)
    <2> HIDE DEF q
    <2>1. IsCommand(conv'[c]) /\ CommandOK(reproducible, c, conv'[c], P)
      BY <1>9, <1>10
    <2> QED
      BY <1>1, <1>10, <2>1 DEF CommandStep
  <1> QED
    BY <1>1, <1>3, <1>11, SnapOrNot

\* The snapshot of a layer that is built, which is pushed next or exported beside.
LEMMA ApplyStep ==
  ASSUME LayersHaveOneChain, IInv, NEW c \in Convertor, ApplyLayer(c)
  PROVE  IInv'
  <1> DEFINE r == conv[c]
             n == LayerOf(c)
             b == Built(Parent(c), n, Host[c])
             next == [r EXCEPT !.parent = n]
             q == [next EXCEPT !.exports = @ \cup {next.idx}]
             s == conv'[c]
             P == pushed[Repo[c]]
  <1>0. /\ IsCommand(r) /\ DOMAIN conv = Convertor /\ DOMAIN r = Fields
        /\ CommandOK(reproducible, c, r, P)
        /\ Host[c] \in Hosts /\ r.idx \in Layers(c)
        /\ snaps \in [Hosts -> [Names -> Seq(Blobs)]]
    BY CommandFacts
  <1>1. /\ r.stage = "apply"
        /\ UNCHANGED <<collected, registry, pushed, rows, images, lost, reproducible,
                       faults>>
        /\ TakeSnapshot(c, n, b) /\ ParentThere(c)
        /\ conv' = [conv EXCEPT ![c] =
                      IF next.mode = "remote" THEN [next EXCEPT !.stage = "push"]
                      ELSE AfterLayer(q, c)]
    BY DEF ApplyLayer, At, TakeSnapshot
  <1>2. /\ Known(r) = r.idx - 1 /\ Depth(r) = r.idx - 1
        /\ LayersOK(reproducible, c, r, P, r.idx - 1)
        /\ FoundOK(reproducible, c, r, P)
        /\ StackOf(reproducible, Parent(c), c, r.idx - 1)
    <2>1. Known(r) = r.idx - 1 /\ Depth(r) = r.idx - 1 /\ r.stage \in Loop
          /\ r.stage \notin Ended
      BY <1>1 DEF Known, Depth, Loop, Ended
    <2> QED
      BY <1>0, <1>1, <2>1, ParentStack DEF CommandOK
  <1>3. Conversion(reproducible, b, c, r.idx)
    BY <1>0, <1>2, BuiltConverts DEF IInv, TypeInv, LayerOf
  <1>4. SnapshotTaken(c, n, b)
    BY <1>1, <1>3, NextSnapshot
  <1>6. /\ DOMAIN next = Fields /\ next.parent = n /\ next.stage = r.stage
        /\ next.run = r.run /\ next.mode = r.mode /\ next.idx = r.idx
        /\ next.found = r.found /\ next.rest = r.rest /\ next.layers = r.layers
        /\ next.exports = r.exports /\ next.cancelled = r.cancelled
    BY <1>0 DEF Fields
  <1>7. IsCommand(next)
    <2> HIDE DEF next
    <2> QED
      BY <1>0, <1>6, ImageType DEF IsCommand, LayerOf, Names
  <1>8. NamedFor(c, n, r.idx)
    BY <1>0 DEF NamedFor, LayerOf, Layers
  <1>9. /\ DOMAIN conv' = Convertor /\ \A d \in Convertor \ {c} : conv'[d] = conv[d]
        /\ s = IF next.mode = "remote" THEN [next EXCEPT !.stage = "push"]
               ELSE AfterLayer(q, c)
    <2> HIDE DEF next, q
    <2> QED
      BY <1>0, <1>1
  <1>10. IsCommand(s) /\ CommandOK(reproducible, c, s, P)
    <2>1. CASE r.mode = "remote"
      <3> HIDE DEF next
      <3>1. /\ s.stage = "push" /\ s.parent = n /\ s.run = r.run /\ s.mode = r.mode
            /\ s.idx = r.idx /\ s.found = r.found /\ s.rest = r.rest
            /\ s.layers = r.layers /\ s.exports = r.exports
            /\ s.cancelled = r.cancelled /\ DOMAIN s = Fields
        BY <1>6, <1>9, <2>1 DEF Fields
      <3>2. IsCommand(s)
        <4>1. s.stage \in Stages
          BY <3>1 DEF Stages, Loop
        <4> QED
          BY <1>6, <1>7, <3>1, <4>1 DEF IsCommand
      <3>3. Depth(s) = r.idx /\ Known(s) = r.idx - 1
        BY <3>1 DEF Depth, Known
      <3>4. ParentOK(c, s)
        BY <1>8, <3>1, <3>3 DEF ParentOK
      <3>5. FoundOK(reproducible, c, s, P)
        BY <1>2, <3>1 DEF FoundOK
      <3>6. LayersOK(reproducible, c, s, P, Known(s))
        BY <1>2, <3>1, <3>3 DEF LayersOK
      <3> QED
        BY <1>0, <2>1, <3>1, <3>2, <3>4, <3>5, <3>6 DEF CommandOK, Ended
    <2>2. CASE r.mode # "remote"
      <3>1. /\ DOMAIN q = Fields /\ q.parent = n /\ q.stage = r.stage
            /\ q.run = r.run /\ q.mode = r.mode /\ q.idx = r.idx
            /\ q.found = r.found /\ q.rest = r.rest /\ q.layers = r.layers
            /\ q.exports = r.exports \cup {r.idx} /\ q.cancelled = r.cancelled
        <4> HIDE DEF next
        <4> QED
          BY <1>6 DEF Fields
      <3> HIDE DEF q
      <3>2. IsCommand(q) /\ q.mode = "local"
        BY <1>0, <1>6, <1>7, <2>2, <3>1 DEF IsCommand
      <3>4. LayersOK(reproducible, c, q, P, q.idx)
        <4>1. r.idx \in Nat \ {0}
          BY <1>0 DEF Layers
        <4>2. \A i \in q.exports : i \in 1 .. q.idx
          <5>1. r.idx \in 1 .. r.idx /\ 1 .. (r.idx - 1) \subseteq 1 .. r.idx
            BY <4>1
          <5>2. \A i \in r.exports : i \in 1 .. (r.idx - 1)
            BY <1>2 DEF LayersOK
          <5> QED
            BY <3>1, <5>1, <5>2
        <4>3. \A i \in (1 .. q.idx) \ q.exports : i \in (1 .. (r.idx - 1)) \ r.exports
          BY <3>1, <4>1
        <4> QED
          BY <1>2, <3>1, <3>2, <4>2, <4>3 DEF LayersOK
      <3>6. /\ IsCommand(AfterLayer(q, c))
            /\ CommandOK(reproducible, c, AfterLayer(q, c), P)
        BY <1>0, <1>8, <3>1, <3>2, <3>4, AfterLayerOK
      <3>7. s = AfterLayer(q, c)
        BY <1>6, <1>9, <2>2
      <3> QED
        BY <3>6, <3>7
    <2> QED
      BY <2>1, <2>2
  <1>11. CommandStep(c)
    <2> HIDE DEF s
    <2>1. CommandOK(reproducible, c, conv'[c], P) /\ IsCommand(conv'[c])
      BY <1>10 DEF s
    <2> QED
      BY <1>1, <1>9, <2>1 DEF CommandStep
  <1> QED
    BY <1>1, <1>4, <1>11, SnapOrNot

\* The blob of a layer that was built reaches the repository.
LEMMA PushLayerStep ==
  ASSUME IInv, NEW c \in Convertor, PushLayer(c)
  PROVE  IInv'
  <1> DEFINE r == conv[c]
             b == Top(Parent(c))
             s == conv'[c]
             P == pushed'[Repo[c]]
  <1>0. /\ IsCommand(r) /\ DOMAIN conv = Convertor /\ DOMAIN r = Fields
        /\ CommandOK(reproducible, c, r, pushed[Repo[c]])
        /\ Repo[c] \in Repos /\ r.idx \in Layers(c)
        /\ pushed \in [Repos -> SUBSET Blobs]
    BY CommandFacts
  <1>1. /\ r.stage = "push" /\ ParentThere(c)
        /\ UNCHANGED <<snaps, collected, rows, images, lost, reproducible, faults>>
        /\ registry' = [registry EXCEPT ![Repo[c]] = @ \cup {b}]
        /\ pushed' = [pushed EXCEPT ![Repo[c]] = @ \cup {b}]
    BY DEF PushLayer, At
  <1>2. /\ DOMAIN conv' = Convertor /\ \A d \in Convertor \ {c} : conv'[d] = conv[d]
        /\ DOMAIN s = Fields /\ s.stage = "insert" /\ s.idx = r.idx /\ s.mode = r.mode
        /\ s.run = r.run /\ s.parent = r.parent /\ s.found = r.found /\ s.rest = r.rest
        /\ s.layers = [r.layers EXCEPT ![r.idx] = b] /\ s.exports = r.exports
        /\ s.cancelled = r.cancelled
    <2> HIDE DEF b
    <2>1. conv' = [conv EXCEPT ![c].stage = "insert", ![c].layers[r.idx] = b]
      BY DEF PushLayer, b
    <2> QED
      BY <1>0, <2>1 DEF Fields
  <1>3. /\ Known(r) = r.idx - 1 /\ Depth(r) = r.idx /\ Depth(s) = r.idx
        /\ Known(s) = r.idx
    BY <1>1, <1>2 DEF Known, Depth
  <1>4. StackOf(reproducible, Parent(c), c, r.idx)
    BY <1>1, <1>3, ParentStack DEF Loop
  <1>5. Conversion(reproducible, b, c, r.idx) /\ b \in Blobs
    BY <1>0, <1>4, TopElement DEF Conversion
  <1>6. P = pushed[Repo[c]] \cup {b} /\ \A x \in Repos : pushed[x] \subseteq pushed'[x]
    BY <1>0, <1>1
  <1>7. CommandOK(reproducible, c, r, P)
    BY <1>0, <1>6, CommandFrame
  <1> HIDE DEF b
  <1>8. /\ r.mode = "remote" /\ LayersOK(reproducible, c, r, P, r.idx - 1)
        /\ FoundOK(reproducible, c, r, P) /\ ParentOK(c, r)
    BY <1>1, <1>3, <1>7 DEF CommandOK, RemoteStages, Loop, Ended
  <1>9. /\ s.layers \in Seq(Blobs) /\ Len(s.layers) = Len(Image[c])
        /\ \A j \in Layers(c) : s.layers[j] = IF j = r.idx THEN b ELSE r.layers[j]
    <2>1. r.layers \in Seq(Blobs) /\ Len(r.layers) = Len(Image[c])
      BY <1>0, <1>8 DEF IsCommand, LayersOK
    <2> QED
      BY <1>0, <1>2, <1>5, <2>1, ExceptSeq DEF Layers
  <1>10. IsCommand(s)
    <2>1. s.stage \in Stages
      BY <1>2 DEF Stages, Loop
    <2> QED
      BY <1>0, <1>2, <1>9, <2>1 DEF IsCommand
  <1>11. LayersOK(reproducible, c, s, P, Known(s))
    <2>1. r.exports = {} /\ ~r.cancelled
      BY <1>8 DEF LayersOK
    <2>2. ASSUME NEW j \in 1 .. r.idx
          PROVE  Conversion(reproducible, s.layers[j], c, j) /\ s.layers[j] \in P
      <3>1. j \in Layers(c)
        BY <1>0, ImageType DEF Layers
      <3>2. CASE j = r.idx
        BY <1>5, <1>6, <1>9, <3>1, <3>2
      <3>3. CASE j # r.idx
        <4>1. j \in (1 .. (r.idx - 1)) \ r.exports
          BY <1>0, <2>1, <3>3 DEF Layers
        <4> QED
          BY <1>8, <1>9, <2>1, <3>1, <3>3, <4>1 DEF LayersOK
      <3> QED
        BY <3>2, <3>3
    <2> QED
      BY <1>2, <1>3, <1>9, <2>1, <2>2 DEF LayersOK
  <1>12. CommandOK(reproducible, c, s, P)
    <2>1. ParentOK(c, s)
      BY <1>1, <1>2, <1>3, <1>8 DEF ParentOK, Loop
    <2>2. FoundOK(reproducible, c, s, P)
      BY <1>2, <1>8 DEF FoundOK
    <2> QED
      BY <1>0, <1>2, <1>8, <1>11, <2>1, <2>2 DEF CommandOK, Ended
  <1>13. CommandStep(c)
    BY <1>1, <1>2, <1>6, <1>10, <1>12 DEF CommandStep
  <1> QED
    BY <1>1, <1>5, <1>13, PushStep

\* Its row is inserted, unless there is one.
LEMMA InsertStep ==
  ASSUME IInv, NEW c \in Convertor, InsertRow(c)
  PROVE  IInv'
  <1> DEFINE r == conv[c]
             s == conv'[c]
             b == r.layers[r.idx]
             P == pushed[Repo[c]]
  <1>0. /\ IsCommand(r) /\ DOMAIN conv = Convertor /\ DOMAIN r = Fields
        /\ CommandOK(reproducible, c, r, P)
        /\ Repo[c] \in Repos /\ r.idx \in Layers(c)
    BY CommandFacts
  <1>1. /\ r.stage = "insert"
        /\ UNCHANGED <<snaps, collected, registry, pushed, images, lost, reproducible,
                       faults>>
    BY DEF InsertRow, At
  <1>2. \E x : conv' = [conv EXCEPT ![c] = x]
    BY DEF InsertRow, Stop
  <1>3. DOMAIN conv' = Convertor /\ \A d \in Convertor \ {c} : conv'[d] = conv[d]
    BY <1>0, <1>2
  <1>4. /\ Known(r) = r.idx /\ Depth(r) = r.idx /\ r.mode = "remote"
        /\ LayersOK(reproducible, c, r, P, r.idx)
        /\ NamedFor(c, r.parent, r.idx)
        /\ ~r.cancelled
    BY <1>0, <1>1 DEF Known, Depth, CommandOK, ParentOK, LayersOK, RemoteStages, Loop, Ended
  <1>5. CASE Row(c) = <<>>
    <2>1. s = AfterLayer(r, c) /\ Insert(Repo[c], ChainOf(c), b)
      <3>1. conv' = [conv EXCEPT ![c] = AfterLayer(r, c)]
        BY <1>5 DEF InsertRow
      <3> QED
        BY <1>0, <1>5, <3>1 DEF InsertRow
    <2>2. IsCommand(s) /\ CommandOK(reproducible, c, s, P)
      BY <1>0, <1>4, <2>1, AfterLayerOK
    <2>3. CommandStep(c)
      BY <1>1, <1>3, <2>2 DEF CommandStep
    <2>4. /\ Conversion(reproducible, b, c, r.idx) /\ b \in P /\ b \in Blobs
      <3>1. r.idx \in (1 .. r.idx) \ r.exports
        BY <1>0, <1>4 DEF LayersOK, Layers
      <3> QED
        BY <1>4, <1>5, <3>1 DEF LayersOK, Conversion
    <2> QED
      BY <1>0, <1>1, <2>1, <2>3, <2>4, RowStep
  <1>6. CASE Row(c) # <<>>
    <2>1. conv' = [conv EXCEPT ![c] = [Idle EXCEPT !.stage = "failed", !.run = r.run]]
      BY <1>6 DEF InsertRow, Stop
    <2>2. s = [Idle EXCEPT !.stage = "failed", !.run = r.run] /\ r.run \in 0 .. MaxRuns
      BY <1>0, <2>1 DEF IsCommand
    <2>3. Fresh(s) /\ s.stage \in Ended
      BY <2>2, StoppedFresh
    <2>4. CommandStep(c)
      BY <1>1, <1>3, <2>3, FreshType, StoppedOK DEF CommandStep
    <2>5. UNCHANGED world /\ faults' \in 0 .. MaxFaults
      BY <1>1, <1>6 DEF InsertRow, world, IInv, TypeInv
    <2> QED
      BY <2>4, <2>5, AsideStep
  <1> QED
    BY <1>5, <1>6

\* An export ends, with its blob or without.
LEMMA ExportStep ==
  ASSUME IInv, NEW c \in Convertor, NEW i \in conv[c].exports,
         ExportLayer(c, i) \/ ExportFails(c, i)
  PROVE  IInv'
  <1> DEFINE r == conv[c]
             b == Top(Snapshot(c, Image[c][i]))
             s == conv'[c]
             P == pushed[Repo[c]]
  <1>0. /\ IsCommand(r) /\ DOMAIN conv = Convertor /\ DOMAIN r = Fields
        /\ CommandOK(reproducible, c, r, P) /\ r.idx \in Layers(c)
    BY CommandFacts
  <1>1. UNCHANGED <<world, reproducible>> /\ faults' \in 0 .. MaxFaults
    BY BoundsAssumption DEF ExportLayer, ExportFails, IInv, TypeInv
  <1>2. /\ r.stage \notin Ended \cup {"commit"} /\ Known(r) \in Nat
        /\ Known(r) <= Len(Image[c]) /\ Len(Image[c]) \in Nat
        /\ LayersOK(reproducible, c, r, P, Known(r))
    <2>1. r.idx \in Nat /\ 1 <= r.idx /\ r.idx <= Len(Image[c]) /\ Len(Image[c]) \in Nat
      BY <1>0, ImageType DEF Layers
    <2> QED
      BY <1>0, <2>1 DEF CommandOK, Known
  <1>3. i \in 1 .. Known(r) /\ i \in Layers(c) /\ r.mode = "local" /\ i \in Nat
    BY <1>2 DEF LayersOK, Layers
  <1>4. ASSUME ExportLayer(c, i) PROVE Conversion(reproducible, b, c, i) /\ b \in Blobs
    <2>1. snaps[Host[c]][Image[c][i]] # <<>> /\ Host[c] \in Hosts
      BY <1>4, CommandFacts DEF ExportLayer, Snapshot
    <2>2. StackOf(reproducible, snaps[Host[c]][Image[c][i]], c, i)
      BY <1>3, <2>1 DEF IInv, SnapsOK
    <2>3. Conversion(reproducible, b, c, i)
      BY <1>3, <2>2, TopElement DEF Snapshot
    <2> HIDE DEF b
    <2> QED
      BY <2>3 DEF Conversion
  <1> HIDE DEF b
  <1>5. /\ DOMAIN conv' = Convertor /\ \A d \in Convertor \ {c} : conv'[d] = conv[d]
        /\ DOMAIN s = Fields /\ s.stage = r.stage /\ s.idx = r.idx /\ s.mode = r.mode
        /\ s.run = r.run /\ s.parent = r.parent /\ s.found = r.found /\ s.rest = r.rest
        /\ s.exports = r.exports \ {i}
        /\ \/ /\ ExportLayer(c, i) /\ s.layers = [r.layers EXCEPT ![i] = b]
              /\ s.cancelled = r.cancelled
           \/ s.layers = r.layers /\ s.cancelled = TRUE
    <2>1. CASE ExportLayer(c, i)
      <3>1. conv' = [conv EXCEPT ![c].exports = @ \ {i}, ![c].layers[i] = b]
        BY <2>1 DEF ExportLayer, b
      <3> QED
        BY <1>0, <2>1, <3>1 DEF Fields
    <2>2. CASE ExportFails(c, i)
      <3>1. conv' = [conv EXCEPT ![c].exports = @ \ {i}, ![c].cancelled = TRUE]
        BY <2>2 DEF ExportFails
      <3> QED
        BY <1>0, <3>1 DEF Fields
    <2> QED
      BY <2>1, <2>2
  <1>6. /\ s.layers \in Seq(Blobs) /\ Len(s.layers) = Len(Image[c])
        /\ ~s.cancelled => /\ ~r.cancelled /\ ExportLayer(c, i)
                           /\ \A j \in Layers(c) :
                                 s.layers[j] = IF j = i THEN b ELSE r.layers[j]
    <2>1. r.layers \in Seq(Blobs) /\ Len(r.layers) = Len(Image[c])
      BY <1>0, <1>2 DEF IsCommand, LayersOK
    <2> QED
      BY <1>3, <1>4, <1>5, <2>1, ExceptSeq DEF Layers
  <1>7. IsCommand(s)
    <2>1. s.cancelled \in BOOLEAN
      BY <1>0, <1>5 DEF IsCommand
    <2> QED
      BY <1>0, <1>5, <1>6, <2>1 DEF IsCommand
  <1>8. LayersOK(reproducible, c, s, P, Known(r))
    <2>1. ASSUME ~s.cancelled, NEW j \in (1 .. Known(r)) \ s.exports
          PROVE  Conversion(reproducible, s.layers[j], c, j)
      <3>1. j \in Layers(c)
        BY <1>2 DEF Layers
      <3>2. CASE j = i
        BY <1>4, <1>6, <2>1, <3>1, <3>2
      <3>3. CASE j # i
        <4>1. j \in (1 .. Known(r)) \ r.exports
          BY <1>5, <3>3
        <4> QED
          BY <1>2, <1>6, <2>1, <3>1, <3>3, <4>1 DEF LayersOK
      <3> QED
        BY <3>2, <3>3
    <2> QED
      BY <1>2, <1>3, <1>5, <1>6, <2>1 DEF LayersOK
  <1>9. CommandOK(reproducible, c, s, P)
    <2>1. Known(s) = Known(r) /\ Depth(s) = Depth(r)
      BY <1>5 DEF Known, Depth
    <2>2. ParentOK(c, s) /\ FoundOK(reproducible, c, s, P)
      BY <1>0, <1>5, <2>1 DEF CommandOK, ParentOK, FoundOK
    <2> QED
      BY <1>0, <1>2, <1>5, <1>8, <2>1, <2>2 DEF CommandOK
  <1>10. CommandStep(c)
    BY <1>1, <1>5, <1>7, <1>9 DEF CommandStep, world
  <1> QED
    BY <1>1, <1>10, AsideStep

\* The exports are waited for.
LEMMA WaitStep ==
  ASSUME IInv, NEW c \in Convertor, Wait(c)
  PROVE  IInv'
  <1> DEFINE r == conv[c]
             s == conv'[c]
             P == pushed[Repo[c]]
  <1>0. /\ IsCommand(r) /\ DOMAIN conv = Convertor /\ DOMAIN r = Fields
        /\ CommandOK(reproducible, c, r, P)
    BY CommandFacts
  <1>1. /\ r.stage = "wait" /\ r.exports = {}
        /\ UNCHANGED <<world, reproducible>> /\ faults' \in 0 .. MaxFaults
    BY DEF Wait, At, IInv, TypeInv
  <1>2. CASE r.cancelled
    <2>1. conv' = [conv EXCEPT ![c] = [Idle EXCEPT !.stage = "failed", !.run = r.run]]
      BY <1>2 DEF Wait, Stop
    <2>2. s = [Idle EXCEPT !.stage = "failed", !.run = r.run] /\ r.run \in 0 .. MaxRuns
      BY <1>0, <2>1 DEF IsCommand
    <2>3. Fresh(s) /\ s.stage \in Ended
      BY <2>2, StoppedFresh
    <2>4. DOMAIN conv' = Convertor /\ \A d \in Convertor \ {c} : conv'[d] = conv[d]
      <3>1. \E x : conv' = [conv EXCEPT ![c] = x]
        BY <2>1
      <3> QED
        BY <1>0, <3>1
    <2>5. CommandStep(c)
      BY <1>1, <2>3, <2>4, FreshType, StoppedOK DEF CommandStep, world
    <2> QED
      BY <1>1, <2>5, AsideStep
  <1>3. CASE ~r.cancelled
    <2>1. /\ DOMAIN conv' = Convertor /\ \A d \in Convertor \ {c} : conv'[d] = conv[d]
          /\ DOMAIN s = Fields /\ s.stage = "commit" /\ s.idx = r.idx /\ s.mode = r.mode
          /\ s.run = r.run /\ s.parent = r.parent /\ s.found = r.found /\ s.rest = r.rest
          /\ s.exports = r.exports /\ s.layers = r.layers /\ s.cancelled = r.cancelled
      BY <1>0, <1>3 DEF Wait, Goto, Fields
    <2>2. IsCommand(s)
      <3>1. s.stage \in Stages
        BY <2>1 DEF Stages
      <3> QED
        BY <1>0, <2>1, <3>1 DEF IsCommand
    <2>3. Known(s) = Known(r)
      BY <1>1, <2>1 DEF Known
    <2>4. ParentOK(c, s) /\ FoundOK(reproducible, c, s, P)
      BY <1>0, <2>1 DEF CommandOK, ParentOK, FoundOK, Loop
    <2>5. LayersOK(reproducible, c, s, P, Known(s))
      BY <1>0, <1>1, <2>1, <2>3 DEF CommandOK, LayersOK, Ended
    <2>6. CommandOK(reproducible, c, s, P)
      BY <1>0, <1>1, <1>3, <2>1, <2>4, <2>5 DEF CommandOK, RemoteStages, Loop, Ended
    <2>7. CommandStep(c)
      BY <1>1, <2>1, <2>2, <2>6 DEF CommandStep, world
    <2> QED
      BY <1>1, <2>7, AsideStep
  <1> QED
    BY <1>2, <1>3

\* The image is made.
LEMMA CommitStep ==
  ASSUME IInv, NEW c \in Convertor, CommitImage(c)
  PROVE  IInv'
  <1> DEFINE r == conv[c]
             s == conv'[c]
             im == [conv |-> c, mode |-> r.mode, layers |-> r.layers]
             P == pushed[Repo[c]]
  <1>0. /\ IsCommand(r) /\ DOMAIN conv = Convertor
        /\ CommandOK(reproducible, c, r, P)
    BY CommandFacts
  <1>1. /\ r.stage = "commit"
        /\ UNCHANGED <<snaps, collected, registry, pushed, rows, lost, reproducible,
                       faults>>
        /\ images' = images \cup {im}
        /\ conv' = [conv EXCEPT ![c] = [Idle EXCEPT !.stage = "done", !.run = r.run]]
    BY DEF CommitImage, At
  <1>2. s = [Idle EXCEPT !.stage = "done", !.run = r.run] /\ r.run \in 0 .. MaxRuns
    BY <1>0, <1>1 DEF IsCommand
  <1>3. Fresh(s) /\ s.stage \in Ended
    BY <1>2, StoppedFresh
  <1>4. DOMAIN conv' = Convertor /\ \A d \in Convertor \ {c} : conv'[d] = conv[d]
    <2>1. \E x : conv' = [conv EXCEPT ![c] = x]
      BY <1>1
    <2> QED
      BY <1>0, <2>1
  <1>5. CommandStep(c)
    BY <1>1, <1>3, <1>4, FreshType, StoppedOK DEF CommandStep
  <1>6. /\ Len(r.layers) = Len(Image[c]) /\ r.layers \in Seq(Blobs)
        /\ \A i \in Layers(c) : /\ Conversion(reproducible, r.layers[i], c, i)
                                /\ r.mode = "remote" => r.layers[i] \in P
    <2>1. /\ LayersOK(reproducible, c, r, P, Len(Image[c])) /\ r.exports = {}
          /\ ~r.cancelled
      BY <1>0, <1>1 DEF CommandOK, Known, Ended
    <2> QED
      BY <1>0, <2>1 DEF LayersOK, IsCommand, Layers
  <1>7. CommandsOK' /\ \A d \in Convertor : IsCommand(conv'[d])
    BY <1>5, CommandsStep
  <1>8. RowsOK' /\ SnapsOK' /\ RegistryOK'
    BY <1>1, <1>5, WorldFrame
  <1>9. ImagesOK'
    <2>1. im.conv = c /\ im.mode = r.mode /\ im.layers = r.layers
      OBVIOUS
    <2> HIDE DEF im
    <2>2. ASSUME NEW x \in images'
          PROVE  /\ x.conv \in Convertor /\ Len(x.layers) = Len(Image[x.conv])
                 /\ x.layers \in Seq(Blobs)
                 /\ \A i \in Layers(x.conv) :
                     /\ Conversion(reproducible, x.layers[i], x.conv, i)
                     /\ x.mode = "remote" => x.layers[i] \in pushed[Repo[x.conv]]
      <3>1. CASE x \in images
        BY <3>1 DEF IInv, ImagesOK
      <3>2. CASE x = im
        BY <1>6, <2>1, <3>2
      <3> QED
        BY <1>1, <3>1, <3>2
    <2> QED
      BY <1>1, <2>2 DEF ImagesOK
  <1>10. TypeInv'
    BY <1>1, <1>4, <1>7 DEF IInv, TypeInv
  <1> QED
    BY <1>7, <1>8, <1>9, <1>10 DEF IInv

-----------------------------------------------------------------------------
(* The world around the commands.                                          *)

\* What the registry has lost, the repository has still had.
LEMMA LoseStep ==
  ASSUME IInv, NEW r \in Repos, NEW b \in registry[r], LoseBlob(r, b)
  PROVE  IInv'
  <1>1. /\ UNCHANGED <<snaps, collected, pushed, rows, images, conv, reproducible, faults>>
        /\ lost' = lost + 1 /\ lost < MaxLost
        /\ registry' = [registry EXCEPT ![r] = @ \ {b}]
    BY DEF LoseBlob
  <1>2. TypeInv'
    BY <1>1, BoundsAssumption DEF IInv, TypeInv
  <1>3. RegistryOK'
    BY <1>1 DEF IInv, TypeInv, RegistryOK
  <1>4. SnapsOK' /\ RowsOK' /\ ImagesOK' /\ CommandsOK'
    BY <1>1 DEF IInv, SnapsOK, RowsOK, ImagesOK, CommandsOK
  <1> QED
    BY <1>2, <1>3, <1>4 DEF IInv

\* Snapshots go at any time; a name still stands for what it is named for.
LEMMA CollectStep ==
  ASSUME IInv, NEW h \in Hosts, Collect(h)
  PROVE  IInv'
  <1>1. PICK gone \in SUBSET Names :
          snaps' = [snaps EXCEPT ![h] =
                      [n \in Names |-> IF n \in gone THEN <<>> ELSE snaps[h][n]]]
    BY DEF Collect
  <1>2. /\ UNCHANGED <<registry, pushed, rows, images, lost, conv, reproducible, faults>>
        /\ collected' = collected + 1 /\ collected < MaxCollect
    BY DEF Collect
  <1>3. ASSUME NEW g \in Hosts, NEW n \in Names
        PROVE  /\ snaps'[g][n] \in Seq(Blobs)
               /\ snaps'[g][n] # <<>> => snaps'[g][n] = snaps[g][n]
    <2>1. snaps[g][n] \in Seq(Blobs) /\ snaps \in [Hosts -> [Names -> Seq(Blobs)]]
      BY DEF IInv, TypeInv
    <2> QED
      BY <1>1, <2>1, EmptyTypes
  <1>4. snaps' \in [Hosts -> [Names -> Seq(Blobs)]]
    <2>1. [n \in Names |-> IF n \in gone THEN <<>> ELSE snaps[h][n]]
             \in [Names -> Seq(Blobs)]
      BY EmptyTypes DEF IInv, TypeInv
    <2> QED
      BY <1>1, <2>1 DEF IInv, TypeInv
  <1>5. TypeInv'
    BY <1>2, <1>4, BoundsAssumption DEF IInv, TypeInv
  <1>6. SnapsOK'
    <2>1. ASSUME NEW g \in Hosts, NEW c \in Convertor, NEW i \in Layers(c),
                 NEW n \in {Chain(c, i), Image[c][i]}, snaps'[g][n] # <<>>
          PROVE  StackOf(reproducible, snaps'[g][n], c, i)
      <3>1. n \in Names
        BY ChainType, ImageType DEF Names
      <3>2. snaps'[g][n] = snaps[g][n]
        BY <1>3, <2>1, <3>1
      <3> QED
        BY <2>1, <3>2 DEF IInv, SnapsOK
    <2> QED
      BY <1>2, <2>1 DEF SnapsOK
  <1>7. CommandsOK' /\ RowsOK' /\ RegistryOK' /\ ImagesOK'
    BY <1>2 DEF IInv, CommandsOK, RowsOK, RegistryOK, ImagesOK
  <1> QED
    BY <1>5, <1>6, <1>7 DEF IInv

\* Every step keeps the invariant, if a layer occurs above one chain only.
LEMMA Step == LayersHaveOneChain /\ IInv /\ [Next]_vars => IInv'
  <1> SUFFICES ASSUME LayersHaveOneChain, IInv, [Next]_vars PROVE IInv'
    OBVIOUS
  <1>1. ASSUME NEW c \in Convertor, Convert(c) PROVE IInv'
    BY <1>1, Turns
  <1>2. ASSUME NEW c \in Convertor, FindRemote(c) PROVE IInv'
    BY <1>2, LookAside, LookupRows, MountStep DEF FindRemote
  <1>3. ASSUME NEW c \in Convertor, ConvertLayers(c) PROVE IInv'
    BY <1>3, PrepareStep, ApplyStep, PushLayerStep, InsertStep, ExportStep, Turns,
       WaitStep, CommitStep DEF ConvertLayers
  <1>4. ASSUME NEW r \in Repos, NEW b \in registry[r], LoseBlob(r, b) PROVE IInv'
    BY <1>4, LoseStep
  <1>5. ASSUME NEW h \in Hosts, Collect(h) PROVE IInv'
    BY <1>5, CollectStep
  <1>6. CASE UNCHANGED vars
    <2>1. TypeInv' /\ SnapsOK' /\ RowsOK' /\ RegistryOK' /\ ImagesOK' /\ CommandsOK'
      BY <1>6 DEF vars, IInv, TypeInv, SnapsOK, RowsOK, RegistryOK, ImagesOK, CommandsOK
    <2> QED
      BY <2>1 DEF IInv
  <1> QED
    BY <1>1, <1>2, <1>3, <1>4, <1>5, <1>6 DEF Next

\* IInv holds throughout.
LEMMA Invariant ==
  ASSUME LayersHaveOneChain
  PROVE  Spec => []IInv
  <1>1. IInv /\ [Next]_vars => IInv'
    BY Step
  <1> QED
    BY <1>1, InitInv, PTL DEF Spec

-----------------------------------------------------------------------------
(* The theorems.                                                           *)

\* Every state of the conversions has the types of TypeOK, in particular the index of
\* the loop over the layers stays within the image; the collection of snapshots in
\* the middle of a command included.
THEOREM CommandTyping ==
  ASSUME LayersHaveOneChain
  PROVE  Spec => []TypeOK
  <1>1. IInv => TypeOK
    <2> SUFFICES ASSUME IInv PROVE TypeOK
      OBVIOUS
    <2>1. ASSUME NEW c \in Convertor
          PROVE  /\ conv[c].idx \in DOMAIN Image[c]
                 /\ conv[c].exports \subseteq DOMAIN Image[c]
      <3>1. /\ CommandOK(reproducible, c, conv[c], pushed[Repo[c]])
            /\ conv[c].idx \in Layers(c) /\ DOMAIN Image[c] = Layers(c)
        BY CommandFacts, ImageType
      <3>3. conv[c].exports \subseteq Layers(c)
        <4>1. conv[c].idx \in Nat /\ conv[c].idx <= Len(Image[c]) /\ Len(Image[c]) \in Nat
          BY <3>1, ImageType DEF Layers
        <4>2. Known(conv[c]) \in {conv[c].idx, conv[c].idx - 1}
          BY DEF Known
        <4>3. conv[c].exports \subseteq 1 .. Known(conv[c])
          BY <3>1 DEF CommandOK, LayersOK
        <4> QED
          BY <4>1, <4>2, <4>3 DEF Layers
      <3> QED
        BY <3>1, <3>3
    <2>2. \A c \in Convertor : IsCommand(conv[c])
      BY DEF IInv, TypeInv
    <2> QED
      BY <2>1, <2>2 DEF TypeOK, IInv, TypeInv, IsCommand, Candidates
  <1>2. Spec => []IInv
    BY Invariant
  <1> QED
    BY <1>1, <1>2, PTL

\* Rows are deleted, mounted and inserted by several commands, and name
\* conversions of their chains all the same, if a layer occurs above one chain only.
THEOREM RowsAreTrue ==
  ASSUME LayersHaveOneChain
  PROVE  Spec => []RowsNameTheirChain
  <1>1. IInv => RowsNameTheirChain
    <2> SUFFICES ASSUME IInv, NEW r \in Repos, NEW ch \in Chains, rows[r][ch] # <<>>
                 PROVE  SourceLayers(rows[r][ch]) = ch
      BY DEF RowsNameTheirChain
    <2>1. PICK c \in Convertor : \E i \in Layers(c) : ch = Chain(c, i)
      BY DEF Chains, Layers
    <2>2. PICK i \in Layers(c) : ch = Chain(c, i)
      BY <2>1
    <2>3. Conversion(reproducible, rows[r][ch], c, i)
      BY <2>2 DEF IInv, RowsOK
    <2> QED
      BY <2>2, <2>3, ConversionSource
  <1>2. Spec => []IInv
    BY Invariant
  <1> QED
    BY <1>1, <1>2, PTL

\* Whatever the registries lose and whichever calls fail, rows and images name
\* only blobs that were pushed to their repository.
THEOREM NamedArePushed ==
  ASSUME LayersHaveOneChain
  PROVE  Spec => []NamedBlobsWerePushed
  <1>1. IInv => NamedBlobsWerePushed
    <2> SUFFICES ASSUME IInv PROVE NamedBlobsWerePushed
      OBVIOUS
    <2>1. ASSUME NEW r \in Repos, NEW ch \in Chains, rows[r][ch] # <<>>
          PROVE  rows[r][ch] \in pushed[r]
      <3>1. PICK c \in Convertor : \E i \in Layers(c) : ch = Chain(c, i)
        BY DEF Chains, Layers
      <3> QED
        BY <2>1, <3>1 DEF IInv, RowsOK
    <2>2. ASSUME NEW im \in images, im.mode = "remote", NEW i \in DOMAIN im.layers
          PROVE  im.layers[i] \in pushed[Repo[im.conv]]
      <3>1. i \in Layers(im.conv)
        BY LenProperties DEF IInv, ImagesOK, Layers
      <3> QED
        BY <2>2, <3>1 DEF IInv, ImagesOK
    <2> QED
      BY <2>1, <2>2 DEF NamedBlobsWerePushed
  <1>2. Spec => []IInv
    BY Invariant
  <1> QED
    BY <1>1, <1>2, PTL

\* If the snapshot of the name that a command goes on from is there, it holds the
\* layers the command has converted, in order: nothing keeps it there, and it
\* may be one that another command made after the first one was collected.
THEOREM ParentsHoldTheLayers ==
  ASSUME LayersHaveOneChain
  PROVE  Spec => []StackedOnParent
  <1>1. IInv => StackedOnParent
    <2> SUFFICES ASSUME IInv, NEW c \in Convertor, conv[c].stage \in Loop, ParentThere(c)
                 PROVE  Converts(Parent(c), SubSeq(Image[c], 1, Depth(conv[c])))
      BY DEF StackedOnParent, Depth
    <2>1. StackOf(reproducible, Parent(c), c, Depth(conv[c]))
      BY ParentStack
    <2>2. Depth(conv[c]) \in 0 .. Len(Image[c])
      BY CommandFacts, ImageType DEF Depth, Layers
    <2> QED
      BY <2>1, <2>2, StackConverts
  <1>2. Spec => []IInv
    BY Invariant
  <1> QED
    BY <1>1, <1>2, PTL

\* An image that Convert returns is a conversion of its source, layer by layer, and
\* if conversions are reproducible each blob was made over the very blobs below
\* it, whoever made, found, mounted, lost and collected what in between.
THEOREM ImagesAreIntact ==
  ASSUME LayersHaveOneChain
  PROVE  Spec => []ImageIntact
  <1>1. IInv => ImageIntact
    <2> SUFFICES ASSUME IInv, NEW im \in images
                 PROVE  /\ Converts(im.layers, Image[im.conv])
                        /\ reproducible => Stacked(im.layers)
      BY DEF ImageIntact
    <2> DEFINE c == im.conv
    <2>1. /\ c \in Convertor /\ Len(im.layers) = Len(Image[c])
          /\ im.layers \in Seq(Blobs)
          /\ \A i \in Layers(c) : Conversion(reproducible, im.layers[i], c, i)
      BY DEF IInv, ImagesOK
    <2>2. StackOf(reproducible, im.layers, c, Len(Image[c]))
      BY <2>1 DEF StackOf, Layers
    <2>3. Converts(im.layers, Image[c])
      <3>1. SubSeq(Image[c], 1, Len(Image[c])) = Image[c]
        BY <2>1, ImageType, SubSeqFull
      <3>2. Len(Image[c]) \in 0 .. Len(Image[c])
        BY <2>1, ImageType
      <3> QED
        BY <2>1, <2>2, <3>1, <3>2, StackConverts
    <2>4. reproducible => Stacked(im.layers)
      <3>1. reproducible => reproducible = TRUE
        BY DEF IInv, TypeInv
      <3> QED
        BY <2>1, <2>2, <3>1, StackIsStacked
    <2> QED
      BY <2>3, <2>4
  <1>2. Spec => []IInv
    BY Invariant
  <1> QED
    BY <1>1, <1>2, PTL
=============================================================================
