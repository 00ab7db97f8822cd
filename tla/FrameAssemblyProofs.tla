------------------------ MODULE FrameAssemblyProofs ------------------------
(***************************************************************************)
(* Proofs about FrameAssembly, for streams of every length and every order *)
(* in which their chunks are handled.                                      *)
(***************************************************************************)
EXTENDS FrameAssembly, FiniteSetTheorems, TLAPS

\* What is stored is what was sent: each chunk lies at its position, and the
\* boundaries known are the boundaries of the stream among the chunks stored.
StoredIsSent ==
  /\ DOMAIN received \subseteq DOMAIN stream
  /\ \A p \in DOMAIN received : received[p] = Payload(p)
  /\ boundaries = {p \in DOMAIN received : stream[p] \in Boundary}

\* The last frame dealt with is never ahead of the window.
LastFrameBehind ==
  IF window = NoWindow THEN lastFrame = -1 ELSE lastFrame <= window[1]

\* The invariant the safety properties follow from.
AssemblyInv ==
  /\ AssemblyTypeOK
  /\ IsFiniteSet(boundaries)
  /\ WindowNewest
  /\ MissingExact
  /\ CompleteIsPublished
  /\ StoredIsSent
  /\ LastFrameBehind
  /\ LatestIsFrame

----------------------------------------------------------------------------
\* A finite set of at most one element has no two different ones.
LEMMA AtMostOne ==
  ASSUME NEW S, IsFiniteSet(S), Cardinality(S) <= 1, NEW b \in S, NEW c \in S
  PROVE  b = c
<1> SUFFICES ASSUME b # c PROVE FALSE
  OBVIOUS
<1>1. Cardinality({b, c}) = 2
  <2>1. IsFiniteSet({b}) /\ Cardinality({b}) = 1
    BY FS_Singleton
  <2>2. Cardinality({b} \cup {c}) = 2
    BY <2>1, c \notin {b}, FS_AddElement
  <2>3. QED
    BY <2>2, {b, c} = {b} \cup {c}
<1>2. Cardinality({b, c}) <= Cardinality(S)
  BY {b, c} \subseteq S, FS_Subset
<1>3. Cardinality(S) \in Nat
  BY FS_CardinalityType
<1>4. QED
  BY <1>1, <1>2, <1>3

\* Before anything has arrived the invariant holds.
LEMMA InitEstablishes == AssemblyInit => AssemblyInv
<1> SUFFICES ASSUME AssemblyInit PROVE AssemblyInv
  OBVIOUS
<1>1. AssemblyTypeOK
  <2>1. stream \in [0..(0 - 1) -> Kinds] /\ 0 \in 0..MaxChunks
    BY BoundAssumption DEF AssemblyInit, NoChunks
  <2>2. QED
    BY <2>1 DEF AssemblyInit, AssemblyTypeOK, NoChunks
<1>2. IsFiniteSet(boundaries)
  BY FS_EmptySet DEF AssemblyInit
<1>3. QED
  BY <1>1, <1>2 DEF AssemblyInit, AssemblyInv, WindowNewest, MissingExact,
     CompleteIsPublished, StoredIsSent, LastFrameBehind, LatestIsFrame, NoChunks

\* The camera adds a chunk: nothing stored or shown is affected.
LEMMA ProducePreserves ==
  ASSUME AssemblyInv, NEW n \in 0..MaxChunks, NEW k \in Kinds, Produce(n, k)
  PROVE  AssemblyInv'
<1>1. /\ stream' \in [0..((n + 1) - 1) -> Kinds]
      /\ n + 1 \in 0..MaxChunks
      /\ DOMAIN stream = 0..(n - 1)
      /\ DOMAIN stream' = 0..n
      /\ \A p \in DOMAIN stream : p \in DOMAIN stream' /\ stream'[p] = stream[p]
  BY BoundAssumption DEF Produce, AssemblyInv, AssemblyTypeOK
<1>2. UNCHANGED <<received, boundaries, lastFrame, window, missing, latest>>
  BY DEF Produce, assemblyVars
<1>3. \A p \in DOMAIN stream : Payload(p)' = Payload(p)
  BY <1>1 DEF Payload
<1>4. AssemblyTypeOK'
  BY <1>1, <1>2 DEF AssemblyInv, AssemblyTypeOK
<1>5. StoredIsSent'
  <2>1. DOMAIN received \subseteq DOMAIN stream'
    BY <1>1 DEF AssemblyInv, StoredIsSent
  <2>2. \A p \in DOMAIN received : received[p] = Payload(p)'
    BY <1>3 DEF AssemblyInv, StoredIsSent
  <2>3. boundaries = {p \in DOMAIN received : stream'[p] \in Boundary}
    BY <1>1 DEF AssemblyInv, StoredIsSent
  <2>4. QED
    BY <2>1, <2>2, <2>3, <1>2 DEF StoredIsSent
<1>6. LatestIsFrame'
  <2>1. CASE latest = NoFrame
    BY <2>1, <1>2 DEF LatestIsFrame
  <2>2. CASE latest # NoFrame
    <3>1. PICK a, b \in DOMAIN stream :
            /\ a < b
            /\ \A p \in a..b : stream[p] \in Boundary <=> p \in {a, b}
            /\ latest = [idx |-> a, data |-> [p \in a..(b - 1) |-> Payload(p)]]
      BY <2>2 DEF AssemblyInv, LatestIsFrame
    <3>2. \A p \in a..b : p \in DOMAIN stream
      BY <1>1, <3>1
    <3>3. a \in DOMAIN stream' /\ b \in DOMAIN stream'
      BY <1>1
    <3>4. \A p \in a..b : stream'[p] \in Boundary <=> p \in {a, b}
      BY <3>1, <3>2, <1>1
    <3>5. \A p \in a..(b - 1) : Payload(p)' = Payload(p)
      BY <3>2, <1>3, <1>1
    <3>6. latest' = [idx |-> a, data |-> [p \in a..(b - 1) |-> Payload(p)']]
      BY <3>1, <3>5, <1>2
    <3>7. QED
      BY <3>1, <3>3, <3>4, <3>6 DEF LatestIsFrame
  <2>3. QED
    BY <2>1, <2>2
<1>7. /\ IsFiniteSet(boundaries)' /\ WindowNewest' /\ MissingExact'
      /\ CompleteIsPublished' /\ LastFrameBehind'
  BY <1>2 DEF AssemblyInv, WindowNewest, MissingExact, CompleteIsPublished, LastFrameBehind
<1>8. QED
  BY <1>4, <1>5, <1>6, <1>7 DEF AssemblyInv

\* stop_video forgets everything but the frame on show.
LEMMA ResetPreserves ==
  ASSUME AssemblyInv, ResetAssembly
  PROVE  AssemblyInv'
<1>1. AssemblyTypeOK'
  BY DEF ResetAssembly, AssemblyInv, AssemblyTypeOK, NoChunks
<1>2. IsFiniteSet(boundaries)'
  BY FS_EmptySet DEF ResetAssembly
<1>3. StoredIsSent'
  BY DEF ResetAssembly, StoredIsSent, NoChunks
<1>4. LatestIsFrame'
  BY DEF ResetAssembly, AssemblyInv, LatestIsFrame, Payload
<1>5. WindowNewest' /\ MissingExact' /\ CompleteIsPublished' /\ LastFrameBehind'
  BY DEF ResetAssembly, WindowNewest, MissingExact, CompleteIsPublished, LastFrameBehind
<1>6. QED
  BY <1>1, <1>2, <1>3, <1>4, <1>5 DEF AssemblyInv

----------------------------------------------------------------------------
\* The chunks and boundaries once chunk p is stored, before the frame is
\* looked at.
Stored(p) ==
  [i \in DOMAIN received \cup {p} |-> IF i = p THEN Payload(p) ELSE received[i]]
Bounds(p) == IF stream[p] \in Boundary THEN boundaries \cup {p} ELSE boundaries

\* Storing a chunk keeps what is stored true to the stream.
LEMMA StoringIsFaithful ==
  ASSUME AssemblyInv, NEW p \in DOMAIN stream
  PROVE  /\ DOMAIN Stored(p) = DOMAIN received \cup {p}
         /\ DOMAIN Stored(p) \subseteq DOMAIN stream
         /\ DOMAIN stream \subseteq Nat
         /\ \A i \in DOMAIN Stored(p) : Stored(p)[i] = Payload(i)
         /\ Bounds(p) = {i \in DOMAIN Stored(p) : stream[i] \in Boundary}
         /\ IsFiniteSet(Bounds(p))
<1>1. DOMAIN stream \subseteq Nat
  BY BoundAssumption DEF AssemblyInv, AssemblyTypeOK
<1>2. /\ DOMAIN Stored(p) = DOMAIN received \cup {p}
      /\ DOMAIN Stored(p) \subseteq DOMAIN stream
      /\ \A i \in DOMAIN Stored(p) : Stored(p)[i] = Payload(i)
  BY DEF AssemblyInv, StoredIsSent, Stored
<1>3. Bounds(p) = {i \in DOMAIN Stored(p) : stream[i] \in Boundary}
  BY <1>2 DEF AssemblyInv, StoredIsSent, Bounds
<1>4. IsFiniteSet(Bounds(p))
  BY FS_AddElement DEF AssemblyInv, Bounds
<1>5. QED
  BY <1>1, <1>2, <1>3, <1>4

\* A window whose gaps are all closed holds one whole frame of the stream.
LEMMA ClosedWindowIsFrame ==
  ASSUME AssemblyInv, NEW p \in DOMAIN stream, NEW lo, NEW hi,
         NewestTwo(lo, hi, Bounds(p)),
         \A i \in lo..(hi - 1) : i \in DOMAIN Stored(p)
  PROVE  /\ {lo, hi} \subseteq DOMAIN stream
         /\ \A i \in lo..hi : stream[i] \in Boundary <=> i \in {lo, hi}
         /\ \A i \in lo..(hi - 1) : Stored(p)[i] = Payload(i)
<1>1. /\ lo \in Nat /\ hi \in Nat /\ lo < hi
      /\ {lo, hi} \subseteq DOMAIN stream
      /\ stream[lo] \in Boundary /\ stream[hi] \in Boundary
  BY StoringIsFaithful DEF NewestTwo
<1>2. \A i \in lo..(hi - 1) : Stored(p)[i] = Payload(i)
  BY StoringIsFaithful
<1>3. ASSUME NEW i \in lo..hi, stream[i] \in Boundary
      PROVE  i \in {lo, hi}
  <2>1. CASE i = hi
    BY <2>1
  <2>2. CASE i # hi
    <3>1. i \in lo..(hi - 1)
      BY <1>1, <2>2
    <3>2. i \in Bounds(p)
      BY <3>1, <1>3, StoringIsFaithful
    <3>3. i <= lo
      BY <3>2, <2>2 DEF NewestTwo
    <3>4. QED
      BY <3>1, <3>3, <1>1
  <2>3. QED
    BY <2>1, <2>2
<1>4. QED
  BY <1>1, <1>2, <1>3

\* What a chunk does to the window when there are two boundaries.
LEMMA WindowStep ==
  ASSUME AssemblyInv, NEW p \in DOMAIN stream, NEW lo, NEW hi,
         NewestTwo(lo, hi, Bounds(p)),
         IF <<lo, hi>> # window THEN OpenWindow(lo, hi, Stored(p), Bounds(p))
                                ELSE FillWindow(p, Stored(p), Bounds(p))
  PROVE  /\ lo \in Nat /\ hi \in Nat /\ lo < hi /\ Bounds(p) \subseteq Nat
         /\ window' = <<lo, hi>> /\ window' # NoWindow
         /\ missing' = {i \in lo..(hi - 1) : i \notin DOMAIN Stored(p)}
         /\ DOMAIN received' \subseteq DOMAIN Stored(p)
         /\ \A i \in DOMAIN Stored(p) : i >= lo => i \in DOMAIN received'
         /\ \A i \in DOMAIN received' : received'[i] = Stored(p)[i]
         /\ boundaries' = {i \in DOMAIN received' : i \in Bounds(p)}
         /\ \A i \in Bounds(p) : i >= lo => i \in boundaries'
         /\ NewestTwo(lo, hi, boundaries')
         /\ lastFrame <= lo
<1> DEFINE rec == Stored(p)
           bnd == Bounds(p)
<1>0. /\ DOMAIN rec = DOMAIN received \cup {p}
      /\ DOMAIN rec \subseteq DOMAIN stream
      /\ DOMAIN stream \subseteq Nat
      /\ \A i \in DOMAIN rec : rec[i] = Payload(i)
      /\ bnd = {i \in DOMAIN rec : stream[i] \in Boundary}
      /\ IsFiniteSet(bnd)
  BY StoringIsFaithful
<1>a. /\ NewestTwo(lo, hi, bnd)
      /\ IF <<lo, hi>> # window THEN OpenWindow(lo, hi, rec, bnd)
                                ELSE FillWindow(p, rec, bnd)
  OBVIOUS
<1>b. boundaries \subseteq bnd
  BY DEF Bounds
<1> HIDE DEF rec, bnd
<1>1. lo \in Nat /\ hi \in Nat /\ lo < hi /\ bnd \subseteq Nat
  BY <1>0, <1>a DEF NewestTwo
<1>2. window' = <<lo, hi>> /\ window' # NoWindow
  BY <1>1, <1>a, NoWindowAssumption DEF OpenWindow, FillWindow
<1>3. missing' = {i \in lo..(hi - 1) : i \notin DOMAIN rec}
  <2>1. CASE <<lo, hi>> # window
    BY <1>a, <2>1 DEF OpenWindow
  <2>2. CASE <<lo, hi>> = window
    <3>1. window # NoWindow /\ window[1] = lo /\ window[2] = hi
      BY <2>2, <1>2
    <3>2. missing = {i \in lo..(hi - 1) : i \notin DOMAIN received}
      BY <3>1 DEF AssemblyInv, MissingExact
    <3>3. missing' = missing \ {p}
      BY <1>a, <2>2 DEF FillWindow
    <3>4. QED
      BY <3>2, <3>3, <1>0
  <2>3. QED
    BY <2>1, <2>2
<1>4. /\ DOMAIN received' \subseteq DOMAIN rec
      /\ \A i \in DOMAIN rec : i >= lo => i \in DOMAIN received'
      /\ \A i \in DOMAIN received' : received'[i] = rec[i]
      /\ boundaries' = {i \in DOMAIN received' : i \in bnd}
      /\ \A i \in bnd : i >= lo => i \in boundaries'
  <2>1. CASE <<lo, hi>> # window
    BY <1>0, <1>a, <2>1 DEF OpenWindow
  <2>2. CASE <<lo, hi>> = window
    BY <1>0, <1>a, <2>2 DEF FillWindow
  <2>3. QED
    BY <2>1, <2>2
<1>5. NewestTwo(lo, hi, boundaries')
  <2>1. lo >= lo /\ hi >= lo
    BY <1>1
  <2>2. lo \in boundaries' /\ hi \in boundaries' /\ boundaries' \subseteq bnd
    BY <2>1, <1>4, <1>a DEF NewestTwo
  <2>3. \A b \in bnd : b = hi \/ b <= lo
    BY <1>a DEF NewestTwo
  <2>4. QED
    BY <1>1, <2>2, <2>3 DEF NewestTwo
<1>6. lastFrame <= lo
  <2>1. CASE window = NoWindow
    BY <1>1, <2>1 DEF AssemblyInv, LastFrameBehind
  <2>2. CASE window # NoWindow
    <3>1. lastFrame <= window[1] /\ window[1] \in boundaries /\ window[2] \in boundaries
      BY <2>2 DEF AssemblyInv, LastFrameBehind, WindowNewest, NewestTwo
    <3>2. window[1] < window[2] /\ window[1] \in Nat /\ window[2] \in Nat
      BY <2>2 DEF AssemblyInv, AssemblyTypeOK, WindowNewest, NewestTwo
    <3>3. window[1] = hi \/ window[1] <= lo
      BY <1>a, <1>b, <3>1 DEF NewestTwo
    <3>4. window[2] = hi \/ window[2] <= lo
      BY <1>a, <1>b, <3>1 DEF NewestTwo
    <3>5. window[1] <= lo
      BY <1>1, <3>2, <3>3, <3>4
    <3>6. QED
      BY <1>1, <3>1, <3>2, <3>5 DEF AssemblyInv, AssemblyTypeOK
  <2>3. QED
    BY <2>1, <2>2
<1>7. QED
  BY <1>1, <1>2, <1>3, <1>4, <1>5, <1>6 DEF rec, bnd

\* Handling a chunk, whatever its position: the heart of the argument.
LEMMA HandleChunkPreserves ==
  ASSUME AssemblyInv, NEW p \in DOMAIN stream,
         HandleChunk(p, stream[p], Payload(p))
  PROVE  AssemblyInv'
<1> DEFINE rec == Stored(p)
           bnd == Bounds(p)
<1>1. UNCHANGED stream /\ ProcessFrame(p, rec, bnd)
  BY DEF HandleChunk, Stored, Bounds
<1>2. /\ DOMAIN rec = DOMAIN received \cup {p}
      /\ DOMAIN rec \subseteq DOMAIN stream
      /\ DOMAIN stream \subseteq Nat
      /\ \A i \in DOMAIN rec : rec[i] = Payload(i)
      /\ bnd = {i \in DOMAIN rec : stream[i] \in Boundary}
      /\ IsFiniteSet(bnd)
  BY StoringIsFaithful
<1>3. \A i \in DOMAIN rec : rec[i] \in Nat \cup {Empty}
  BY <1>2 DEF Payload
<1>4. \A i : Payload(i)' = Payload(i)
  BY <1>1 DEF Payload
<1>5. \E n \in 0..MaxChunks : stream' \in [0..(n - 1) -> Kinds]
  BY <1>1 DEF AssemblyInv, AssemblyTypeOK
<1> HIDE DEF rec, bnd
<1>6. CASE /\ Cardinality(bnd) <= 1
           /\ received' = rec
           /\ boundaries' = bnd
           /\ UNCHANGED <<lastFrame, window, missing, latest>>
  <2>1. \A b, c \in bnd : b = c
    BY <1>2, <1>6, AtMostOne
  <2>2. window = NoWindow
    <3>1. SUFFICES ASSUME window # NoWindow PROVE FALSE
      OBVIOUS
    <3>2. {window[1], window[2]} \subseteq boundaries /\ window[1] < window[2]
      BY <3>1 DEF AssemblyInv, WindowNewest, NewestTwo
    <3>3. boundaries \subseteq bnd
      BY DEF bnd, Bounds
    <3>4. window[1] = window[2] /\ window[1] \in Nat
      BY <2>1, <3>1, <3>2, <3>3 DEF AssemblyInv, AssemblyTypeOK
    <3>5. QED
      BY <3>2, <3>4
  <2>3. AssemblyTypeOK'
    BY <1>2, <1>3, <1>5, <1>6 DEF AssemblyInv, AssemblyTypeOK
  <2>4. StoredIsSent'
    BY <1>1, <1>2, <1>4, <1>6 DEF StoredIsSent
  <2>5. LatestIsFrame'
    BY <1>1, <1>4, <1>6 DEF AssemblyInv, LatestIsFrame
  <2>6. /\ WindowNewest' /\ MissingExact' /\ CompleteIsPublished'
        /\ LastFrameBehind' /\ IsFiniteSet(boundaries)'
    BY <1>2, <1>6, <2>1, <2>2
       DEF AssemblyInv, WindowNewest, MissingExact, CompleteIsPublished, LastFrameBehind
  <2>7. QED
    BY <2>3, <2>4, <2>5, <2>6 DEF AssemblyInv
<1>7. ASSUME NEW lo \in bnd, NEW hi \in bnd,
             NewestTwo(lo, hi, bnd),
             IF <<lo, hi>> # window THEN OpenWindow(lo, hi, rec, bnd)
                                    ELSE FillWindow(p, rec, bnd),
             IF lo # lastFrame /\ missing' = {} THEN Publish(lo, hi, received')
                                                ELSE UNCHANGED <<lastFrame, latest>>
      PROVE  AssemblyInv'
  <2>1. /\ lo \in Nat /\ hi \in Nat /\ lo < hi /\ bnd \subseteq Nat
        /\ window' = <<lo, hi>> /\ window' # NoWindow
        /\ missing' = {i \in lo..(hi - 1) : i \notin DOMAIN rec}
        /\ DOMAIN received' \subseteq DOMAIN rec
        /\ \A i \in DOMAIN rec : i >= lo => i \in DOMAIN received'
        /\ \A i \in DOMAIN received' : received'[i] = rec[i]
        /\ boundaries' = {i \in DOMAIN received' : i \in bnd}
        /\ \A i \in bnd : i >= lo => i \in boundaries'
        /\ NewestTwo(lo, hi, boundaries')
        /\ lastFrame <= lo
    BY <1>7, WindowStep DEF rec, bnd
  <2>2. WindowNewest'
    BY <2>1 DEF WindowNewest
  <2>3. MissingExact'
    <3>1. \A i \in lo..(hi - 1) : i \in DOMAIN rec <=> i \in DOMAIN received'
      BY <2>1
    <3>2. QED
      BY <2>1, <3>1 DEF MissingExact
  <2>4. CompleteIsPublished'
    BY <1>7, <2>1 DEF CompleteIsPublished, Publish
  <2>5. StoredIsSent'
    <3>1. \A i \in DOMAIN received' : received'[i] = Payload(i)'
      BY <1>2, <1>4, <2>1
    <3>2. boundaries' = {i \in DOMAIN received' : stream'[i] \in Boundary}
      BY <1>1, <1>2, <2>1
    <3>3. QED
      BY <1>1, <1>2, <2>1, <3>1, <3>2 DEF StoredIsSent
  <2>6. IsFiniteSet(boundaries)'
    BY <1>2, <2>1, FS_Subset
  <2>7. LatestIsFrame'
    <3>1. CASE latest' = latest
      BY <1>1, <1>4, <3>1 DEF AssemblyInv, LatestIsFrame
    <3>2. CASE latest' # latest
      <4>1. missing' = {} /\ latest' = [idx |-> lo, data |-> [i \in lo..(hi - 1) |-> received'[i]]]
        BY <1>7, <3>2 DEF Publish
      <4>2. \A i \in lo..(hi - 1) : i \in DOMAIN rec /\ i \in DOMAIN received'
        BY <2>1, <4>1
      <4>3. /\ {lo, hi} \subseteq DOMAIN stream
            /\ \A i \in lo..hi : stream[i] \in Boundary <=> i \in {lo, hi}
            /\ \A i \in lo..(hi - 1) : rec[i] = Payload(i)
        BY <1>7, <4>2, ClosedWindowIsFrame DEF rec, bnd
      <4>4. latest' = [idx |-> lo, data |-> [i \in lo..(hi - 1) |-> Payload(i)']]
        BY <1>4, <2>1, <4>1, <4>2, <4>3
      <4>5. QED
        BY <1>1, <2>1, <4>3, <4>4 DEF LatestIsFrame
    <3>3. QED
      BY <3>1, <3>2
  <2>8. AssemblyTypeOK'
    <3>1. lastFrame' \in Nat \cup {-1}
      BY <1>7, <2>1 DEF AssemblyInv, AssemblyTypeOK, Publish
    <3>2. latest' = NoFrame \/ latest'.idx \in Nat
      BY <1>7, <2>1 DEF AssemblyInv, AssemblyTypeOK, Publish
    <3>3. DOMAIN received' \subseteq Nat /\ \A i \in DOMAIN received' : received'[i] \in Nat \cup {Empty}
      BY <1>2, <1>3, <2>1
    <3>4. boundaries' \subseteq Nat /\ missing' \subseteq Nat /\ window' \in Nat \X Nat
      <4>1. boundaries' \subseteq Nat
        BY <2>1
      <4>2. lo..(hi - 1) \subseteq Nat
        BY <2>1
      <4>3. missing' \subseteq Nat
        BY <2>1, <4>2
      <4>4. window' \in Nat \X Nat
        BY <2>1
      <4>5. QED
        BY <4>1, <4>3, <4>4
    <3>5. QED
      BY <1>5, <3>1, <3>2, <3>3, <3>4 DEF AssemblyTypeOK
  <2>9. LastFrameBehind'
    BY <1>7, <2>1 DEF AssemblyInv, AssemblyTypeOK, LastFrameBehind, Publish
  <2>10. QED
    BY <2>2, <2>3, <2>4, <2>5, <2>6, <2>7, <2>8, <2>9 DEF AssemblyInv
<1>8. QED
  BY <1>1, <1>6, <1>7 DEF ProcessFrame

----------------------------------------------------------------------------
\* Every step keeps the invariant.
LEMMA StepPreserves == AssemblyInv /\ [AssemblyNext]_assemblyState => AssemblyInv'
<1> SUFFICES ASSUME AssemblyInv, [AssemblyNext]_assemblyState PROVE AssemblyInv'
  OBVIOUS
<1>1. ASSUME NEW n \in 0..MaxChunks, NEW k \in Kinds, Produce(n, k)
      PROVE  AssemblyInv'
  BY <1>1, ProducePreserves
<1>2. ASSUME NEW p \in DOMAIN stream, HandleChunk(p, stream[p], Payload(p))
      PROVE  AssemblyInv'
  BY <1>2, HandleChunkPreserves
<1>3. CASE ResetAssembly
  BY <1>3, ResetPreserves
<1>4. CASE UNCHANGED assemblyState
  BY <1>4 DEF assemblyState, AssemblyInv, AssemblyTypeOK, WindowNewest, MissingExact,
     CompleteIsPublished, StoredIsSent, LastFrameBehind, LatestIsFrame, Payload
<1>5. QED
  BY <1>1, <1>2, <1>3, <1>4 DEF AssemblyNext

\* The inductive invariant holds in every behaviour: however chunks are lost,
\* repeated and reordered, the assembly state of VideoQueueMixin describes the
\* chunks stored so far.
THEOREM AssemblyInvariant == AssemblySpec => []AssemblyInv
BY InitEstablishes, StepPreserves, PTL DEF AssemblySpec

\* The variables keep their shape.
THEOREM AssemblyTypeCorrect == AssemblySpec => []AssemblyTypeOK
BY AssemblyInvariant, PTL DEF AssemblyInv

\* The incremental gap set is at all times what a full rescan would give.
THEOREM MissingIsExact == AssemblySpec => []MissingExact
BY AssemblyInvariant, PTL DEF AssemblyInv

\* The window is at all times the two newest boundaries.
THEOREM WindowIsNewest == AssemblySpec => []WindowNewest
BY AssemblyInvariant, PTL DEF AssemblyInv

\* A window without gaps never waits to be published.
THEOREM NoCompleteWindowWaits == AssemblySpec => []CompleteIsPublished
BY AssemblyInvariant, PTL DEF AssemblyInv

\* Whatever is lost, repeated or out of order, the frame on show is one whole
\* frame of the camera's stream.
THEOREM ShownIsAFrame == AssemblySpec => []LatestIsFrame
BY AssemblyInvariant, PTL DEF AssemblyInv

----------------------------------------------------------------------------
\* Handling a chunk shows the next frame, or changes nothing a viewer sees.
LEMMA HandleChunkRefines ==
  ASSUME AssemblyInv, NEW p \in DOMAIN stream,
         HandleChunk(p, stream[p], Payload(p))
  PROVE  Frames!Next \/ UNCHANGED <<stream, latest, lastFrame>>
<1>1. UNCHANGED stream /\ ProcessFrame(p, Stored(p), Bounds(p))
  BY DEF HandleChunk, Stored, Bounds
<1>2. SUFFICES ASSUME NEW lo, NEW hi,
                      NewestTwo(lo, hi, Bounds(p)),
                      IF <<lo, hi>> # window
                        THEN OpenWindow(lo, hi, Stored(p), Bounds(p))
                        ELSE FillWindow(p, Stored(p), Bounds(p)),
                      lo # lastFrame, missing' = {}, Publish(lo, hi, received')
               PROVE  lo \in DOMAIN stream /\ hi \in DOMAIN stream /\ Frames!Show(lo, hi)
  BY <1>1 DEF ProcessFrame, Frames!Next
<1>3. /\ lo \in Nat /\ hi \in Nat /\ lo < hi
      /\ missing' = {i \in lo..(hi - 1) : i \notin DOMAIN Stored(p)}
      /\ \A i \in DOMAIN Stored(p) : i >= lo => i \in DOMAIN received'
      /\ \A i \in DOMAIN received' : received'[i] = Stored(p)[i]
      /\ lastFrame <= lo
  BY <1>2, WindowStep
<1>4. \A i \in lo..(hi - 1) : i \in DOMAIN Stored(p) /\ i \in DOMAIN received'
  BY <1>2, <1>3
<1>5. /\ {lo, hi} \subseteq DOMAIN stream
      /\ \A i \in lo..hi : stream[i] \in Boundary <=> i \in {lo, hi}
      /\ \A i \in lo..(hi - 1) : Stored(p)[i] = Payload(i)
  BY <1>2, <1>4, ClosedWindowIsFrame
<1>6. \A i \in lo..(hi - 1) : received'[i] = Payload(i)
  BY <1>3, <1>4, <1>5
<1>7. \A i \in lo..(hi - 1) : received'[i] # Empty <=> stream[i] \in Carries
  BY <1>3, <1>6, EmptyAssumption DEF Payload
<1>8. lo > lastFrame
  BY <1>2, <1>3 DEF AssemblyInv, AssemblyTypeOK
<1>9. Frames!IsFrame(lo, hi)
  BY <1>3, <1>5 DEF Frames!IsFrame
<1>10. [i \in lo..(hi - 1) |-> received'[i]] = [i \in lo..(hi - 1) |-> Frames!Payload(i)]
  BY <1>6 DEF Payload, Frames!Payload
<1>11. latest' = IF \E i \in lo..(hi - 1) : stream[i] \in Carries
                 THEN Frames!Frame(lo, hi) ELSE latest
  BY <1>2, <1>7, <1>10 DEF Publish, Frames!Frame
<1>12. QED
  BY <1>1, <1>2, <1>5, <1>8, <1>9, <1>11 DEF Publish, Frames!Show

\* The assembly implements the promise: only whole frames of the stream are
\* ever shown, in the order of the stream, each at most once between resets.
THEOREM AssemblyImplementsFrames == AssemblySpec => PublishesFrames
<1>1. AssemblyInit => Frames!Init
  BY DEF AssemblyInit, Frames!Init, NoChunks
<1>2. AssemblyInv /\ [AssemblyNext]_assemblyState => [Frames!Next]_(Frames!frameVars)
  <2> SUFFICES ASSUME AssemblyInv, [AssemblyNext]_assemblyState
               PROVE  Frames!Next \/ UNCHANGED <<stream, latest, lastFrame>>
    BY DEF Frames!frameVars
  <2>1. ASSUME NEW n \in 0..MaxChunks, NEW k \in Kinds, Produce(n, k)
        PROVE  Frames!Next
    BY <2>1 DEF Produce, assemblyVars, Frames!Next, Frames!Grow
  <2>2. ASSUME NEW p \in DOMAIN stream, HandleChunk(p, stream[p], Payload(p))
        PROVE  Frames!Next \/ UNCHANGED <<stream, latest, lastFrame>>
    BY <2>2, HandleChunkRefines
  <2>3. CASE ResetAssembly
    BY <2>3 DEF ResetAssembly, Frames!Next, Frames!Reset
  <2>4. CASE UNCHANGED assemblyState
    BY <2>4 DEF assemblyState
  <2>5. QED
    BY <2>1, <2>2, <2>3, <2>4 DEF AssemblyNext
<1>3. QED
  BY <1>1, <1>2, AssemblyInvariant, PTL DEF AssemblySpec, PublishesFrames, Frames!Spec
=============================================================================
