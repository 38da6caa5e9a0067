----------------------- MODULE StoreAndForwardProofs -----------------------
(***************************************************************************)
(* Proofs about StoreAndForward, for every set of frames, every capacity   *)
(* and every window length.                                                *)
(*                                                                         *)
(* The argument: the queue and the replay window are both the tail of the  *)
(* sequence of accepted frames, the window as long as its bound allows     *)
(* (Suffixes).  A key that is not in the window was therefore accepted     *)
(* longer ago than the window reaches, which is KeySpacing; and two     *)
(* frames that wait together were accepted closer to each other than that, *)
(* which is PendingDistinct.                                               *)
(***************************************************************************)
EXTENDS StoreAndForward, CausalDrainProofs, SequenceTheorems

(* Dropping the first element of a longer sequence shifts the rest.        *)
LEMMA TailOfAppend ==
    ASSUME NEW S, NEW s \in Seq(S), NEW x \in S
    PROVE  /\ Tail(Append(s, x)) \in Seq(S)
           /\ Len(Tail(Append(s, x))) = Len(s)
           /\ \A i \in 1..Len(s) : Tail(Append(s, x))[i] = Append(s, x)[i + 1]
           /\ Head(Append(s, x)) \in S
BY AppendProperties, HeadTailProperties

(* The fingerprint of a frame is a platform and a content.                 *)
LEMMA ReplayKeyType ==
    ASSUME NEW frame \in Frame
    PROVE  ReplayKey(frame.envelope) \in Fingerprint
BY BufferAssumption DEF BufferedEnvelope, Envelope, ReplayKey, Fingerprint

(* The window remembers one key more, or as many as it is allowed.         *)
LEMMA RememberKeyShape ==
    ASSUME TypeOK, Bounded, NEW key \in Fingerprint
    PROVE  /\ RememberKey(key) \in Seq(Fingerprint)
           /\ Len(replay_window) < replay_window_cap
                => RememberKey(key) = Append(replay_window, key)
           /\ Len(replay_window) = replay_window_cap
                => /\ Len(RememberKey(key)) = Len(replay_window)
                   /\ \A i \in 1..Len(replay_window) :
                         RememberKey(key)[i] = Append(replay_window, key)[i + 1]
           /\ Len(RememberKey(key)) <= replay_window_cap
<1>1. /\ Append(replay_window, key) \in Seq(Fingerprint)
      /\ Len(Append(replay_window, key)) = Len(replay_window) + 1
      /\ Len(replay_window) \in Nat /\ replay_window_cap \in Nat
      /\ Len(replay_window) <= replay_window_cap
  BY DEF TypeOK, Bounded
<1>2. /\ Tail(Append(replay_window, key)) \in Seq(Fingerprint)
      /\ Len(Tail(Append(replay_window, key))) = Len(replay_window)
      /\ \A i \in 1..Len(replay_window) :
            Tail(Append(replay_window, key))[i] = Append(replay_window, key)[i + 1]
  <2>1. replay_window \in Seq(Fingerprint)
    BY DEF TypeOK
  <2>2. QED
    BY <2>1, TailOfAppend
<1>3. QED
  BY <1>1, <1>2 DEF RememberKey

-----------------------------------------------------------------------------
(* The inductive invariant. *)

AcceptedKey(i) == ReplayKey(accepted[i].envelope)

(* ReplaySpacing said of the keys push compares. *)
KeySpacing ==
    \A i, j \in DOMAIN accepted :
        i < j /\ AcceptedKey(i) = AcceptedKey(j) => j - i > replay_window_cap

(* replay_key tells two frames apart exactly when their contents differ:    *)
(* no receipt field enters it.                                             *)
LEMMA KeyIsContent ==
    \A f, g : SameContent(f, g) <=> ReplayKey(f.envelope) = ReplayKey(g.envelope)
BY DEF SameContent, ReplayKey

(* The replay window is the tail of the keys accepted, as long as its      *)
(* bound allows.                                                           *)
WindowIsMostRecent ==
    /\ Len(replay_window) <= Len(accepted)
    /\ Len(replay_window) < replay_window_cap
          => Len(replay_window) = Len(accepted)
    /\ \A i \in DOMAIN replay_window :
          replay_window[i] = AcceptedKey(Len(accepted) - Len(replay_window) + i)

IInv ==
    /\ TypeOK
    /\ Bounded
    /\ Conservation
    /\ PendingIsMostRecent
    /\ WindowIsMostRecent
    /\ KeySpacing

(* with_capacity builds a buffer of which the invariant holds.             *)
LEMMA InitIInv == Init => IInv
<1> SUFFICES ASSUME Init PROVE IInv
  OBVIOUS
<1>1. capacity \in Nat \ {0} /\ replay_window_cap \in Nat \ {0}
  BY BufferAssumption DEF Init, AtLeastOne
<1>2. TypeOK
  BY <1>1 DEF Init, TypeOK
<1>3. Bounded /\ Conservation
  BY <1>1 DEF Init, Bounded, Conservation
<1>4. PendingIsMostRecent /\ WindowIsMostRecent /\ KeySpacing
  BY <1>1 DEF Init, PendingIsMostRecent, WindowIsMostRecent, KeySpacing
<1>5. QED
  BY <1>2, <1>3, <1>4 DEF IInv

(* What a push that accepts does to the accepted frames and the window,    *)
(* whether or not it evicts.                                               *)
LEMMA AcceptKeepsWindow ==
    ASSUME IInv, NEW frame \in Frame, Accept(frame), UNCHANGED config
    PROVE  /\ accepted' \in Seq(Frame)
           /\ replay_window' \in Seq(Fingerprint)
           /\ Len(replay_window') <= replay_window_cap'
           /\ WindowIsMostRecent'
           /\ KeySpacing'
<1> DEFINE key == ReplayKey(frame.envelope)
           n   == Len(accepted)
           w   == Len(replay_window)
<1>0. key \in Fingerprint
  BY ReplayKeyType
<1>1. /\ accepted \in Seq(Frame) /\ accepted' = Append(accepted, frame)
      /\ n \in Nat /\ Len(accepted') = n + 1
      /\ \A i \in 1..n : accepted'[i] = accepted[i]
      /\ accepted'[n + 1] = frame
      /\ DOMAIN accepted' = 1..(n + 1) /\ DOMAIN accepted = 1..n
  BY DEF IInv, TypeOK, Accept
<1>2. /\ \A i \in 1..n : ReplayKey(accepted'[i].envelope) = AcceptedKey(i)
      /\ ReplayKey(accepted'[n + 1].envelope) = key
  BY <1>1 DEF AcceptedKey
<1>3. /\ replay_window \in Seq(Fingerprint)
      /\ w \in Nat /\ w <= n /\ w <= replay_window_cap
      /\ replay_window_cap \in Nat \ {0}
      /\ replay_window_cap' = replay_window_cap
      /\ w < replay_window_cap => w = n
      /\ \A i \in 1..w : replay_window[i] = AcceptedKey(n - w + i)
  <2>1. /\ replay_window \in Seq(Fingerprint)
        /\ replay_window_cap \in Nat \ {0}
        /\ w <= replay_window_cap
    BY DEF IInv, TypeOK, Bounded
  <2>2. w \in Nat /\ DOMAIN replay_window = 1..w
    BY <2>1
  <2>3. replay_window_cap' = replay_window_cap
    BY DEF config
  <2>4. QED
    BY <2>1, <2>2, <2>3 DEF IInv, WindowIsMostRecent
<1>4. n \in Nat /\ w \in Nat /\ w <= n /\ Len(accepted') = n + 1
  BY <1>1, <1>3
<1>5. /\ replay_window' = RememberKey(key)
      /\ replay_window' \in Seq(Fingerprint)
      /\ Len(replay_window') <= replay_window_cap'
  BY <1>0, <1>3, RememberKeyShape DEF IInv, Accept
<1>6. WindowIsMostRecent'
  <2>1. CASE w < replay_window_cap
    <3>1. replay_window' = Append(replay_window, key) /\ w = n
      BY <2>1, <1>0, <1>3, <1>5, RememberKeyShape DEF IInv
    <3>2. /\ Len(replay_window') = w + 1
          /\ DOMAIN replay_window' = 1..(w + 1)
          /\ \A i \in 1..w : replay_window'[i] = replay_window[i]
          /\ replay_window'[w + 1] = key
      BY <3>1, <1>3, SMTT(30)
    <3>3. \A i \in DOMAIN replay_window' :
             replay_window'[i] = ReplayKey(accepted'[i].envelope)
      BY <3>1, <3>2, <1>2, <1>3, SMTT(30)
    <3>4. QED
      BY <3>1, <3>2, <3>3, <1>1 DEF WindowIsMostRecent, AcceptedKey
  <2>2. CASE w = replay_window_cap
    <3>1. /\ Len(replay_window') = w
          /\ \A i \in 1..w :
                replay_window'[i] = Append(replay_window, key)[i + 1]
      BY <2>2, <1>0, <1>5, RememberKeyShape DEF IInv
    <3>2. DOMAIN replay_window' = 1..w
      BY <3>1, <1>5
    <3>3. /\ \A i \in 1..(w - 1) : replay_window'[i] = replay_window[i + 1]
          /\ replay_window'[w] = key
      <4>1. /\ \A i \in 1..w : Append(replay_window, key)[i] = replay_window[i]
            /\ Append(replay_window, key)[w + 1] = key
        BY <1>0, <1>3
      <4>2. /\ \A i \in 1..(w - 1) : i \in 1..w /\ i + 1 \in 1..w
            /\ w \in 1..w
        BY <2>2, <1>3
      <4>3. QED
        BY <3>1, <4>1, <4>2
    <3>4. \A i \in 1..w : replay_window'[i] = ReplayKey(accepted'[n + 1 - w + i].envelope)
      <4>1. \A i \in 1..(w - 1) :
               /\ i + 1 \in 1..w
               /\ n - w + (i + 1) = n + 1 - w + i
               /\ n + 1 - w + i \in 1..n
        BY <1>4
      <4>2. \A i \in 1..(w - 1) :
               replay_window'[i] = ReplayKey(accepted'[n + 1 - w + i].envelope)
        BY <4>1, <3>3, <1>2, <1>3
      <4>3. n + 1 - w + w = n + 1
        BY <1>4
      <4>4. QED
        <5>1. replay_window'[w] = ReplayKey(accepted'[n + 1 - w + w].envelope)
          BY <4>3, <3>3, <1>2
        <5>2. \A i \in 1..w : i \in 1..(w - 1) \/ i = w
          BY <1>4
        <5>3. QED
          BY <4>2, <5>1, <5>2
    <3>5. /\ Len(replay_window') <= Len(accepted')
          /\ ~(Len(replay_window') < replay_window_cap')
          /\ Len(accepted') - Len(replay_window') = n + 1 - w
      <4>1. n \in Nat /\ w \in Nat /\ w <= n /\ Len(accepted') = n + 1
        BY <1>4
      <4>2. Len(replay_window') = w /\ w = replay_window_cap'
        BY <3>1, <2>2, <1>3
      <4>3. QED
        BY <4>1, <4>2
    <3>6. QED
      BY <3>1, <3>2, <3>4, <3>5 DEF WindowIsMostRecent, AcceptedKey
  <2>3. QED
    BY <2>1, <2>2, <1>3
<1>7. KeySpacing'
  <2> SUFFICES ASSUME NEW i \in 1..(n + 1), NEW j \in 1..(n + 1), i < j,
                      ReplayKey(accepted'[i].envelope)
                          = ReplayKey(accepted'[j].envelope)
               PROVE  j - i > replay_window_cap
    BY <1>1, <1>3 DEF KeySpacing, AcceptedKey
  <2>1. CASE j \in 1..n
    BY <2>1, <1>1, <1>2 DEF IInv, KeySpacing
  <2>2. CASE j = n + 1
    <3>1. i \in 1..n /\ AcceptedKey(i) = key
      BY <2>2, <1>1, <1>2
    <3>2. ~(i > n - w)
      <4> SUFFICES ASSUME i > n - w PROVE FALSE
        OBVIOUS
      <4>1. i - (n - w) \in 1..w /\ n - w + (i - (n - w)) = i
        BY <3>1, <1>4
      <4>2. replay_window[i - (n - w)] = key
        BY <4>1, <3>1, <1>3
      <4>3. KnownReplay(frame)
        BY <4>1, <4>2, <1>3 DEF KnownReplay
      <4>4. QED
        BY <4>3 DEF Accept
    <3>3. QED
      BY <3>1, <3>2, <2>2, <1>1, <1>3
  <2>3. QED
    BY <2>1, <2>2, <1>1
<1>8. accepted' \in Seq(Frame)
  BY <1>1
<1>9. QED
  BY <1>5, <1>6, <1>7, <1>8

(* Every call of set_link, push or drain keeps the invariant.              *)
LEMMA NextIInv == IInv /\ [Next]_vars => IInv'
<1> SUFFICES ASSUME IInv, [Next]_vars PROVE IInv'
  OBVIOUS
<1>1. ASSUME NEW state \in LinkState, SetLink(state) PROVE IInv'
  <2>1. TypeOK'
    BY <1>1 DEF IInv, TypeOK, SetLink, config, history
  <2>2. QED
    BY <1>1, <2>1 DEF IInv, SetLink, config, history, Bounded, Conservation,
                      PendingIsMostRecent, WindowIsMostRecent, KeySpacing,
                      AcceptedKey
<1>2. ASSUME NEW frame \in Frame, Push(frame), PushRejected(frame) PROVE IInv'
  <2>1. TypeOK'
    BY <1>2 DEF IInv, TypeOK, Push, PushRejected, config
  <2>2. Conservation'
    <3>1. /\ Len(pending) \in Nat
          /\ pushes \in Nat /\ drained_total \in Nat
          /\ duplicates_rejected \in Nat /\ evicted_total \in Nat
      BY DEF IInv, TypeOK
    <3>2. QED
      BY <1>2, <3>1 DEF IInv, Conservation, Push, PushRejected
  <2>3. QED
    BY <1>2, <2>1, <2>2
       DEF IInv, Push, PushRejected, config, Bounded,
           PendingIsMostRecent, WindowIsMostRecent, KeySpacing, AcceptedKey
<1>3. ASSUME NEW frame \in Frame, Push(frame), PushAccepted(frame) PROVE IInv'
  <2> DEFINE n == Len(accepted)
             p == Len(pending)
  <2>1. /\ accepted' \in Seq(Frame)
        /\ replay_window' \in Seq(Fingerprint)
        /\ Len(replay_window') <= replay_window_cap'
        /\ WindowIsMostRecent' /\ KeySpacing'
    BY <1>3, AcceptKeepsWindow DEF Push, PushAccepted
  <2>2. /\ pending \in Seq(Frame) /\ pending' = Append(pending, frame)
        /\ accepted \in Seq(Frame) /\ accepted' = Append(accepted, frame)
        /\ p + 1 <= capacity /\ capacity' = capacity
    BY <1>3 DEF IInv, TypeOK, Push, PushAccepted, Accept, config
  <2>3. /\ pending' \in Seq(Frame) /\ Len(pending') = p + 1
        /\ \A i \in 1..p : pending'[i] = pending[i]
        /\ pending'[p + 1] = frame
        /\ Len(accepted') = n + 1
        /\ \A i \in 1..n : accepted'[i] = accepted[i]
        /\ accepted'[n + 1] = frame
        /\ p \in Nat /\ n \in Nat /\ DOMAIN pending' = 1..(p + 1)
        /\ DOMAIN pending = 1..p
    BY <2>2, AppendProperties
  <2>4. TypeOK'
    BY <1>3, <2>1, <2>3 DEF IInv, TypeOK, Push, PushAccepted, Accept, config
  <2>5. Bounded'
    BY <2>1, <2>2, <2>3 DEF Bounded
  <2>6. Conservation'
    <3>1. /\ pushes \in Nat /\ drained_total \in Nat
          /\ duplicates_rejected \in Nat /\ evicted_total \in Nat
      BY DEF IInv, TypeOK
    <3>2. QED
      BY <1>3, <2>3, <3>1 DEF IInv, Conservation, Push, PushAccepted, Accept
  <2>7. PendingIsMostRecent'
    <3>1. p <= n /\ \A i \in 1..p : pending[i] = accepted[n - p + i]
      BY <2>3 DEF IInv, PendingIsMostRecent
    <3>2. \A i \in 1..(p + 1) : pending'[i] = accepted'[n + 1 - (p + 1) + i]
      <4>1. \A i \in 1..p : /\ n - p + i \in 1..n
                            /\ n + 1 - (p + 1) + i = n - p + i
        BY <2>3, <3>1
      <4>2. n + 1 - (p + 1) + (p + 1) = n + 1
        BY <2>3
      <4>3. \A i \in 1..p : pending'[i] = accepted'[n + 1 - (p + 1) + i]
        BY <4>1, <2>3, <3>1
      <4>4. pending'[p + 1] = accepted'[n + 1 - (p + 1) + (p + 1)]
        BY <4>2, <2>3
      <4>5. \A i \in 1..(p + 1) : i \in 1..p \/ i = p + 1
        BY <2>3
      <4>6. QED
        BY <4>3, <4>4, <4>5
    <3>3. /\ Len(pending') = p + 1 /\ Len(accepted') = n + 1
          /\ DOMAIN pending' = 1..(p + 1) /\ p + 1 <= n + 1
      BY <2>3, <3>1
    <3>4. QED
      BY <3>2, <3>3 DEF PendingIsMostRecent
  <2>8. QED
    BY <2>1, <2>4, <2>5, <2>6, <2>7 DEF IInv
<1>4. ASSUME NEW frame \in Frame, Push(frame), PushEvicting(frame) PROVE IInv'
  <2> DEFINE n == Len(accepted)
             p == Len(pending)
  <2>1. /\ accepted' \in Seq(Frame)
        /\ replay_window' \in Seq(Fingerprint)
        /\ Len(replay_window') <= replay_window_cap'
        /\ WindowIsMostRecent' /\ KeySpacing'
    BY <1>4, AcceptKeepsWindow DEF Push, PushEvicting
  <2>2. /\ pending \in Seq(Frame) /\ pending' = Tail(Append(pending, frame))
        /\ accepted \in Seq(Frame) /\ accepted' = Append(accepted, frame)
        /\ p <= capacity /\ capacity' = capacity
        /\ evicted \in Seq(Frame)
        /\ evicted' = Append(evicted, Head(Append(pending, frame)))
    BY <1>4 DEF IInv, TypeOK, Bounded, Push, PushEvicting, Accept, config
  <2>3. /\ pending' \in Seq(Frame) /\ Len(pending') = p
        /\ \A i \in 1..p : pending'[i] = Append(pending, frame)[i + 1]
        /\ Head(Append(pending, frame)) \in Frame
    BY <2>2, TailOfAppend
  <2>4. /\ Len(accepted') = n + 1
        /\ \A i \in 1..n : accepted'[i] = accepted[i]
        /\ accepted'[n + 1] = frame
        /\ \A i \in 1..p : Append(pending, frame)[i] = pending[i]
        /\ Append(pending, frame)[p + 1] = frame
        /\ p \in Nat /\ n \in Nat /\ DOMAIN pending' = 1..p
        /\ DOMAIN pending = 1..p
        /\ evicted' \in Seq(Frame)
    BY <2>2, <2>3, AppendProperties
  <2>5. TypeOK'
    BY <1>4, <2>1, <2>3, <2>4 DEF IInv, TypeOK, Push, PushEvicting, Accept, config
  <2>6. Bounded'
    BY <2>1, <2>2, <2>3 DEF Bounded
  <2>7. Conservation'
    <3>1. /\ pushes \in Nat /\ drained_total \in Nat
          /\ duplicates_rejected \in Nat /\ evicted_total \in Nat
      BY DEF IInv, TypeOK
    <3>2. /\ pushes' = pushes + 1 /\ drained_total' = drained_total
          /\ duplicates_rejected' = duplicates_rejected
          /\ evicted_total' = evicted_total + 1
      BY <1>4 DEF Push, PushEvicting, Accept
    <3>3. QED
      BY <2>3, <2>4, <3>1, <3>2 DEF IInv, Conservation
  <2>8. PendingIsMostRecent'
    <3>1. p <= n /\ \A i \in 1..p : pending[i] = accepted[n - p + i]
      BY <2>4 DEF IInv, PendingIsMostRecent
    <3>2. \A i \in 1..p : pending'[i] = accepted'[n + 1 - p + i]
      <4>1. \A i \in 1..(p - 1) :
               /\ i + 1 \in 1..p /\ i \in 1..p
               /\ n + 1 - p + i = n - p + (i + 1)
               /\ n + 1 - p + i \in 1..n
        BY <2>4, <3>1
      <4>2. \A i \in 1..(p - 1) : pending'[i] = accepted'[n + 1 - p + i]
        <5> SUFFICES ASSUME NEW i \in 1..(p - 1)
                     PROVE  pending'[i] = accepted'[n + 1 - p + i]
          OBVIOUS
        <5>1. pending'[i] = pending[i + 1]
          BY <4>1, <2>3, <2>4
        <5>2. pending[i + 1] = accepted[n - p + (i + 1)]
          BY <4>1, <3>1
        <5>3. accepted'[n + 1 - p + i] = accepted[n + 1 - p + i]
          BY <4>1, <2>4
        <5>4. QED
          BY <5>1, <5>2, <5>3, <4>1
      <4>3. p \in 1..p => pending'[p] = accepted'[n + 1 - p + p]
        BY <2>3, <2>4
      <4>4. QED
        BY <4>2, <4>3, <2>4
    <3>3. /\ Len(pending') = p /\ Len(accepted') = n + 1
          /\ DOMAIN pending' = 1..p /\ p <= n + 1
      BY <2>3, <2>4, <3>1
    <3>4. QED
      BY <3>2, <3>3 DEF PendingIsMostRecent
  <2>9. QED
    BY <2>1, <2>5, <2>6, <2>7, <2>8 DEF IInv
<1>5. CASE Drain /\ DrainDown
  <2>1. TypeOK'
    BY <1>5 DEF IInv, TypeOK, Drain, DrainDown, config
  <2>2. QED
    BY <1>5, <2>1
       DEF IInv, Drain, DrainDown, config, Bounded, Conservation,
           PendingIsMostRecent, WindowIsMostRecent, KeySpacing, AcceptedKey
<1>6. CASE Drain /\ DrainUp
  <2>1. /\ pending \in Seq(Frame) /\ Len(pending) \in Nat
        /\ capacity \in Nat \ {0} /\ drained_total \in Nat
        /\ accepted \in Seq(Frame) /\ Len(accepted) \in Nat
    BY DEF IInv, TypeOK
  <2>2. pending' = <<>> /\ Len(pending') = 0 /\ pending' \in Seq(Frame)
    BY <1>6 DEF DrainUp
  <2>3. TypeOK'
    BY <1>6, <2>1, <2>2 DEF IInv, TypeOK, Drain, DrainUp, config
  <2>4. Bounded'
    BY <1>6, <2>1, <2>2 DEF IInv, Bounded, Drain, config
  <2>5. Conservation'
    <3>1. /\ pushes \in Nat /\ duplicates_rejected \in Nat
          /\ evicted_total \in Nat
      BY DEF IInv, TypeOK
    <3>2. QED
      BY <1>6, <2>1, <2>2, <3>1 DEF IInv, Conservation, Drain, DrainUp
  <2>6. PendingIsMostRecent'
    BY <1>6, <2>1, <2>2 DEF PendingIsMostRecent, Drain
  <2>7. WindowIsMostRecent' /\ KeySpacing'
    BY <1>6 DEF IInv, WindowIsMostRecent, KeySpacing, AcceptedKey, Drain,
                config
  <2>8. QED
    BY <2>3, <2>4, <2>5, <2>6, <2>7 DEF IInv
<1>7. CASE UNCHANGED vars
  <2>1. TypeOK'
    BY <1>7 DEF IInv, TypeOK, vars, config, history
  <2>2. QED
    BY <1>7, <2>1 DEF IInv, vars, config, history, Bounded, Conservation,
                      PendingIsMostRecent, WindowIsMostRecent, KeySpacing,
                      AcceptedKey
<1>8. QED
  BY <1>1, <1>2, <1>3, <1>4, <1>5, <1>6, <1>7 DEF Next, Push, Drain

(* The invariant holds after any sequence of calls on the buffer.          *)
THEOREM Invariance == Spec => []IInv
BY InitIInv, NextIInv, PTL DEF Spec

-----------------------------------------------------------------------------
(* Every field of the buffer keeps its type, whatever is pushed: also when *)
(* with_capacity was given 0.                                              *)
THEOREM TypeCorrect == Spec => []TypeOK
<1>1. IInv => TypeOK
  BY DEF IInv
<1>2. QED
  BY <1>1, Invariance, PTL

(* The queue and the window never outgrow capacity and replay_window_cap.  *)
THEOREM BoundsHold == Spec => []Bounded
<1>1. IInv => Bounded
  BY DEF IInv
<1>2. QED
  BY <1>1, Invariance, PTL

(* The counters of push and drain account for every push.                  *)
THEOREM CountersConserve == Spec => []Conservation
<1>1. IInv => Conservation
  BY DEF IInv
<1>2. QED
  BY <1>1, Invariance, PTL

(* Eviction by push takes the oldest: the queue is the tail of what was    *)
(* accepted.                                                               *)
THEOREM QueueIsMostRecent == Spec => []PendingIsMostRecent
<1>1. IInv => PendingIsMostRecent
  BY DEF IInv
<1>2. QED
  BY <1>1, Invariance, PTL

(* push accepts a content again only after replay_window_cap others.       *)
THEOREM ReplaysAreSpaced == Spec => []ReplaySpacing
<1>1. IInv => ReplaySpacing
  BY KeyIsContent DEF IInv, KeySpacing, ReplaySpacing, AcceptedKey
<1>2. QED
  BY <1>1, Invariance, PTL

(* A window of at least the queue's capacity minus one keeps the contents  *)
(* in the queue distinct.                                                  *)
LEMMA DistinctByIInv == IInv => PendingDistinct
<1> SUFFICES ASSUME IInv, replay_window_cap + 1 >= capacity,
                    NEW i \in DOMAIN pending, NEW j \in DOMAIN pending,
                    ReplayKey(pending[i].envelope)
                        = ReplayKey(pending[j].envelope)
             PROVE  i = j
  BY KeyIsContent DEF PendingDistinct
<1> DEFINE n == Len(accepted)
           p == Len(pending)
<1>1. /\ n \in Nat /\ p \in Nat /\ p <= n /\ p <= capacity
      /\ i \in 1..p /\ j \in 1..p
      /\ DOMAIN accepted = 1..n
      /\ capacity \in Nat /\ replay_window_cap \in Nat
  BY DEF IInv, TypeOK, Bounded, PendingIsMostRecent
<1>2. /\ n - p + i \in 1..n /\ n - p + j \in 1..n
      /\ pending[i] = accepted[n - p + i]
      /\ pending[j] = accepted[n - p + j]
  BY <1>1 DEF IInv, PendingIsMostRecent
<1>3. ASSUME NEW k \in 1..p, NEW m \in 1..p, k < m,
             ReplayKey(accepted[n - p + k].envelope)
                 = ReplayKey(accepted[n - p + m].envelope)
      PROVE  FALSE
  <2>1. /\ n - p + k \in 1..n /\ n - p + m \in 1..n
        /\ n - p + k < n - p + m
    BY <1>1, <1>3
  <2>2. (n - p + m) - (n - p + k) > replay_window_cap
    BY <1>1, <1>3, <2>1 DEF IInv, KeySpacing, AcceptedKey
  <2>3. QED
    BY <1>1, <1>3, <2>2
<1>4. QED
  BY <1>1, <1>2, <1>3

(* As long as push remembers capacity - 1 keys at least, it never queues a *)
(* content beside its twin.                                                *)
THEOREM QueueHasNoTwins == Spec => []PendingDistinct
BY DistinctByIInv, Invariance, PTL

-----------------------------------------------------------------------------
(* The last batch. *)

(* A sequence of frames is a queue of items with clocks. *)
LEMMA FramesAreItems == ASSUME NEW q \in Seq(Frame) PROVE Queue(q)
<1>1. \A f \in Frame : f.vc \in VectorClock
  BY BufferAssumption DEF BufferedEnvelope
<1>2. Len(q) \in Nat /\ DOMAIN q = 1..Len(q) /\ \A i \in DOMAIN q : q[i] \in Frame
  OBVIOUS
<1>3. QED
  BY <1>1, <1>2 DEF Queue

(* Whatever is in the batch a drain put there, and no call but drain changes *)
(* it.                                                                     *)
BatchIsADrain == \E q \in Seq(Frame) : batch = AnnotateOrderUnknown(CausalSort(q))

(* Sorting keeps the indices, and annotating keeps the items. *)
LEMMA BatchShape ==
    ASSUME NEW q \in Seq(Frame)
    PROVE  /\ CausalSort(q) \in Seq(Frame)
           /\ Len(CausalSort(q)) = Len(q)
           /\ DOMAIN CausalSort(q) = DOMAIN q
           /\ DOMAIN AnnotateOrderUnknown(CausalSort(q)) = DOMAIN q
           /\ \A i \in DOMAIN q :
                 AnnotateOrderUnknown(CausalSort(q))[i] =
                    [buffered |-> CausalSort(q)[i],
                     order_unknown |-> OrderUnknown(CausalSort(q), i)]
           /\ [i \in DOMAIN AnnotateOrderUnknown(CausalSort(q)) |->
                 AnnotateOrderUnknown(CausalSort(q))[i].buffered] = CausalSort(q)
<1> DEFINE n    == Len(q)
           pick == EmissionOrder(q)
           t    == CausalSort(q)
<1>1. n \in Nat /\ DOMAIN q = 1..n
  OBVIOUS
<1>2. pick \in [1..n -> 1..n] /\ t = [i \in 1..n |-> q[pick[i]]]
  BY <1>1, FramesAreItems, SortPermutes, Fun_BijectionProperties
<1> HIDE DEF pick, t
<1>3. t \in [1..n -> Frame]
  BY <1>2
<1>4. t \in Seq(Frame) /\ Len(t) = n /\ DOMAIN t = 1..n
  BY <1>1, <1>3
<1>5. AnnotateOrderUnknown(t) =
         [i \in 1..n |-> [buffered |-> t[i], order_unknown |-> OrderUnknown(t, i)]]
  BY <1>4 DEF AnnotateOrderUnknown
<1>6. [i \in DOMAIN AnnotateOrderUnknown(t) |-> AnnotateOrderUnknown(t)[i].buffered] = t
  BY <1>4, <1>5
<1>7. QED
  BY <1>1, <1>4, <1>5, <1>6 DEF t

(* At the start, and after a call that drains nothing, the batch is that of *)
(* an empty queue.                                                         *)
LEMMA EmptyBatch ==
    ASSUME NEW b, b = <<>>
    PROVE  \E q \in Seq(Frame) : b = AnnotateOrderUnknown(CausalSort(q))
<1> DEFINE q == <<>>
<1>1. q \in Seq(Frame) /\ DOMAIN q = {}
  OBVIOUS
<1> HIDE DEF q
<1>2. DOMAIN CausalSort(q) = {}
  BY <1>1, BatchShape
<1>3. AnnotateOrderUnknown(CausalSort(q)) = [i \in {} |-> 0]
  BY <1>2 DEF AnnotateOrderUnknown
<1>4. b = [i \in {} |-> 0]
  OBVIOUS
<1>5. QED
  BY <1>1, <1>3, <1>4

(* The batch is what a drain made of a queue, after any sequence of calls. *)
THEOREM BatchComesFromDrain == Spec => []BatchIsADrain
<1>1. Init => BatchIsADrain
  <2>1. Init => batch = <<>>
    BY DEF Init
  <2>2. QED
    BY <2>1, EmptyBatch DEF BatchIsADrain
<1>2. IInv /\ BatchIsADrain /\ [Next]_vars => BatchIsADrain'
  <2> SUFFICES ASSUME IInv, BatchIsADrain, [Next]_vars PROVE BatchIsADrain'
    OBVIOUS
  <2>1. CASE Drain /\ DrainDown
    <3>1. batch' = <<>>
      BY <2>1 DEF DrainDown
    <3>2. QED
      BY <3>1, EmptyBatch DEF BatchIsADrain
  <2>2. CASE Drain /\ DrainUp
    BY <2>2 DEF DrainUp, BatchIsADrain, IInv, TypeOK
  <2>3. CASE UNCHANGED batch
    BY <2>3 DEF BatchIsADrain
  <2>4. QED
    BY <2>1, <2>2, <2>3 DEF Next, SetLink, Push, Drain, vars, history
<1>3. QED
  BY <1>1, <1>2, Invariance, PTL DEF Spec

(* No batch shows an effect before its cause. *)
THEOREM BatchesAreCausal == Spec => []BatchIsCausal
<1>1. BatchIsADrain => BatchIsCausal
  <2> SUFFICES ASSUME NEW q \in Seq(Frame), batch = AnnotateOrderUnknown(CausalSort(q))
               PROVE  BatchIsCausal
    BY DEF BatchIsADrain
  <2>1. BatchItems = CausalSort(q)
    BY BatchShape DEF BatchItems
  <2>2. QED
    BY <2>1, FramesAreItems, SortIsCausal DEF BatchIsCausal
<1>2. QED
  BY <1>1, BatchComesFromDrain, PTL

(* Clocks that are concurrent are not ordered, either way. *)
LEMMA ConcurrentIsUnordered ==
    ASSUME NEW c, NEW d, IsConcurrentWith(c, d)
    PROVE  /\ ~HappensBefore(c, d) /\ ~HappensBefore(d, c)
           /\ IsConcurrentWith(d, c)
BY DEF IsConcurrentWith, HappensBefore, Relation

(* An item marked ORDER_UNKNOWN may stand anywhere in its batch. *)
LEMMA FlaggedFloats ==
    ASSUME NEW t \in Seq(Frame), CausalOrder(t),
           NEW p \in DOMAIN t, NEW r \in DOMAIN t, OrderUnknown(t, p)
    PROVE  CausalOrder(Moved(t, p, r))
<1> DEFINE n      == Len(t)
           from(i) == IF i = r THEN p
                      ELSE IF p <= i /\ i < r THEN i + 1
                      ELSE IF r < i /\ i <= p THEN i - 1
                      ELSE i
<1>1. n \in Nat /\ DOMAIN t = 1..n /\ p \in 1..n /\ r \in 1..n
  OBVIOUS
<1>2. Moved(t, p, r) = [i \in 1..n |-> t[from(i)]]
  BY <1>1 DEF Moved
<1>3. /\ \A i \in 1..n : from(i) \in 1..n /\ (from(i) = p <=> i = r)
      /\ \A i, j \in 1..n : i # r /\ j # r /\ from(i) < from(j) => i < j
  BY <1>1
<1>4. \A i, j \in 1..n :
         HappensBefore(t[from(i)].vc, t[from(j)].vc) => i < j
  <2> HIDE DEF from
  <2> SUFFICES ASSUME NEW i \in 1..n, NEW j \in 1..n,
                      HappensBefore(t[from(i)].vc, t[from(j)].vc)
               PROVE  i < j
    OBVIOUS
  <2>1. from(i) \in 1..n /\ from(j) \in 1..n
    BY <1>3
  <2>2. from(i) < from(j)
    BY <2>1, <1>1 DEF CausalOrder
  <2>3. \A k \in 1..n : k # p => /\ ~HappensBefore(t[p].vc, t[k].vc)
                                 /\ ~HappensBefore(t[k].vc, t[p].vc)
    BY <1>1, ConcurrentIsUnordered DEF OrderUnknown
  <2>4. from(i) # p /\ from(j) # p
    BY <2>1, <2>2, <2>3
  <2>5. QED
    BY <2>2, <2>4, <1>3
<1>5. QED
  <2> HIDE DEF from
  <2>1. QED
    BY <1>2, <1>4 DEF CausalOrder

(* ORDER_UNKNOWN is never raised on an item whose place is known. *)
THEOREM FlagsAreSound == Spec => []FlaggedItemsFloat
<1>1. BatchIsADrain => FlaggedItemsFloat
  <2> SUFFICES ASSUME NEW q \in Seq(Frame), batch = AnnotateOrderUnknown(CausalSort(q))
               PROVE  FlaggedItemsFloat
    BY DEF BatchIsADrain
  <2> DEFINE t == CausalSort(q)
  <2>1. /\ t \in Seq(Frame) /\ DOMAIN t = DOMAIN batch
        /\ BatchItems = t
        /\ \A i \in DOMAIN t : batch[i].order_unknown = OrderUnknown(t, i)
    <3>1. /\ t \in Seq(Frame) /\ DOMAIN t = DOMAIN q
          /\ DOMAIN batch = DOMAIN q
          /\ \A i \in DOMAIN q :
                batch[i] = [buffered |-> t[i], order_unknown |-> OrderUnknown(t, i)]
          /\ [i \in DOMAIN batch |-> batch[i].buffered] = t
      BY BatchShape
    <3> HIDE DEF t
    <3>2. QED
      BY <3>1 DEF BatchItems
  <2>2. CausalOrder(t)
    BY FramesAreItems, SortIsCausal
  <2> HIDE DEF t
  <2>3. QED
    BY <2>1, <2>2, FlaggedFloats DEF FlaggedItemsFloat
<1>2. QED
  BY <1>1, BatchComesFromDrain, PTL

-----------------------------------------------------------------------------
(* Flags and the order of arrival. *)

FlaggedIn(q) == {q[i] : i \in {k \in DOMAIN q : OrderUnknown(q, k)}}

(* The items a batch would mark do not depend on the order of the items. *)
LEMMA FlagsArePermuted ==
    ASSUME NEW q \in Seq(Frame), NEW f \in Bijection(DOMAIN q, DOMAIN q),
           NEW t \in Seq(Frame), t = [i \in DOMAIN q |-> q[f[i]]]
    PROVE  FlaggedIn(t) = FlaggedIn(q)
<1> DEFINE D == DOMAIN q
<1>1. /\ f \in [D -> D]
      /\ \A i, j \in D : f[i] = f[j] => i = j
      /\ \A j \in D : \E i \in D : f[i] = j
  BY Fun_BijectionProperties
<1>2. DOMAIN t = D /\ Len(t) = Len(q) /\ \A i \in D : t[i] = q[f[i]]
  OBVIOUS
<1>3. \A i \in D : OrderUnknown(t, i) <=> OrderUnknown(q, f[i])
  <2> TAKE i \in D
  <2>1. (\A j \in D : j = i \/ IsConcurrentWith(t[i].vc, t[j].vc))
          <=> (\A j \in D : j = f[i] \/ IsConcurrentWith(q[f[i]].vc, q[j].vc))
    <3> HIDE DEF D
    <3>1. f[i] \in D /\ \A j \in D : f[j] \in D /\ (f[j] = f[i] <=> j = i)
      BY <1>1
    <3>2. \A j \in D : (j = i \/ IsConcurrentWith(t[i].vc, t[j].vc))
             <=> (f[j] = f[i] \/ IsConcurrentWith(q[f[i]].vc, q[f[j]].vc))
      BY <3>1, <1>2
    <3>3. ASSUME \A j \in D : j = i \/ IsConcurrentWith(t[i].vc, t[j].vc),
                 NEW k \in D
          PROVE  k = f[i] \/ IsConcurrentWith(q[f[i]].vc, q[k].vc)
      <4>1. PICK j \in D : f[j] = k
        BY <1>1
      <4>2. QED
        BY <4>1, <3>2, <3>3
    <3>4. ASSUME \A k \in D : k = f[i] \/ IsConcurrentWith(q[f[i]].vc, q[k].vc),
                 NEW j \in D
          PROVE  j = i \/ IsConcurrentWith(t[i].vc, t[j].vc)
      BY <3>1, <3>2, <3>4
    <3>5. QED
      BY <3>3, <3>4
  <2>2. QED
    BY <2>1, <1>2 DEF OrderUnknown
<1>4. QED
  <2> HIDE DEF D
  <2>1. FlaggedIn(t) \subseteq FlaggedIn(q)
    <3> SUFFICES ASSUME NEW i \in DOMAIN t, OrderUnknown(t, i)
                 PROVE  t[i] \in FlaggedIn(q)
      BY DEF FlaggedIn
    <3>1. f[i] \in DOMAIN q /\ OrderUnknown(q, f[i]) /\ t[i] = q[f[i]]
      BY <1>1, <1>2, <1>3 DEF D
    <3>2. QED
      BY <3>1 DEF FlaggedIn
  <2>2. FlaggedIn(q) \subseteq FlaggedIn(t)
    <3> SUFFICES ASSUME NEW k \in DOMAIN q, OrderUnknown(q, k)
                 PROVE  q[k] \in FlaggedIn(t)
      BY DEF FlaggedIn
    <3>1. PICK i \in D : f[i] = k
      BY <1>1 DEF D
    <3>2. i \in DOMAIN t /\ OrderUnknown(t, i) /\ t[i] = q[k]
      BY <3>1, <1>2, <1>3
    <3>3. QED
      BY <3>2 DEF FlaggedIn
  <2>3. QED
    BY <2>1, <2>2

(* What a drain would mark in q are the items marked in q itself. *)
LEMMA FlaggedMeaning == ASSUME NEW q \in Seq(Frame) PROVE Flagged(q) = FlaggedIn(q)
<1> DEFINE t == CausalSort(q)
<1>1. /\ t \in Seq(Frame) /\ DOMAIN t = DOMAIN q
      /\ DOMAIN AnnotateOrderUnknown(t) = DOMAIN q
      /\ \A i \in DOMAIN q :
            AnnotateOrderUnknown(t)[i] = [buffered |-> t[i],
                                          order_unknown |-> OrderUnknown(t, i)]
  BY BatchShape
<1>2. Flagged(q) = FlaggedIn(t)
  <2>1. Flagged(q) = {AnnotateOrderUnknown(t)[i].buffered :
            i \in {k \in DOMAIN AnnotateOrderUnknown(t) :
                      AnnotateOrderUnknown(t)[k].order_unknown}}
    BY DEF Flagged
  <2> HIDE DEF t
  <2>2. QED
    BY <2>1, <1>1 DEF FlaggedIn
<1>3. FlaggedIn(t) = FlaggedIn(q)
  BY <1>1, FramesAreItems, SortPermutes, FlagsArePermuted
<1>4. QED
  BY <1>2, <1>3

(* Which items are marked depends on what is pending, not on how it arrived. *)
THEOREM FlagsIgnoreArrival == Spec => []FlagsIgnoreArrivalOrder
<1>1. TypeOK => FlagsIgnoreArrivalOrder
  <2> SUFFICES ASSUME TypeOK, NEW f \in Bijection(DOMAIN pending, DOMAIN pending)
               PROVE  Flagged([i \in DOMAIN pending |-> pending[f[i]]])
                        = Flagged(pending)
    BY DEF FlagsIgnoreArrivalOrder
  <2> DEFINE t == [i \in DOMAIN pending |-> pending[f[i]]]
  <2>1. pending \in Seq(Frame)
    BY DEF TypeOK
  <2>2. t \in Seq(Frame)
    <3>1. f \in [DOMAIN pending -> DOMAIN pending]
      BY Fun_BijectionProperties
    <3>2. t \in [1..Len(pending) -> Frame] /\ Len(pending) \in Nat
      BY <2>1, <3>1
    <3>3. QED
      BY <3>2
  <2>3. FlaggedIn(t) = FlaggedIn(pending)
    BY <2>1, <2>2, FlagsArePermuted
  <2>4. QED
    BY <2>1, <2>2, <2>3, FlaggedMeaning
<1>2. QED
  BY <1>1, TypeCorrect, PTL

(* drain leaves a queue that arrived in causal order in that order. *)
THEOREM DrainKeepsArrivals == Spec => DrainKeepsCausalArrivals
<1>1. IInv /\ [Next]_vars =>
        [DrainUp /\ CausalOrder(pending) => BatchItems' = pending]_vars
  <2> SUFFICES ASSUME IInv, DrainUp, CausalOrder(pending)
               PROVE  BatchItems' = pending
    OBVIOUS
  <2>1. pending \in Seq(Frame) /\ Queue(pending)
    BY FramesAreItems DEF IInv, TypeOK
  <2>2. BatchItems' = CausalSort(pending)
    BY <2>1, BatchShape DEF DrainUp, BatchItems
  <2>3. CausalSort(pending) = [i \in DOMAIN pending |-> pending[i]]
    BY <2>1, SortPermutes, SortKeepsCausalQueue
  <2>4. QED
    BY <2>1, <2>2, <2>3
<1>2. QED
  BY <1>1, Invariance, PTL DEF Spec, DrainKeepsCausalArrivals

-----------------------------------------------------------------------------
(* Where each accepted frame is. *)

Places(s, x) == {i \in DOMAIN s : s[i] = x}

\* The places of a frame in a sequence are finitely many.
LEMMA PlacesFinite ==
    ASSUME NEW s \in Seq(Frame), NEW x
    PROVE  /\ IsFiniteSet(Places(s, x))
           /\ Times(s, x) = Cardinality(Places(s, x)) /\ Times(s, x) \in Nat
<1>1. IsFiniteSet(1..Len(s)) /\ DOMAIN s = 1..Len(s)
  BY FS_Interval
<1>2. IsFiniteSet(Places(s, x))
  BY <1>1, FS_Subset DEF Places
<1>3. QED
  BY <1>2, FS_CardinalityType DEF Places, Times

(* A frame is in two sequences as often as in one after the other. *)
LEMMA TimesConcat ==
    ASSUME NEW s \in Seq(Frame), NEW t \in Seq(Frame), NEW x
    PROVE  Times(s \o t, x) = Times(s, x) + Times(t, x)
<1> DEFINE m == Len(s)
           n == Len(t)
           u == s \o t
           A == Places(s, x)
           B == Places(t, x)
           C == {j + m : j \in B}
<1>1. /\ m \in Nat /\ n \in Nat /\ DOMAIN s = 1..m /\ DOMAIN t = 1..n
      /\ u \in Seq(Frame) /\ DOMAIN u = 1..(m + n)
      /\ \A i \in 1..m : u[i] = s[i]
      /\ \A j \in 1..n : u[j + m] = t[j]
  <2>1. /\ u \in Seq(Frame) /\ Len(u) = m + n
        /\ \A i \in 1..(m + n) : u[i] = IF i <= m THEN s[i] ELSE t[i - m]
    BY ConcatProperties
  <2>2. m \in Nat /\ n \in Nat /\ DOMAIN s = 1..m /\ DOMAIN t = 1..n
    OBVIOUS
  <2> HIDE DEF u, m, n
  <2>3. \A j \in 1..n : j + m \in 1..(m + n) /\ ~(j + m <= m) /\ j + m - m = j
    BY <2>2
  <2>4. QED
    BY <2>1, <2>2, <2>3
<1> HIDE DEF m, n, u
<1>2. Places(u, x) = A \cup C
  <2>1. \A i \in 1..(m + n) : i \in 1..m \/ (i - m \in 1..n /\ i = (i - m) + m)
    BY <1>1
  <2>2. Places(u, x) \subseteq A \cup C
    <3> SUFFICES ASSUME NEW i \in 1..(m + n), u[i] = x PROVE i \in A \cup C
      BY <1>1 DEF Places
    <3>1. CASE i \in 1..m
      BY <3>1, <1>1 DEF Places
    <3>2. CASE i - m \in 1..n /\ i = (i - m) + m
      BY <3>2, <1>1 DEF Places
    <3>3. QED
      BY <3>1, <3>2, <2>1
  <2>3. A \cup C \subseteq Places(u, x)
    BY <1>1 DEF Places
  <2>4. QED
    BY <2>2, <2>3
<1>3. A \cap C = {}
  BY <1>1 DEF Places
<1>4. /\ IsFiniteSet(A) /\ Times(s, x) = Cardinality(A) /\ Times(s, x) \in Nat
      /\ IsFiniteSet(B) /\ Times(t, x) = Cardinality(B) /\ Times(t, x) \in Nat
      /\ Times(u, x) = Cardinality(Places(u, x))
  BY <1>1, PlacesFinite
<1>5. IsFiniteSet(C) /\ Cardinality(C) = Cardinality(B)
  <2> DEFINE f == [j \in B |-> j + m]
  <2>1. B \subseteq Nat
    BY <1>1 DEF Places
  <2>2. f \in [B -> C] /\ \A c \in C : \E j \in B : f[j] = c
    OBVIOUS
  <2>3. \A j, k \in B : f[j] = f[k] => j = k
    BY <2>1, <1>1
  <2>4. f \in Bijection(B, C)
    <3> HIDE DEF f, B, C
    <3>1. QED
      BY <2>2, <2>3, Fun_IsInj, Fun_IsSurj DEF Bijection
  <2> HIDE DEF f, B, C
  <2>5. QED
    BY <2>4, <1>4, FS_Bijection, Fun_ExistsBij
<1>6. Cardinality(A \cup C) = Cardinality(A) + Cardinality(C)
  <2> HIDE DEF A, C
  <2>1. Cardinality(A \cup C) = Cardinality(A) + Cardinality(C) - Cardinality(A \cap C)
    BY <1>4, <1>5, FS_Union
  <2>2. Cardinality(A) \in Nat /\ Cardinality(C) \in Nat
    BY <1>4, <1>5
  <2>3. QED
    BY <2>1, <2>2, <1>3, FS_EmptySet
<1>7. QED
  BY <1>2, <1>4, <1>5, <1>6 DEF u

(* Sorting moves frames, and keeps how often each is there. *)
LEMMA TimesSorted ==
    ASSUME NEW q \in Seq(Frame), NEW x
    PROVE  Times(CausalSort(q), x) = Times(q, x)
<1> DEFINE t == CausalSort(q)
           g == EmissionOrder(q)
           A == Places(t, x)
           B == Places(q, x)
           f == [i \in A |-> g[i]]
<1>1. /\ t \in Seq(Frame) /\ DOMAIN t = DOMAIN q
      /\ g \in Bijection(DOMAIN q, DOMAIN q)
      /\ t = [i \in DOMAIN q |-> q[g[i]]]
  BY BatchShape, FramesAreItems, SortPermutes
<1> HIDE DEF t, g
<1>2. /\ g \in [DOMAIN q -> DOMAIN q]
      /\ \A i, j \in DOMAIN q : g[i] = g[j] => i = j
      /\ \A j \in DOMAIN q : \E i \in DOMAIN q : g[i] = j
  BY <1>1, Fun_BijectionProperties
<1>3. f \in [A -> B] /\ \A i, j \in A : f[i] = f[j] => i = j
  BY <1>1, <1>2 DEF Places
<1>4. \A j \in B : \E i \in A : f[i] = j
  <2> TAKE j \in B
  <2>1. PICK i \in DOMAIN q : g[i] = j
    BY <1>2 DEF Places
  <2>2. i \in A
    BY <2>1, <1>1 DEF Places
  <2>3. QED
    BY <2>1, <2>2
<1>5. IsFiniteSet(A) /\ Times(t, x) = Cardinality(A) /\ Times(q, x) = Cardinality(B)
  BY <1>1, PlacesFinite
<1> HIDE DEF f, A, B
<1>6. f \in Bijection(A, B)
  BY <1>3, <1>4, Fun_IsInj, Fun_IsSurj DEF Bijection
<1>7. QED
  BY <1>5, <1>6, FS_Bijection, Fun_ExistsBij DEF t

(* One more frame at the end, and one less at the front. *)
LEMMA TimesOne ==
    ASSUME NEW s \in Seq(Frame), NEW f \in Frame, NEW x
    PROVE  /\ Times(Append(s, f), x) = Times(s, x) + Times(<<f>>, x)
           /\ s # <<>> => Times(s, x) = Times(<<Head(s)>>, x) + Times(Tail(s), x)
           /\ Times(<<f>>, x) \in Nat /\ Times(<<>>, x) = 0
<1>1. <<f>> \in Seq(Frame) /\ Append(s, f) = s \o <<f>>
  OBVIOUS
<1>2. ASSUME s # <<>> PROVE Times(s, x) = Times(<<Head(s)>>, x) + Times(Tail(s), x)
  <2> DEFINE h == <<Head(s)>>
             r == Tail(s)
  <2>1. h \in Seq(Frame) /\ r \in Seq(Frame) /\ h \o r = s
    BY <1>2
  <2> HIDE DEF h, r
  <2>2. Times(h \o r, x) = Times(h, x) + Times(r, x)
    BY <2>1, TimesConcat
  <2>3. Times(s, x) = Times(h, x) + Times(r, x)
    BY <2>1, <2>2
  <2>4. QED
    BY <2>3 DEF h, r
<1>3. <<>> \in Seq(Frame) /\ Places(<<>>, x) = {}
  BY DEF Places
<1>4. Times(<<>>, x) = 0
  BY <1>3, PlacesFinite, FS_EmptySet
<1>5. Times(s \o <<f>>, x) = Times(s, x) + Times(<<f>>, x)
  BY <1>1, TimesConcat
<1>6. Times(<<f>>, x) \in Nat
  BY <1>1, PlacesFinite
<1>7. Times(Append(s, f), x) = Times(s, x) + Times(<<f>>, x)
  BY <1>1, <1>5
<1>8. QED
  BY <1>2, <1>4, <1>6, <1>7

(* NoSilentDrop of any frame, accepted or not: it is in the three places    *)
(* together as often as it was accepted.                                   *)
Ledger ==
    /\ delivered \in Seq(Frame)
    /\ \A x : Times(accepted, x) =
                Times(pending, x) + Times(delivered, x) + Times(evicted, x)

(* Push puts a frame in the queue, an eviction moves the oldest one, and a  *)
(* drain moves them all.                                                   *)
LEMMA NextLedger == IInv /\ Ledger /\ [Next]_vars => Ledger'
<1> SUFFICES ASSUME IInv, Ledger, [Next]_vars PROVE Ledger'
  OBVIOUS
<1>1. /\ accepted \in Seq(Frame) /\ pending \in Seq(Frame) /\ evicted \in Seq(Frame)
      /\ delivered \in Seq(Frame)
      /\ capacity \in Nat \ {0} /\ Len(pending) <= capacity
  BY DEF IInv, TypeOK, Bounded, Ledger
<1>2. ASSUME NEW x
      PROVE  /\ Times(accepted, x) \in Nat /\ Times(pending, x) \in Nat
             /\ Times(evicted, x) \in Nat /\ Times(delivered, x) \in Nat
             /\ Times(accepted, x) =
                   Times(pending, x) + Times(delivered, x) + Times(evicted, x)
  BY <1>1, PlacesFinite DEF Ledger
<1>3. ASSUME NEW frame \in Frame, Push(frame), PushAccepted(frame) PROVE Ledger'
  <2>1. /\ accepted' = Append(accepted, frame) /\ pending' = Append(pending, frame)
        /\ evicted' = evicted /\ delivered' = delivered
    BY <1>3 DEF Push, PushAccepted, Accept
  <2>2. ASSUME NEW x
        PROVE  Times(accepted', x) =
                 Times(pending', x) + Times(delivered', x) + Times(evicted', x)
    <3>1. /\ Times(accepted', x) = Times(accepted, x) + Times(<<frame>>, x)
          /\ Times(pending', x) = Times(pending, x) + Times(<<frame>>, x)
          /\ Times(<<frame>>, x) \in Nat
      BY <2>1, <1>1, TimesOne
    <3>2. QED
      BY <3>1, <2>1, <1>2
  <2>3. QED
    BY <1>1, <2>1, <2>2 DEF Ledger
<1>4. ASSUME NEW frame \in Frame, Push(frame), PushEvicting(frame) PROVE Ledger'
  <2> DEFINE longer == Append(pending, frame)
  <2>1. /\ accepted' = Append(accepted, frame) /\ pending' = Tail(longer)
        /\ evicted' = Append(evicted, Head(longer)) /\ delivered' = delivered
    BY <1>4 DEF Push, PushEvicting, Accept
  <2>2. /\ longer \in Seq(Frame) /\ longer # <<>>
        /\ Head(longer) \in Frame /\ Tail(longer) \in Seq(Frame)
    BY <1>1, TailOfAppend
  <2>3. ASSUME NEW x
        PROVE  Times(accepted', x) =
                 Times(pending', x) + Times(delivered', x) + Times(evicted', x)
    <3>1. /\ Times(accepted', x) = Times(accepted, x) + Times(<<frame>>, x)
          /\ Times(longer, x) = Times(pending, x) + Times(<<frame>>, x)
          /\ Times(<<frame>>, x) \in Nat
      BY <2>1, <1>1, TimesOne
    <3> HIDE DEF longer
    <3>2. /\ Times(longer, x) = Times(<<Head(longer)>>, x) + Times(pending', x)
          /\ Times(evicted', x) = Times(evicted, x) + Times(<<Head(longer)>>, x)
          /\ Times(<<Head(longer)>>, x) \in Nat
      <4>1. Times(longer, x) = Times(<<Head(longer)>>, x) + Times(Tail(longer), x)
        BY <2>2, TimesOne
      <4>2. /\ Times(Append(evicted, Head(longer)), x)
                 = Times(evicted, x) + Times(<<Head(longer)>>, x)
            /\ Times(<<Head(longer)>>, x) \in Nat
        BY <2>2, <1>1, TimesOne
      <4>3. QED
        BY <4>1, <4>2, <2>1
    <3>3. Times(pending', x) \in Nat
      BY <2>1, <2>2, PlacesFinite
    <3>4. Times(delivered', x) = Times(delivered, x)
      BY <2>1
    <3> DEFINE f == Times(<<frame>>, x)
               h == Times(<<Head(longer)>>, x)
    <3>5. /\ f \in Nat /\ h \in Nat
          /\ Times(pending, x) + f = h + Times(pending', x)
          /\ Times(accepted', x) = Times(accepted, x) + f
          /\ Times(evicted', x) = Times(evicted, x) + h
      BY <3>1, <3>2
    <3> HIDE DEF f, h
    <3>6. QED
      BY <3>3, <3>4, <3>5, <1>2
  <2>4. QED
    BY <1>1, <2>1, <2>3 DEF Ledger
<1>5. CASE Drain /\ DrainUp
  <2>1. /\ accepted' = accepted /\ evicted' = evicted /\ pending' = <<>>
        /\ delivered' = delivered \o [i \in DOMAIN batch' |-> batch'[i].buffered]
        /\ batch' = AnnotateOrderUnknown(CausalSort(pending))
    BY <1>5 DEF Drain, DrainUp
  <2>2. /\ delivered' = delivered \o CausalSort(pending)
        /\ CausalSort(pending) \in Seq(Frame)
    BY <2>1, <1>1, BatchShape
  <2>3. delivered' \in Seq(Frame)
    BY <2>2, <1>1
  <2>4. ASSUME NEW x
        PROVE  Times(accepted', x) =
                 Times(pending', x) + Times(delivered', x) + Times(evicted', x)
    <3>1. Times(delivered', x) = Times(delivered, x) + Times(pending, x)
      BY <2>2, <1>1, TimesConcat, TimesSorted
    <3>2. Times(pending', x) = 0
      <4>1. <<>> \in Seq(Frame) /\ Places(<<>>, x) = {}
        BY DEF Places
      <4>2. QED
        BY <4>1, <2>1, PlacesFinite, FS_EmptySet
    <3>3. QED
      BY <3>1, <3>2, <2>1, <1>2
  <2>5. QED
    BY <2>3, <2>4 DEF Ledger
<1>6. CASE UNCHANGED <<accepted, pending, delivered, evicted>>
  BY <1>6 DEF Ledger
<1>7. QED
  <2>1. ASSUME NEW frame \in Frame, Push(frame), PushRejected(frame) PROVE Ledger'
    BY <2>1, <1>6 DEF Push, PushRejected
  <2>2. ASSUME NEW state \in LinkState, SetLink(state) PROVE Ledger'
    BY <2>2, <1>6 DEF SetLink, history
  <2>3. CASE Drain /\ DrainDown
    BY <2>3, <1>6 DEF Drain, DrainDown
  <2>4. CASE UNCHANGED vars
    BY <2>4, <1>6 DEF vars, history
  <2>5. QED
    BY <1>3, <1>4, <1>5, <2>1, <2>2, <2>3, <2>4 DEF Next, Push, Drain

(* No accepted frame is dropped in silence or handed out twice: it is in     *)
(* exactly one of the queue, the batches of drain and the evictions of push. *)
THEOREM NothingIsDropped == Spec => []NoSilentDrop
<1>1. Init => Ledger
  <2> SUFFICES ASSUME Init PROVE Ledger
    OBVIOUS
  <2>1. /\ accepted = <<>> /\ pending = <<>> /\ evicted = <<>> /\ delivered = <<>>
        /\ <<>> \in Seq(Frame)
    BY DEF Init
  <2>2. ASSUME NEW x PROVE Times(<<>>, x) = 0
    <3>1. Places(<<>>, x) = {}
      BY DEF Places
    <3>2. QED
      BY <2>1, <3>1, PlacesFinite, FS_EmptySet
  <2>3. QED
    BY <2>1, <2>2 DEF Ledger
<1>2. Ledger => NoSilentDrop
  BY DEF Ledger, NoSilentDrop
<1>3. QED
  BY <1>1, <1>2, NextLedger, Invariance, PTL DEF Spec

-----------------------------------------------------------------------------
(* The buffer keeps the promise of CausalOutbox. *)

(* The outbox speaks of clocks and reorderings as the buffer does. *)
LEMMA SameOrders ==
    /\ \A t : Outbox!CausalOrder(t) <=> CausalOrder(t)
    /\ \A S : Outbox!Bijection(S, S) = Bijection(S, S)
<1>1. \A c, d : Outbox!HappensBefore(c, d) <=> HappensBefore(c, d)
  BY DEF Outbox!HappensBefore, Outbox!Relation, Outbox!SomeLess,
         HappensBefore, Relation, SomeLess
<1>2. \A t : Outbox!CausalOrder(t) <=> CausalOrder(t)
  BY <1>1 DEF Outbox!CausalOrder, CausalOrder
<1>3. \A S : Outbox!Bijection(S, S) = Bijection(S, S)
  BY Zenon DEF Outbox!Bijection, Outbox!Injection, Outbox!Surjection,
     Outbox!IsInjective, Bijection, Injection, Surjection, IsInjective
<1>4. QED
  BY <1>2, <1>3

\* The content of a frame, and the contents accepted so far.
ContentOf == [f \in Frame |-> <<f.envelope.platform_id, f.envelope.content>>]

Contents ==
    {<<accepted[i].envelope.platform_id, accepted[i].envelope.content>> :
        i \in DOMAIN accepted}

(* A queue sorted is one of the orders the outbox may release. *)
LEMMA SortedIsExtension ==
    ASSUME NEW q \in Seq(Frame)
    PROVE  CausalSort(q) \in Outbox!LinearExtensions(q)
<1> DEFINE g == EmissionOrder(q)
<1>1. /\ g \in Bijection(DOMAIN q, DOMAIN q)
      /\ CausalSort(q) = [i \in DOMAIN q |-> q[g[i]]]
      /\ CausalOrder(CausalSort(q))
  BY FramesAreItems, SortPermutes, SortIsCausal
<1> HIDE DEF g
<1>2. g \in Outbox!Bijection(DOMAIN q, DOMAIN q) /\ Outbox!CausalOrder(CausalSort(q))
  BY <1>1, SameOrders
<1>3. CausalSort(q) \in {[i \in DOMAIN q |-> q[p[i]]] :
                            p \in Outbox!Bijection(DOMAIN q, DOMAIN q)}
  BY <1>1, <1>2, Zenon
<1>4. QED
  BY <1>2, <1>3, Zenon DEF Outbox!LinearExtensions

\* A frame push refuses has a content accepted before.
LEMMA RefusedIsSeen ==
    ASSUME IInv, NEW frame \in Frame, KnownReplay(frame)
    PROVE  ContentOf[frame] \in Contents
<1> DEFINE n == Len(accepted)
           w == Len(replay_window)
<1>1. PICK i \in DOMAIN replay_window : replay_window[i] = ReplayKey(frame.envelope)
  BY DEF KnownReplay
<1>2. /\ n \in Nat /\ w \in Nat /\ w <= n /\ i \in 1..w
      /\ DOMAIN accepted = 1..n
      /\ replay_window[i] = ReplayKey(accepted[n - w + i].envelope)
  BY DEF IInv, TypeOK, WindowIsMostRecent, AcceptedKey
<1>3. n - w + i \in 1..n
  BY <1>2
<1>4. ContentOf[frame] = ReplayKey(accepted[n - w + i].envelope)
  BY <1>1, <1>2 DEF ContentOf, ReplayKey
<1>5. QED
  BY <1>2, <1>3, <1>4 DEF Contents, ReplayKey

\* A frame push accepts adds its own content to those seen.
LEMMA AcceptedIsSeen ==
    ASSUME accepted \in Seq(Frame), NEW frame \in Frame,
           accepted' = Append(accepted, frame)
    PROVE  Contents' = Contents \cup {ContentOf[frame]}
<1> DEFINE n    == Len(accepted)
           c(f) == <<f.envelope.platform_id, f.envelope.content>>
<1>1. /\ n \in Nat /\ DOMAIN accepted = 1..n /\ DOMAIN accepted' = 1..(n + 1)
      /\ \A i \in 1..n : accepted'[i] = accepted[i]
      /\ accepted'[n + 1] = frame
      /\ 1..(n + 1) = (1..n) \cup {n + 1}
  BY AppendProperties
<1>2. ContentOf[frame] = c(frame)
  BY DEF ContentOf
<1>3. /\ Contents  = {c(accepted[i]) : i \in 1..n}
      /\ Contents' = {c(accepted'[i]) : i \in 1..(n + 1)}
  BY <1>1 DEF Contents
<1> HIDE DEF c
<1>4. {c(accepted'[i]) : i \in 1..(n + 1)} = {c(accepted[i]) : i \in 1..n} \cup {c(frame)}
  BY <1>1
<1>5. QED
  BY <1>2, <1>3, <1>4

(* An empty buffer is an empty outbox. *)
LEMMA InitImplements == Init => Outbox!Init
<1> SUFFICES ASSUME Init PROVE Outbox!Init
  OBVIOUS
<1>1. capacity \in Nat \ {0}
  BY InitIInv DEF IInv, TypeOK
<1>2. accepted = <<>> /\ DOMAIN accepted = {}
  BY DEF Init
<1>3. QED
  BY <1>1, <1>2 DEF Init, Outbox!Init

(* Every call on the buffer is a step of the outbox, or no step of it. *)
LEMMA NextImplements == IInv /\ [Next]_vars => [Outbox!Next]_Outbox!vars
<1> SUFFICES ASSUME IInv, [Next]_vars PROVE [Outbox!Next]_Outbox!vars
  OBVIOUS
<1>1. /\ pending \in Seq(Frame) /\ accepted \in Seq(Frame)
      /\ capacity \in Nat \ {0} /\ Len(pending) <= capacity /\ Len(pending) \in Nat
  BY DEF IInv, TypeOK, Bounded
<1>2. ASSUME NEW state \in LinkState, SetLink(state) PROVE Outbox!Gate
  BY <1>2 DEF SetLink, Outbox!Gate, config, history
<1>3. ASSUME NEW frame \in Frame, Push(frame), PushRejected(frame)
      PROVE  Outbox!Refuse(frame)
  <2>1. ContentOf[frame] \in Contents
    BY <1>3, RefusedIsSeen DEF PushRejected
  <2>2. QED
    BY <1>3, <2>1 DEF Push, PushRejected, config, Outbox!Refuse, ContentOf, Contents
<1>4. ASSUME NEW frame \in Frame, Push(frame), PushAccepted(frame)
      PROVE  Outbox!Take(frame)
  <2>1. Contents' = Contents \cup {ContentOf[frame]}
    BY <1>1, <1>4, AcceptedIsSeen DEF PushAccepted, Accept
  <2>2. Len(pending) < capacity
    BY <1>1, <1>4 DEF PushAccepted
  <2>3. QED
    BY <1>4, <2>1, <2>2 DEF Push, PushAccepted, Accept, config, Outbox!Take,
                            ContentOf, Contents
<1>5. ASSUME NEW frame \in Frame, Push(frame), PushEvicting(frame)
      PROVE  Outbox!Take(frame)
  <2>1. Contents' = Contents \cup {ContentOf[frame]}
    BY <1>1, <1>5, AcceptedIsSeen DEF PushEvicting, Accept
  <2>2. Len(pending) = capacity /\ pending # <<>>
    BY <1>1, <1>5 DEF PushEvicting
  <2>3. /\ Head(Append(pending, frame)) = Head(pending)
        /\ Tail(Append(pending, frame)) = Append(Tail(pending), frame)
    BY <1>1, <2>2
  <2>4. QED
    BY <1>5, <2>1, <2>2, <2>3 DEF Push, PushEvicting, Accept, config, Outbox!Take,
                                  ContentOf, Contents
<1>6. CASE Drain /\ DrainDown
  BY <1>6 DEF Drain, DrainDown, config, Outbox!vars
<1>7. ASSUME Drain, DrainUp PROVE Outbox!Release
  <2>1. link = "Up"
    BY <1>7 DEF DrainUp, IInv, TypeOK, LinkState
  <2>2. delivered' = delivered \o CausalSort(pending)
    BY <1>1, <1>7, BatchShape DEF DrainUp
  <2>3. CausalSort(pending) \in Outbox!LinearExtensions(pending)
    BY <1>1, SortedIsExtension
  <2>4. QED
    BY <1>7, <2>1, <2>2, <2>3 DEF Drain, DrainUp, config, Outbox!Release
<1>8. CASE UNCHANGED vars
  BY <1>8 DEF vars, config, history, Outbox!vars
<1>9. QED
  BY <1>2, <1>3, <1>4, <1>5, <1>6, <1>7, <1>8 DEF Next, Push, Drain, Outbox!Next

(* StoreAndForwardBuffer implements a causal outbox, whatever is pushed and  *)
(* whatever the link does between the calls.                               *)
THEOREM BufferIsAnOutbox == Spec => ImplementsOutbox
BY InitImplements, NextImplements, Invariance, PTL
   DEF Spec, ImplementsOutbox, Outbox!Spec
=============================================================================
