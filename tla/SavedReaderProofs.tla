------------------------- MODULE SavedReaderProofs -------------------------
(***************************************************************************)
(* Proofs about the readers of one saved file: which response answers      *)
(* which request (RequestMatch), which CAN frames make a transfer          *)
(* (CanTransport), which packet an extended RTP number names (RtpRecords), *)
(* which packets make an H.264 stream (RtpH264), and what a sequence of    *)
(* records shows (SavedEvents).  Each section stands on its own.           *)
(***************************************************************************)
EXTENDS SavedEvents, RequestMatch, CanTransport, RtpRecords, RtpH264, OrderLemmas, SequenceTheorems

-----------------------------------------------------------------------------
(* Requests and responses. *)

(* Every request is read against all rows at once, so all that is kept from *)
(* step to step is that the rows are rows and that the outcomes, once they  *)
(* are there, are those of the rows read.                                   *)
MatchInv ==
    /\ mDeclared \in Declarations
    /\ mRows \in Seq(MatchRows)
    /\ mVerdict = "reading" => DOMAIN mOutcomes = {}
    /\ \A i \in DOMAIN mOutcomes : i \in Requests /\ mOutcomes[i] = Outcome(i)

(* Rows carry times and the window is a number. *)
LEMMA MatchTimes ==
    ASSUME MatchInv
    PROVE  /\ mDeclared.window \in Nat
           /\ IsFiniteSet(DOMAIN mRows) /\ DOMAIN mRows \subseteq Nat \ {0}
           /\ \A i \in DOMAIN mRows : mRows[i].time \in Nat /\ Until(i) \in Nat
<1>1. mDeclared.window \in Nat
  BY MatchAssumption DEF MatchInv
<1>2. DOMAIN mRows = 1..Len(mRows) /\ Len(mRows) \in Nat
      /\ \A i \in DOMAIN mRows : mRows[i] \in MatchRows
  BY LenProperties, ElementOfSeq DEF MatchInv
<1>3. \A i \in DOMAIN mRows : mRows[i].time \in Nat
  BY <1>2, MatchAssumption
<1>4. IsFiniteSet(DOMAIN mRows)
  BY <1>2, FS_Interval
<1>5. QED
  BY <1>1, <1>2, <1>3, <1>4 DEF Until

(* A conclusion is drawn only without a doubt, and from a candidate. *)
LEMMA OutcomeMeaning ==
    ASSUME NEW i
    PROVE  /\ Outcome(i).reasons = Standing \cup Doubts(i)
           /\ Outcome(i).answer # 0 =>
                 /\ Standing = {} /\ Doubts(i) = {}
                 /\ Outcome(i).answer \in Candidates(i)
<1> DEFINE reasons == Standing \cup Doubts(i)
           answer  == CHOOSE j \in Candidates(i) : TRUE
<1>1. CASE reasons # {}
  <2>1. Outcome(i) = [outcome |-> "AMBIGUOUS", reasons |-> reasons, answer |-> 0]
    BY <1>1 DEF Outcome
  <2>2. QED
    BY <2>1
<1>2. CASE reasons = {} /\ Candidates(i) = {}
  <2>1. Outcome(i) = [outcome |-> "MISSING", reasons |-> reasons, answer |-> 0]
    BY <1>2 DEF Outcome
  <2>2. QED
    BY <2>1
<1>3. CASE reasons = {} /\ Candidates(i) # {}
  <2>1. \E what : Outcome(i) = [outcome |-> what, reasons |-> reasons, answer |-> answer]
    BY <1>3 DEF Outcome
  <2>2. answer \in Candidates(i)
    BY <1>3
  <2>3. QED
    BY <1>3, <2>1, <2>2
<1>4. QED
  BY <1>1, <1>2, <1>3

(* No doubt at all: the identity and the session are declared, no other     *)
(* request of the party is outstanding, none follows inside the window.     *)
LEMMA NoDoubt ==
    ASSUME NEW i, Standing = {}, Doubts(i) = {}
    PROVE  /\ mDeclared.identity = "complete" /\ mDeclared.session
           /\ ~Outstanding(i) /\ ~Retried(i)
<1>1. mDeclared.identity = "complete" /\ mDeclared.session
  <2>1. "identity" \notin Standing /\ "session" \notin Standing
    OBVIOUS
  <2>2. QED
    BY <2>1 DEF Standing
<1>2. ~Outstanding(i) /\ ~Retried(i)
  <2>1. "outstanding" \notin Doubts(i) /\ "retry" \notin Doubts(i)
    OBVIOUS
  <2>2. QED
    BY <2>1 DEF Doubts
<1>3. QED
  BY <1>1, <1>2

(* A doubt of the class of outstanding requests is one of the reasons. *)
LEMMA OutstandingIsAReason ==
    ASSUME NEW i
    PROVE  "outstanding" \in Outcome(i).reasons <=> Outstanding(i)
<1>1. "outstanding" \notin Standing
  BY DEF Standing
<1>2. "outstanding" \in Doubts(i) <=> Outstanding(i)
  BY DEF Doubts
<1>3. QED
  BY <1>1, <1>2, OutcomeMeaning

(* Two requests that have a reply in common belong to the same key and the  *)
(* same party: the later one is a retry of the earlier, and of two at the   *)
(* same time either is outstanding when the other is asked.                 *)
LEMMA SharedReplyIsDoubtful ==
    ASSUME MatchInv, NEW i \in Requests, NEW k \in Requests, i # k,
           NEW j, j \in Candidates(i), j \in Candidates(k),
           mRows[i].time <= mRows[k].time
    PROVE  Retried(i) \/ Outstanding(k)
<1>1. /\ j \in DOMAIN mRows /\ i \in DOMAIN mRows /\ k \in DOMAIN mRows
      /\ mRows[j].key = mRows[i].key /\ mRows[j].key = mRows[k].key
      /\ Party(j) = Party(i) /\ Party(j) = Party(k)
      /\ mRows[j].time <= Until(i) /\ mRows[k].time < mRows[j].time
  BY DEF Candidates, Between, Answers, OfKey, Responses, Requests
<1>2. k \in Peers(i) /\ i \in Peers(k)
  BY <1>1 DEF Peers
<1>3. /\ mRows[i].time \in Nat /\ mRows[j].time \in Nat /\ mRows[k].time \in Nat
      /\ Until(i) \in Nat
  BY <1>1, MatchTimes
<1>4. CASE mRows[i].time < mRows[k].time
  <2>1. k \in Between(Peers(i), mRows[i].time, Until(i))
    BY <1>1, <1>2, <1>3, <1>4 DEF Between
  <2>2. QED
    BY <2>1 DEF Retried
<1>5. CASE mRows[i].time = mRows[k].time
  <2>1. \A m \in Peers(k) : mRows[m].time <= mRows[k].time => mRows[m].time <= mRows[i].time
    BY <1>5
  <2>2. Between(Clearing(k), mRows[i].time, mRows[k].time) = {}
    <3>1. Clearing(k) \subseteq DOMAIN mRows
      BY DEF Clearing, Answers, OfKey, Responses
    <3>2. \A m \in Clearing(k) : mRows[m].time \in Nat
      BY <3>1, MatchTimes
    <3>3. QED
      BY <1>3, <1>5, <3>2 DEF Between
  <2>3. mRows[i].time <= mRows[k].time
    OBVIOUS
  <2>4. QED
    BY <1>2, <2>1, <2>2, <2>3 DEF Outstanding
<1>6. QED
  BY <1>3, <1>4, <1>5

(* No reply is credited to two requests, and none of another key, party or  *)
(* window is credited at all.                                               *)
LEMMA SoundReplies == MatchInv => RepliesAreNotShared
<1> SUFFICES ASSUME MatchInv, NEW i \in DOMAIN mOutcomes, Concluded(i)
             PROVE  LET j == mOutcomes[i].answer IN
                    /\ \A k \in DOMAIN mOutcomes \ {i} : mOutcomes[k].answer # j
                    /\ mRows[j].key = mRows[i].key /\ mRows[j].id = mRows[i].id
                    /\ mRows[j].id # Blank
                    /\ mRows[j].session = mRows[i].session
                    /\ mRows[i].time < mRows[j].time /\ mRows[j].time <= Until(i)
  BY DEF RepliesAreNotShared
<1> DEFINE j == mOutcomes[i].answer
<1>1. \A k \in DOMAIN mOutcomes : k \in Requests /\ mOutcomes[k] = Outcome(k)
  BY DEF MatchInv
<1>2. \A k \in DOMAIN mOutcomes : Concluded(k) =>
         /\ Standing = {} /\ Doubts(k) = {}
         /\ mOutcomes[k].answer \in Candidates(k)
  BY <1>1, OutcomeMeaning DEF Concluded
<1>3. /\ Standing = {} /\ j \in Candidates(i)
      /\ mDeclared.identity = "complete" /\ mDeclared.session
      /\ ~Outstanding(i) /\ ~Retried(i)
  BY <1>2, NoDoubt
<1>4. ASSUME NEW k \in DOMAIN mOutcomes \ {i} PROVE mOutcomes[k].answer # j
  <2> SUFFICES ASSUME mOutcomes[k].answer = j PROVE FALSE
    OBVIOUS
  <2>1. Concluded(k)
    BY DEF Concluded
  <2>2. j \in Candidates(k) /\ ~Outstanding(k) /\ ~Retried(k)
    BY <1>2, <2>1, NoDoubt
  <2>3. i \in Requests /\ k \in Requests
    BY <1>1
  <2>4. mRows[i].time <= mRows[k].time \/ mRows[k].time <= mRows[i].time
    BY <2>3, MatchTimes DEF Requests
  <2> HIDE DEF j
  <2>5. QED
    BY <1>3, <2>2, <2>3, <2>4, SharedReplyIsDoubtful
<1>5. /\ mRows[j].key = mRows[i].key /\ Reports(j) /\ Party(j) = Party(i)
      /\ mRows[i].time < mRows[j].time /\ mRows[j].time <= Until(i)
  BY <1>3 DEF Candidates, Between, Answers, OfKey
<1>6. mRows[j].id = mRows[i].id /\ mRows[j].session = mRows[i].session
  BY <1>3, <1>5 DEF Party, Identity, Session
<1>7. mRows[j].id # Blank
  BY <1>3, <1>5 DEF Reports, BlankIdentity, Identity
<1>8. QED
  BY <1>4, <1>5, <1>6, <1>7

(* The latest of the earlier requests has the shortest wait: if any of them *)
(* was not cleared, the latest one was not.                                 *)
LEMMA LatestSettlesTheClass ==
    ASSUME MatchInv, NEW i \in Requests, NEW j \in Peers(i),
           mRows[j].time <= mRows[i].time,
           Between(Clearing(i), mRows[j].time, mRows[i].time) = {}
    PROVE  Outstanding(i)
<1> DEFINE E  == {m \in Peers(i) : mRows[m].time <= mRows[i].time}
           Lt == {p \in E \X E : mRows[p[2]].time < mRows[p[1]].time}
<1>1. E \subseteq DOMAIN mRows /\ \A m \in E : mRows[m].time \in Nat
  BY MatchTimes DEF Peers, Requests
<1>2. IsFiniteSet(E) /\ j \in E
  <2>1. E \subseteq DOMAIN mRows /\ IsFiniteSet(DOMAIN mRows)
    BY <1>1, MatchTimes
  <2> HIDE DEF E
  <2>2. IsFiniteSet(E)
    BY <2>1, FS_Subset
  <2>3. QED
    BY <2>2 DEF E
<1>3. \A x, y \in E : <<x, y>> \in Lt <=> mRows[y].time < mRows[x].time
  OBVIOUS
<1>4. PICK m \in E : \A n \in E : <<n, m>> \notin Lt
  <2>1. \A x \in E : <<x, x>> \notin Lt
    BY <1>1, <1>3
  <2>2. \A x, y, z \in E : <<x, y>> \in Lt /\ <<y, z>> \in Lt => <<x, z>> \in Lt
    BY <1>1, <1>3
  <2> HIDE DEF E, Lt
  <2>3. QED
    BY <1>2, <2>1, <2>2, MinimalElement
<1>5. ASSUME NEW n \in E PROVE mRows[n].time <= mRows[m].time
  <2>1. mRows[n].time \in Nat /\ mRows[m].time \in Nat
    BY <1>1
  <2>2. ~(mRows[m].time < mRows[n].time)
    BY <1>3, <1>4
  <2>3. QED
    BY <2>1, <2>2
<1>6. Between(Clearing(i), mRows[m].time, mRows[i].time) = {}
  <2>1. mRows[j].time <= mRows[m].time
    BY <1>2, <1>5
  <2>2. Clearing(i) \subseteq DOMAIN mRows
    BY DEF Clearing, Answers, OfKey, Responses
  <2>3. \A n \in Clearing(i) : mRows[n].time \in Nat
    BY <2>2, MatchTimes
  <2>4. mRows[j].time \in Nat /\ mRows[m].time \in Nat
    BY <1>1, <1>2
  <2>5. QED
    BY <2>1, <2>3, <2>4 DEF Between
<1>7. QED
  BY <1>4, <1>5, <1>6 DEF Outstanding

(* Asking the latest other request is asking them all. *)
LEMMA SoundClass == MatchInv => NoneLeftOutstanding
<1> SUFFICES ASSUME MatchInv, NEW i \in DOMAIN mOutcomes
             PROVE  (\E j \in Peers(i) :
                        /\ mRows[j].time <= mRows[i].time
                        /\ Between(Clearing(i), mRows[j].time, mRows[i].time) = {})
                    <=> "outstanding" \in mOutcomes[i].reasons
  BY DEF NoneLeftOutstanding
<1>1. i \in Requests /\ ("outstanding" \in mOutcomes[i].reasons <=> Outstanding(i))
  BY OutstandingIsAReason DEF MatchInv
<1>2. Outstanding(i) => \E j \in Peers(i) :
         /\ mRows[j].time <= mRows[i].time
         /\ Between(Clearing(i), mRows[j].time, mRows[i].time) = {}
  BY DEF Outstanding
<1>3. QED
  BY <1>1, <1>2, LatestSettlesTheClass

(* An outcome depends on the rows and the declaration only. *)
LEMMA SameOutcome ==
    ASSUME mDeclared' = mDeclared, mRows' = mRows, NEW i
    PROVE  Outcome(i)' = Outcome(i)
<1>1. /\ Requests' = Requests /\ Responses' = Responses /\ Until(i)' = Until(i)
      /\ Standing' = Standing
  BY DEF Requests, Responses, Until, Standing
<1>2. \A j : /\ Identity(j)' = Identity(j) /\ Session(j)' = Session(j)
             /\ Party(j)' = Party(j)
             /\ BlankIdentity(j)' = BlankIdentity(j)
             /\ BlankSession(j)' = BlankSession(j) /\ Reports(j)' = Reports(j)
  BY DEF Identity, Session, Party, BlankIdentity, BlankSession, Reports
<1>3. \A S, a, b : Between(S, a, b)' = Between(S, a, b)
  BY DEF Between
<1>4. OfKey(i)' = OfKey(i) /\ Answers(i)' = Answers(i) /\ Peers(i)' = Peers(i)
      /\ Clearing(i)' = Clearing(i)
  BY <1>1, <1>2 DEF OfKey, Answers, Peers, Clearing
<1>5. Candidates(i)' = Candidates(i)
  BY <1>1, <1>3, <1>4 DEF Candidates
<1>6. Outstanding(i)' = Outstanding(i) /\ Retried(i)' = Retried(i)
  BY <1>1, <1>3, <1>4 DEF Outstanding, Retried
<1>7. Doubts(i)' = Doubts(i)
  BY <1>1, <1>2, <1>3, <1>4, <1>5, <1>6 DEF Doubts
<1>8. QED
  BY <1>1, <1>5, <1>7 DEF Outcome

(* Rows are only read before anything is concluded, and afterwards nothing  *)
(* changes any more.                                                        *)
LEMMA NextMatchInv == MatchInv /\ [MatchNext]_mVars => MatchInv'
<1> SUFFICES ASSUME MatchInv, [MatchNext]_mVars PROVE MatchInv'
  OBVIOUS
<1>1. ASSUME NEW r \in MatchRows, ReadRow(r) PROVE MatchInv'
  <2>1. mRows' \in Seq(MatchRows)
    BY <1>1 DEF ReadRow, MatchInv
  <2>2. QED
    BY <1>1, <2>1 DEF ReadRow, MatchInv
<1>2. ASSUME NEW r \in MatchRows, RefuseDecreasing(r) PROVE MatchInv'
  BY <1>2 DEF RefuseDecreasing, MatchInv
<1>3. CASE ConvertRows
  <2>1. /\ mDeclared' = mDeclared /\ mRows' = mRows /\ mVerdict' # "reading"
        /\ mOutcomes' = [i \in Requests |-> Outcome(i)]
    BY <1>3 DEF ConvertRows
  <2>2. Requests' = Requests
    BY <2>1 DEF Requests
  <2>3. \A i : Outcome(i)' = Outcome(i)
    BY <2>1, SameOutcome
  <2>4. QED
    BY <2>1, <2>2, <2>3 DEF MatchInv
<1>4. CASE UNCHANGED mVars
  <2>1. mDeclared' = mDeclared /\ mRows' = mRows /\ mVerdict' = mVerdict /\ mOutcomes' = mOutcomes
    BY <1>4 DEF mVars
  <2>2. Requests' = Requests
    BY <2>1 DEF Requests
  <2>3. \A i : Outcome(i)' = Outcome(i)
    BY <2>1, SameOutcome
  <2>4. QED
    BY <2>1, <2>2, <2>3 DEF MatchInv
<1>5. QED
  BY <1>1, <1>2, <1>3, <1>4 DEF MatchNext

(* Whatever rows a saved file holds and whatever the caller declares, a     *)
(* reply is credited to at most one request, of its own key and party and   *)
(* inside its window, and asking the latest other request finds every       *)
(* request still outstanding (convert_request_response_match.convert).      *)
THEOREM OutcomesAreSound == MatchSpec => []MatchesAreSound
<1>1. MatchInit => MatchInv
  BY DEF MatchInit, MatchInv
<1>2. MatchInv => MatchesAreSound
  BY SoundReplies, SoundClass DEF MatchesAreSound
<1>3. QED
  BY <1>1, <1>2, NextMatchInv, PTL DEF MatchSpec

-----------------------------------------------------------------------------
(* CAN transfers. *)

CanKeys == {f.key : f \in UNION {CanFrames[p] : p \in Protocols}}

Transfer == [key : CanKeys, frames : Seq(Nat), first : Nat, next : Nat, packets : Nat,
             maximum : Nat, granted : Int, grants : Seq(Nat \X Nat), state : {"CTS", "DT", "ACK"}]

(* The frames of c at the positions a transfer kept. *)
SentIn(c, frames) == [i \in DOMAIN frames |-> c[frames[i]]]

(* Up to a position nothing of the key was left out. *)
Gathered(c, t, upto) ==
    ToSet(t.frames) = {i \in t.frames[1]..upto : c[i].key = t.key /\ c[i].kind # "single"}

(* Between a grant and its last packet a transfer is in DT; the grants tile  *)
(* the packets sent (CTS), those the open grant covers (DT), or all (ACK).   *)
UnderControl(s, t) ==
    /\ s[1].kind = "rts" /\ t.maximum = s[1].m
    /\ FlowControlled(s)
    /\ t.state = "CTS" => Tile(t.grants, t.next - 1)
    /\ t.state = "DT" => \E g \in DOMAIN s :
          /\ s[g].kind = "cts" /\ \A j \in DOMAIN s : g < j => s[j].kind = "data"
          /\ t.next \in s[g].n..(s[g].n + s[g].m - 1)
          /\ t.granted = s[g].n + s[g].m - t.next
          /\ s[g].n + s[g].m - 1 <= t.packets
          /\ Tile(t.grants, s[g].n + s[g].m - 1)
    /\ t.state = "ACK" => t.next = t.packets + 1 /\ Tile(t.grants, t.packets)

(* What an open transfer of key k has gathered from the capture c. *)
Opened(p, c, k, t) ==
    /\ t.key = k /\ t.frames \in Seq(1..Len(c)) /\ t.frames # <<>>
    /\ Gathered(c, t, Len(c))
    /\ c[t.frames[1]].kind # "other" /\ t.first = c[t.frames[1]].time
    /\ p \in {"bam", "rts"} => CountsOver(SentIn(c, t.frames), 1..(t.next - 1))
    /\ p \in {"bam", "rts"} => t.packets = c[t.frames[1]].n /\ 1 <= t.next
    /\ p = "nmea" => CountsOver(SentIn(c, t.frames), 0..(t.next - 1))
    /\ p = "rts" => UnderControl(SentIn(c, t.frames), t)

(* What a decoded one keeps. *)
Rebuilt(p, c, t) ==
    LET s == SentIn(c, t.frames)
        l == t.frames[Len(t.frames)]
    IN /\ t.frames \in Seq(1..Len(c)) /\ t.frames # <<>>
       /\ Len(t.frames) > 1 => Gathered(c, t, l)
       /\ p = "dronecan" => c[l].time - c[t.frames[1]].time <= TransferTimeout
       /\ p \in {"bam", "rts"} /\ s[1].kind # "single" => CountsOver(s, 1..s[1].n)
       /\ p = "nmea" => CountsOver(s, 0..3)
       /\ p = "rts" => /\ s[Len(s)].kind = "ack" /\ FlowControlled(s)
                       /\ Tile(t.grants, s[1].n)

CanType ==
    /\ canProtocol \in Protocols
    /\ canCapture \in Seq(CanFrames[canProtocol])
    /\ canPending \in [DOMAIN canPending -> Transfer] /\ DOMAIN canPending \subseteq CanKeys
    /\ canDone \in Seq(Transfer)
    /\ canUnsupported \subseteq DOMAIN canCapture
    /\ canVerdict \in {"reading", "refused", "converted"}

OpenTransfers ==
    canVerdict # "refused" =>
        \A k \in DOMAIN canPending : Opened(canProtocol, canCapture, k, canPending[k])

DoneTransfers == \A j \in DOMAIN canDone : Rebuilt(canProtocol, canCapture, canDone[j])

(* Each frame is in one place: a decoded transfer, an open one, or the list. *)
InDone(done, i)       == {j \in DOMAIN done : i \in ToSet(done[j].frames)}
InPending(pending, i) == {k \in DOMAIN pending : i \in ToSet(pending[k].frames)}

Placed(listed, closed, open) ==
    \/ listed /\ closed = {} /\ open = {}
    \/ ~listed /\ open = {} /\ \E j : closed = {j}
    \/ ~listed /\ closed = {} /\ \E k : open = {k}

OnePlace ==
    canVerdict # "refused" => \A i \in DOMAIN canCapture :
        Placed(i \in canUnsupported, InDone(canDone, i), InPending(canPending, i))

ConvertedIsClosed == canVerdict = "converted" => DOMAIN canPending = {}

CanInv == CanType /\ OpenTransfers /\ DoneTransfers /\ OnePlace /\ ConvertedIsClosed

(* Reading one more frame changes nothing at the positions already kept. *)
LEMMA SentKept ==
    ASSUME NEW S, NEW c \in Seq(S), NEW f \in S, NEW frames \in Seq(1..Len(c))
    PROVE  /\ Append(c, f) \in Seq(S) /\ Len(Append(c, f)) = Len(c) + 1
           /\ \A i \in 1..Len(c) : Append(c, f)[i] = c[i]
           /\ Append(c, f)[Len(c) + 1] = f
           /\ frames \in Seq(1..Len(Append(c, f)))
           /\ \A i \in DOMAIN frames : frames[i] \in 1..Len(c)
           /\ SentIn(Append(c, f), frames) = SentIn(c, frames)
<1>1. /\ Append(c, f) \in Seq(S) /\ Len(Append(c, f)) = Len(c) + 1
      /\ \A i \in 1..Len(c) : Append(c, f)[i] = c[i]
      /\ Append(c, f)[Len(c) + 1] = f
  OBVIOUS
<1>2. frames \in Seq(1..Len(Append(c, f)))
  <2>1. 1..Len(c) \subseteq 1..Len(Append(c, f))
    BY <1>1
  <2>2. QED
    BY <2>1, SeqMonotonic
<1>3. \A i \in DOMAIN frames : frames[i] \in 1..Len(c)
  BY ElementOfSeq, LenProperties
<1>4. \A i \in DOMAIN frames : Append(c, f)[frames[i]] = c[frames[i]]
  BY <1>1, <1>3
<1>5. QED
  BY <1>1, <1>2, <1>3, <1>4 DEF SentIn

(* The frames of a transfer that keeps the new position end with the new frame. *)
LEMMA SentGrown ==
    ASSUME NEW S, NEW c \in Seq(S), NEW f \in S, NEW frames \in Seq(1..Len(c))
    PROVE  /\ SentIn(c, frames) \in Seq(S) /\ Len(SentIn(c, frames)) = Len(frames)
           /\ Append(frames, Len(c) + 1) \in Seq(1..Len(Append(c, f)))
           /\ SentIn(Append(c, f), Append(frames, Len(c) + 1)) = Append(SentIn(c, frames), f)
<1> DEFINE s  == SentIn(c, frames)
           n  == Len(frames)
           s2 == SentIn(Append(c, f), Append(frames, Len(c) + 1))
<1>1. n \in Nat /\ DOMAIN frames = 1..n /\ \A i \in 1..n : frames[i] \in 1..Len(c)
  BY LenProperties, ElementOfSeq
<1>2. s = [i \in 1..n |-> c[frames[i]]] /\ \A i \in 1..n : c[frames[i]] \in S
  BY <1>1, ElementOfSeq DEF SentIn
<1>3. s \in Seq(S) /\ Len(s) = n /\ \A i \in 1..n : s[i] = c[frames[i]]
  <2>1. s \in [1..n -> S]
    BY <1>2
  <2>2. s \in Seq(S)
    BY <1>1, <2>1, SeqDef
  <2>3. DOMAIN s = 1..n
    BY <1>2
  <2>4. Len(s) = n
    BY <1>1, <2>2, <2>3, LenProperties
  <2>5. QED
    BY <1>2, <2>2, <2>4
<1>4. /\ Append(frames, Len(c) + 1) \in Seq(1..Len(Append(c, f)))
      /\ Len(Append(frames, Len(c) + 1)) = n + 1
      /\ \A i \in 1..n : Append(frames, Len(c) + 1)[i] = frames[i]
      /\ Append(frames, Len(c) + 1)[n + 1] = Len(c) + 1
  <2>1. frames \in Seq(1..Len(Append(c, f))) /\ Len(c) + 1 \in 1..Len(Append(c, f))
    BY SentKept
  <2>2. QED
    BY <2>1
<1>5. s2 = [i \in 1..(n + 1) |-> Append(s, f)[i]]
  <2>1. DOMAIN Append(frames, Len(c) + 1) = 1..(n + 1)
    BY <1>4, LenProperties
  <2>2. \A i \in 1..n : Append(c, f)[Append(frames, Len(c) + 1)[i]] = Append(s, f)[i]
    <3>1. \A i \in 1..n : Append(s, f)[i] = s[i]
      BY <1>3
    <3>2. \A i \in 1..n : Append(c, f)[frames[i]] = c[frames[i]]
      BY <1>1
    <3>3. QED
      BY <1>3, <1>4, <3>1, <3>2
  <2>3. Append(c, f)[Append(frames, Len(c) + 1)[n + 1]] = f /\ Append(s, f)[n + 1] = f
    BY <1>3, <1>4
  <2>4. \A i \in 1..(n + 1) : i \in 1..n \/ i = n + 1
    BY <1>1
  <2> HIDE DEF s, n
  <2>5. QED
    BY <2>1, <2>2, <2>3, <2>4 DEF SentIn
<1>6. s2 = Append(s, f)
  <2>1. Append(s, f) \in Seq(S) /\ Len(Append(s, f)) = n + 1
    BY <1>3
  <2>2. DOMAIN Append(s, f) = 1..(n + 1)
    BY <2>1, LenProperties
  <2>3. Append(s, f) = [i \in 1..(n + 1) |-> Append(s, f)[i]]
    <3> DEFINE z == Append(s, f)
    <3> HIDE DEF s, n, z
    <3>1. z \in Seq(S) /\ DOMAIN z = 1..(n + 1)
      BY <2>1, <2>2 DEF z
    <3>2. PICK k \in Nat : z \in [1..k -> S]
      BY <3>1, SeqDef
    <3>3. z = [i \in 1..(n + 1) |-> z[i]]
      BY <3>1, <3>2
    <3>4. QED
      BY <3>3 DEF z
  <2>4. QED
    BY <1>5, <2>3
<1>7. QED
  BY <1>3, <1>4, <1>6

(* A frame that is no data packet leaves the count alone. *)
LEMMA CountSame ==
    ASSUME NEW S, NEW s \in Seq(S), NEW f \in S, NEW A,
           f.kind # "data", CountsOver(s, A)
    PROVE  CountsOver(Append(s, f), A)
<1> DEFINE z == Append(s, f)
<1>1. DataAt(z) = DataAt(s) /\ \A i \in DataAt(s) : z[i] = s[i]
  <2>1. DOMAIN s = 1..Len(s) /\ DOMAIN Append(s, f) = 1..(Len(s) + 1) /\ Len(s) \in Nat
    BY LenProperties
  <2>2. \A i \in 1..Len(s) : Append(s, f)[i] = s[i]
    OBVIOUS
  <2>3. Append(s, f)[Len(s) + 1] = f
    OBVIOUS
  <2>4. QED
    BY <2>1, <2>2, <2>3 DEF DataAt
<1> HIDE DEF z
<1>2. {z[i].n : i \in DataAt(z)} = {s[i].n : i \in DataAt(s)}
  BY <1>1
<1>3. CountsOver(z, A)
  BY <1>1, <1>2 DEF CountsOver
<1>4. QED
  BY <1>3 DEF z

(* A data packet with a larger number than all before it adds its number. *)
LEMMA CountMore ==
    ASSUME NEW S, NEW s \in Seq(S), NEW f \in S, NEW A,
           f.kind = "data", \A a \in A : a < f.n, CountsOver(s, A)
    PROVE  CountsOver(Append(s, f), A \cup {f.n})
<1> DEFINE n == Len(s)
           z == Append(s, f)
<1>1. DOMAIN s = 1..n /\ DOMAIN z = 1..(n + 1) /\ n \in Nat
  BY LenProperties
<1>2. (\A i \in 1..n : z[i] = s[i]) /\ z[n + 1] = f
  OBVIOUS
<1> HIDE DEF n, z
<1>3. DataAt(z) = DataAt(s) \cup {n + 1} /\ DataAt(s) \subseteq 1..n
  BY <1>1, <1>2 DEF DataAt
<1>4. \A i \in DataAt(s) : z[i] = s[i] /\ s[i].n \in A
  BY <1>2, <1>3 DEF CountsOver
<1>5. {z[i].n : i \in DataAt(z)} = {s[i].n : i \in DataAt(s)} \cup {f.n}
  BY <1>2, <1>3, <1>4
<1>6. ASSUME NEW i \in DataAt(z), NEW j \in DataAt(z), i < j PROVE z[i].n < z[j].n
  <2>1. i \in DataAt(s)
    BY <1>1, <1>3, <1>6
  <2>2. CASE j \in DataAt(s)
    BY <1>4, <1>6, <2>1, <2>2 DEF CountsOver
  <2>3. CASE j = n + 1
    BY <1>2, <1>4, <2>1, <2>3
  <2>4. QED
    BY <1>3, <2>2, <2>3
<1>7. QED
  BY <1>5, <1>6 DEF CountsOver, z

(* Flow control survives a frame that is a data packet under an open grant, *)
(* a grant inside the limit of the RTS, or neither.                         *)
LEMMA FlowMore ==
    ASSUME NEW S, NEW s \in Seq(S), NEW f \in S, s # <<>>, FlowControlled(s),
           f.kind = "data" => Granted(Append(s, f), Len(s) + 1),
           f.kind = "cts" => f.m <= s[1].m
    PROVE  FlowControlled(Append(s, f))
<1> DEFINE n == Len(s)
           z == Append(s, f)
<1>1. DOMAIN s = 1..n /\ DOMAIN z = 1..(n + 1) /\ n \in Nat
  BY LenProperties
<1>2. (\A i \in 1..n : z[i] = s[i]) /\ z[n + 1] = f /\ n >= 1
  BY EmptySeq
<1>3. f.kind = "data" => Granted(z, n + 1)
  OBVIOUS
<1> HIDE DEF n, z
<1>4. ASSUME NEW i \in DataAt(z) PROVE Granted(z, i)
  <2>1. CASE i \in 1..n
    <3>1. i \in DataAt(s)
      BY <1>1, <1>2, <1>4, <2>1 DEF DataAt
    <3>2. PICK g \in 1..(i - 1) :
             /\ s[g].kind = "cts"
             /\ \A j \in (g + 1)..i : s[j].kind = "data"
             /\ s[i].n \in s[g].n..(s[g].n + s[g].m - 1)
      BY <3>1 DEF FlowControlled, Granted
    <3>3. z[g] = s[g] /\ z[i] = s[i] /\ \A j \in (g + 1)..i : z[j] = s[j]
      BY <1>1, <1>2, <2>1
    <3>4. QED
      BY <3>2, <3>3 DEF Granted
  <2>2. CASE i = n + 1
    BY <1>2, <1>3, <1>4, <2>2 DEF DataAt
  <2>3. QED
    BY <1>1, <2>1, <2>2 DEF DataAt
<1>5. \A i \in 1..n : s[i].kind = "cts" => s[i].m <= s[1].m
  BY <1>1 DEF FlowControlled
<1>6. \A i \in DOMAIN z : z[i].kind = "cts" => z[i].m <= z[1].m
  <2>1. z[1] = s[1]
    BY <1>1, <1>2
  <2>2. \A i \in DOMAIN z : i \in 1..n \/ i = n + 1
    BY <1>1
  <2>3. QED
    BY <1>2, <1>5, <2>1, <2>2
<1>7. QED
  BY <1>4, <1>6 DEF FlowControlled, z

(* A grant that begins where the grants end continues them. *)
LEMMA TileMore ==
    ASSUME NEW grants \in Seq(Nat \X Nat), NEW n \in Nat, NEW m \in Nat,
           Tile(grants, n - 1)
    PROVE  Tile(Append(grants, <<n, m>>), n + m - 1)
<1> DEFINE l == Len(grants)
           z == Append(grants, <<n, m>>)
<1>1. DOMAIN grants = 1..l /\ DOMAIN z = 1..(l + 1) /\ l \in Nat
  BY LenProperties
<1>2. (\A g \in 1..l : z[g] = grants[g]) /\ z[l + 1] = <<n, m>> /\ Len(z) = l + 1
  OBVIOUS
<1>3. l = 0 <=> grants = <<>>
  BY EmptySeq
<1>4. z # <<>>
  <2>1. z \in Seq(Nat \X Nat) /\ Len(z) # 0
    BY <1>1, <1>2
  <2>2. QED
    BY <2>1, EmptySeq
<1>0. \A g \in 1..l : grants[g] \in Nat \X Nat
  BY <1>1, ElementOfSeq
<1> HIDE DEF l, z
<1>5. ASSUME NEW g \in 1..l
      PROVE  z[g][1] = IF g = 1 THEN 1 ELSE z[g - 1][1] + z[g - 1][2]
  <2>1. z[g] = grants[g] /\ (g # 1 => z[g - 1] = grants[g - 1])
    BY <1>1, <1>2
  <2>2. QED
    BY <1>1, <1>5, <2>1 DEF Tile
<1>6. n = IF l = 0 THEN 1 ELSE z[l][1] + z[l][2]
  <2>1. CASE l = 0
    BY <1>3, <2>1 DEF Tile
  <2>2. CASE l # 0
    <3>1. n - 1 = grants[l][1] + grants[l][2] - 1
      BY <1>3, <2>2 DEF Tile, Last, l
    <3>2. l \in 1..l
      BY <1>1, <2>2
    <3>3. grants[l][1] \in Nat /\ grants[l][2] \in Nat /\ z[l] = grants[l]
      BY <1>2, <1>0, <3>2
    <3>4. grants[l][1] + grants[l][2] = n
      <4> SUFFICES ASSUME NEW a \in Nat, NEW b \in Nat, n - 1 = a + b - 1 PROVE a + b = n
        BY <3>1, <3>3
      <4>1. QED
        OBVIOUS
    <3>5. z[l][1] + z[l][2] = n
      BY <3>3, <3>4
    <3>6. QED
      BY <2>2, <3>5
  <2>3. QED
    BY <2>1, <2>2
<1>7. \A g \in DOMAIN z : z[g][1] = IF g = 1 THEN 1 ELSE z[g - 1][1] + z[g - 1][2]
  <2>1. \A g \in DOMAIN z : g \in 1..l \/ g = l + 1
    BY <1>1
  <2>2. z[l + 1][1] = n /\ (l + 1 = 1 <=> l = 0) /\ l + 1 - 1 = l
    BY <1>1, <1>2
  <2> SUFFICES ASSUME NEW g \in DOMAIN z
               PROVE  z[g][1] = IF g = 1 THEN 1 ELSE z[g - 1][1] + z[g - 1][2]
    OBVIOUS
  <2>4. CASE g \in 1..l
    BY <1>5, <2>4
  <2>5. CASE g = l + 1
    <3>1. z[g][1] = n /\ (g = 1 <=> l = 0) /\ g - 1 = l
      BY <1>1, <2>2, <2>5
    <3>2. QED
      BY <1>6, <3>1
  <2>6. QED
    BY <2>1, <2>4, <2>5
<1>8. n + m - 1 = Last(z)[1] + Last(z)[2] - 1
  BY <1>2 DEF Last
<1>9. QED
  BY <1>4, <1>7, <1>8 DEF Tile, z

(* What a frame carries. *)
LEMMA FrameFields ==
    ASSUME NEW p \in Protocols, NEW f \in CanFrames[p]
    PROVE  f.n \in Nat /\ f.m \in Nat /\ f.time \in Nat /\ f.key \in CanKeys
BY CanAssumption DEF CanKeys

(* The first position of a transfer is one of its frames. *)
LEMMA FirstFrame ==
    ASSUME NEW c, NEW frames \in Seq(1..Len(c)), frames # <<>>, Len(c) \in Nat
    PROVE  /\ Len(frames) \in Nat /\ Len(frames) >= 1 /\ DOMAIN frames = 1..Len(frames)
           /\ frames[1] \in 1..Len(c) /\ frames[1] \in ToSet(frames)
           /\ ToSet(frames) \subseteq 1..Len(c)
           /\ frames[Len(frames)] \in 1..Len(c)
<1>1. Len(frames) \in Nat /\ DOMAIN frames = 1..Len(frames) /\ Len(frames) # 0
  BY LenProperties, EmptySeq
<1>2. \A i \in 1..Len(frames) : frames[i] \in 1..Len(c)
  BY <1>1, ElementOfSeq
<1>3. 1 \in DOMAIN frames /\ Len(frames) \in DOMAIN frames
  BY <1>1
<1>4. QED
  BY <1>1, <1>2, <1>3 DEF ToSet

(* What was gathered up to a position stays gathered. *)
LEMMA GatheredStays ==
    ASSUME NEW S, NEW c \in Seq(S), NEW f \in S, NEW t,
           t.frames \in Seq(1..Len(c)), t.frames # <<>>,
           NEW upto \in 1..Len(c), Gathered(c, t, upto)
    PROVE  Gathered(Append(c, f), t, upto)
<1>1. \A i \in 1..Len(c) : Append(c, f)[i] = c[i]
  OBVIOUS
<1>2. Len(c) \in Nat
  BY LenProperties
<1>3. \A i \in t.frames[1]..upto : i \in 1..Len(c)
  BY <1>2, FirstFrame
<1> DEFINE z == Append(c, f)
<1>4. \A i \in t.frames[1]..upto : z[i] = c[i]
  BY <1>1, <1>3
<1> HIDE DEF z
<1>5. Gathered(z, t, upto)
  BY <1>4 DEF Gathered
<1>6. QED
  BY <1>5 DEF z

(* A frame of another key, or one that is complete by itself, is not left out. *)
LEMMA GatheredSkips ==
    ASSUME NEW S, NEW c \in Seq(S), NEW f \in S, NEW t,
           t.frames \in Seq(1..Len(c)), t.frames # <<>>,
           Gathered(c, t, Len(c)), f.key # t.key \/ f.kind = "single"
    PROVE  Gathered(Append(c, f), t, Len(c) + 1)
<1> DEFINE z == Append(c, f)
           n == Len(c)
<1>1. (\A i \in 1..n : z[i] = c[i]) /\ z[n + 1] = f
  OBVIOUS
<1>2. n \in Nat
  BY LenProperties
<1>3. t.frames[1] \in 1..n
  BY <1>2, FirstFrame
<1> HIDE DEF z, n
<1>4. \A i \in t.frames[1]..n : i \in 1..n
  BY <1>2, <1>3
<1>5. \A i : i \in t.frames[1]..(n + 1) <=> i \in t.frames[1]..n \/ i = n + 1
  BY <1>2, <1>3
<1>6. {i \in t.frames[1]..(n + 1) : z[i].key = t.key /\ z[i].kind # "single"}
        = {i \in t.frames[1]..n : c[i].key = t.key /\ c[i].kind # "single"}
  BY <1>1, <1>4, <1>5
<1>7. Gathered(z, t, n + 1)
  BY <1>6 DEF Gathered, n
<1>8. QED
  BY <1>7 DEF z, n

(* A transfer that takes its next frame has left nothing out. *)
LEMMA GatheredGrows ==
    ASSUME NEW S, NEW c \in Seq(S), NEW f \in S, NEW t, NEW t2,
           t.frames \in Seq(1..Len(c)), t.frames # <<>>, t2.key = t.key,
           t2.frames = Append(t.frames, Len(c) + 1),
           Gathered(c, t, Len(c)), f.key = t.key, f.kind # "single"
    PROVE  /\ Gathered(Append(c, f), t2, Len(c) + 1)
           /\ t2.frames[1] = t.frames[1]
           /\ Len(t2.frames) = Len(t.frames) + 1
           /\ t2.frames[Len(t2.frames)] = Len(c) + 1
<1> DEFINE z == Append(c, f)
           n == Len(c)
           l == Len(t.frames)
<1>1. (\A i \in 1..n : z[i] = c[i]) /\ z[n + 1] = f
  OBVIOUS
<1>2. n \in Nat
  BY LenProperties
<1>3. /\ l \in Nat /\ l >= 1 /\ t.frames[1] \in 1..n /\ DOMAIN t.frames = 1..l
  BY <1>2, FirstFrame
<1>4. /\ Len(t2.frames) = l + 1
      /\ \A i \in 1..l : t2.frames[i] = t.frames[i]
      /\ t2.frames[l + 1] = n + 1
  OBVIOUS
<1>5. DOMAIN t2.frames = 1..(l + 1)
  <2>1. Append(t.frames, n + 1) \in Seq(1..Len(z))
    BY SentGrown
  <2>2. QED
    BY <1>4, <2>1, LenProperties
<1> HIDE DEF z, n, l
<1>6. ToSet(t2.frames) = ToSet(t.frames) \cup {n + 1}
  <2>1. \A i : i \in 1..(l + 1) <=> i \in 1..l \/ i = l + 1
    BY <1>3
  <2>2. QED
    BY <1>3, <1>4, <1>5, <2>1 DEF ToSet
<1>7. \A i \in t.frames[1]..n : i \in 1..n
  BY <1>2, <1>3
<1>8. \A i : i \in t.frames[1]..(n + 1) <=> i \in t.frames[1]..n \/ i = n + 1
  BY <1>2, <1>3
<1>9. {i \in t.frames[1]..(n + 1) : z[i].key = t.key /\ z[i].kind # "single"}
        = {i \in t.frames[1]..n : c[i].key = t.key /\ c[i].kind # "single"} \cup {n + 1}
  BY <1>1, <1>7, <1>8
<1>10. t2.frames[1] = t.frames[1]
  BY <1>3, <1>4
<1>11. Gathered(z, t2, n + 1)
  BY <1>6, <1>9, <1>10 DEF Gathered, n
<1>12. QED
  BY <1>4, <1>10, <1>11 DEF z, n, l

(* An open transfer carries the key of its first frame. *)
LEMMA OpenedKey ==
    ASSUME NEW p, NEW c, Len(c) \in Nat, NEW k, NEW t, Opened(p, c, k, t)
    PROVE  c[t.frames[1]].key = k
<1>1. t.frames[1] \in ToSet(t.frames)
  BY FirstFrame DEF Opened
<1>2. QED
  BY <1>1 DEF Opened, Gathered

(* A frame that is none of its own leaves an open transfer as it was. *)
LEMMA OpenedSkips ==
    ASSUME NEW p \in Protocols, NEW c \in Seq(CanFrames[p]), NEW f \in CanFrames[p],
           NEW k, NEW t, Opened(p, c, k, t), f.key # k \/ f.kind = "single"
    PROVE  Opened(p, Append(c, f), k, t)
<1> DEFINE z == Append(c, f)
<1>1. /\ t.key = k /\ t.frames \in Seq(1..Len(c)) /\ t.frames # <<>>
      /\ Gathered(c, t, Len(c))
  BY DEF Opened
<1>2. /\ Len(z) = Len(c) + 1 /\ t.frames \in Seq(1..Len(z))
      /\ SentIn(z, t.frames) = SentIn(c, t.frames)
      /\ \A i \in 1..Len(c) : z[i] = c[i]
  BY <1>1, SentKept
<1>3. Gathered(z, t, Len(z))
  <2>1. Gathered(z, t, Len(c) + 1)
    BY <1>1, GatheredSkips
  <2> HIDE DEF z
  <2>2. QED
    BY <1>2, <2>1
<1>4. z[t.frames[1]] = c[t.frames[1]]
  <2>1. Len(c) \in Nat
    BY LenProperties
  <2>2. t.frames[1] \in 1..Len(c)
    BY <1>1, <2>1, FirstFrame
  <2> HIDE DEF z
  <2>3. QED
    BY <1>2, <2>2
<1> HIDE DEF z
<1>5. Opened(p, z, k, t)
  BY <1>1, <1>2, <1>3, <1>4 DEF Opened
<1>6. QED
  BY <1>5 DEF z

(* A decoded transfer stays rebuilt. *)
LEMMA RebuiltStays ==
    ASSUME NEW p \in Protocols, NEW c \in Seq(CanFrames[p]), NEW f \in CanFrames[p],
           NEW t, Rebuilt(p, c, t)
    PROVE  Rebuilt(p, Append(c, f), t)
<1> DEFINE z == Append(c, f)
           l == t.frames[Len(t.frames)]
<1>1. t.frames \in Seq(1..Len(c)) /\ t.frames # <<>>
  BY DEF Rebuilt
<1>2. /\ t.frames \in Seq(1..Len(z))
      /\ SentIn(z, t.frames) = SentIn(c, t.frames)
      /\ \A i \in 1..Len(c) : z[i] = c[i]
  BY <1>1, SentKept
<1>3. Len(c) \in Nat
  BY LenProperties
<1>4. t.frames[1] \in 1..Len(c) /\ l \in 1..Len(c)
  BY <1>1, <1>3, FirstFrame
<1>5. z[t.frames[1]] = c[t.frames[1]] /\ z[l] = c[l]
  <2> HIDE DEF z, l
  <2>1. QED
    BY <1>2, <1>4
<1>6. Len(t.frames) > 1 => Gathered(z, t, l)
  <2>1. SUFFICES ASSUME Len(t.frames) > 1 PROVE Gathered(z, t, l)
    OBVIOUS
  <2>2. Gathered(c, t, l)
    BY <2>1 DEF Rebuilt
  <2> HIDE DEF l
  <2>3. QED
    BY <1>1, <1>4, <2>2, GatheredStays
<1> HIDE DEF z
<1>7. Rebuilt(p, z, t)
  BY <1>1, <1>2, <1>5, <1>6 DEF Rebuilt
<1>8. QED
  BY <1>7 DEF z

(* A transfer as its first frame opens it (NewTransfer). *)
Fresh(c, f) == [key |-> f.key, frames |-> <<Len(c) + 1>>, first |-> f.time, next |-> 1,
                packets |-> f.n, maximum |-> f.m, granted |-> 0, grants |-> <<>>,
                state |-> "CTS"]

(* A transfer with other frames, numbers, grants or state is a transfer. *)
LEMMA TransferFields ==
    ASSUME NEW t \in Transfer, NEW frames \in Seq(Nat), NEW next \in Nat,
           NEW granted \in Int, NEW grants \in Seq(Nat \X Nat),
           NEW state \in {"CTS", "DT", "ACK"}
    PROVE  /\ [t EXCEPT !.frames = frames, !.grants = grants,
                        !.granted = granted, !.state = state] \in Transfer
           /\ [t EXCEPT !.frames = frames, !.next = next] \in Transfer
           /\ [t EXCEPT !.granted = granted] \in Transfer
           /\ [t EXCEPT !.state = state] \in Transfer
BY DEF Transfer

(* What is known of a transfer t of its first frame f alone. *)
Begun(c, f, t) ==
    /\ t.frames = <<Len(c) + 1>> /\ Len(t.frames) = 1
    /\ t.frames \in Seq(1..Len(Append(c, f)))
    /\ ToSet(t.frames) = {Len(c) + 1}
    /\ Append(c, f)[Len(c) + 1] = f /\ Len(Append(c, f)) = Len(c) + 1
    /\ SentIn(Append(c, f), t.frames) = <<f>>

(* A fresh transfer has its one frame and nothing else. *)
LEMMA FreshFrames ==
    ASSUME NEW p \in Protocols, NEW c \in Seq(CanFrames[p]), NEW f \in CanFrames[p]
    PROVE  Fresh(c, f) \in Transfer /\ Begun(c, f, Fresh(c, f))
<1>1. Len(c) \in Nat
  BY LenProperties
<1>2. /\ Append(c, f)[Len(c) + 1] = f /\ Len(Append(c, f)) = Len(c) + 1
  OBVIOUS
<1>3. Fresh(c, f).frames = <<Len(c) + 1>>
  BY DEF Fresh
<1>4. Fresh(c, f) \in Transfer
  <2>1. <<Len(c) + 1>> \in Seq(Nat) /\ <<>> \in Seq(Nat \X Nat)
    BY <1>1
  <2>2. f.n \in Nat /\ f.m \in Nat /\ f.time \in Nat /\ f.key \in CanKeys
    BY FrameFields
  <2>3. QED
    BY <2>1, <2>2 DEF Fresh, Transfer
<1>5. <<Len(c) + 1>> \in Seq(1..Len(Append(c, f)))
  BY <1>1, <1>2
<1>6. ToSet(<<Len(c) + 1>>) = {Len(c) + 1}
  BY DEF ToSet
<1>7. SentIn(Append(c, f), <<Len(c) + 1>>) = <<f>>
  <2> DEFINE z == Append(c, f)
             n == Len(c) + 1
  <2>1. z[n] = f
    BY <1>2
  <2> HIDE DEF z, n
  <2>2. SentIn(z, <<n>>) = <<f>>
    BY <2>1 DEF SentIn
  <2>3. QED
    BY <2>2 DEF z, n
<1>8. QED
  <2> DEFINE t == Fresh(c, f)
  <2>1. Len(<<Len(c) + 1>>) = 1
    OBVIOUS
  <2> HIDE DEF t
  <2>2. Begun(c, f, t)
    BY <1>2, <1>3, <1>5, <1>6, <1>7, <2>1 DEF Begun, t
  <2>3. QED
    BY <1>4, <2>2 DEF t

(* Opening a transfer starts its count at nothing. *)
LEMMA OpenedNew ==
    ASSUME NEW p \in Protocols, NEW c \in Seq(CanFrames[p]), NEW f \in CanFrames[p],
           f.kind \notin {"single", "other"},
           p = "nmea" => f.kind = "data" /\ f.n = 0,
           p = "bam" => f.kind = "announce", p = "rts" => f.kind = "rts"
    PROVE  Opened(p, Append(c, f), f.key, Fresh(c, f))
<1> DEFINE z == Append(c, f)
           n == Len(c) + 1
           t == Fresh(c, f)
<1>1. /\ t.frames = <<n>> /\ t.frames \in Seq(1..Len(z)) 
      /\ ToSet(t.frames) = {n}
      /\ z[n] = f /\ Len(z) = n /\ SentIn(z, t.frames) = <<f>>
  <2>1. Begun(c, f, t)
    BY FreshFrames
  <2>2. QED
    BY <2>1 DEF Begun
<1>2. /\ t.key = f.key /\ t.first = f.time /\ t.next = 1 /\ t.packets = f.n
      /\ t.maximum = f.m /\ t.grants = <<>> /\ t.state = "CTS"
  BY DEF Fresh
<1>3. n \in Nat /\ f.n \in Nat
  BY LenProperties, FrameFields
<1>4. t.frames # <<>> /\ t.frames[1] = n
  BY <1>1
<1> HIDE DEF z, n, t
<1>5. Gathered(z, t, Len(z))
  BY <1>1, <1>2, <1>3, <1>4 DEF Gathered
<1>6. DOMAIN <<f>> = {1} /\ <<f>>[1] = f
  OBVIOUS
<1>7. f.kind # "data" => CountsOver(<<f>>, 1..0)
  BY <1>6 DEF CountsOver, DataAt
<1>8. p = "nmea" => CountsOver(<<f>>, 0..0)
  BY <1>6 DEF CountsOver, DataAt
<1>9. p = "rts" => UnderControl(<<f>>, t)
  <2>1. SUFFICES ASSUME p = "rts" PROVE UnderControl(<<f>>, t)
    OBVIOUS
  <2>2. FlowControlled(<<f>>)
    BY <1>6, <2>1 DEF FlowControlled, DataAt
  <2>3. Tile(t.grants, t.next - 1)
    BY <1>2 DEF Tile
  <2>4. QED
    BY <1>2, <1>6, <2>1, <2>2, <2>3 DEF UnderControl
<1>10. QED
  BY <1>1, <1>2, <1>3, <1>4, <1>5, <1>7, <1>8, <1>9 DEF Opened, z, t

(* What is known of a transfer u that is t with its next frame f. *)
Prolonged(p, c, f, t, u) ==
    /\ u.frames \in Seq(1..Len(Append(c, f))) /\ u.frames # <<>>
    /\ Gathered(Append(c, f), u, Len(c) + 1)
    /\ SentIn(c, t.frames) \in Seq(CanFrames[p]) /\ SentIn(c, t.frames) # <<>>
    /\ SentIn(c, t.frames)[1] = c[t.frames[1]]
    /\ DOMAIN SentIn(c, t.frames) = 1..Len(SentIn(c, t.frames))
    /\ SentIn(Append(c, f), u.frames) = Append(SentIn(c, t.frames), f)
    /\ Append(SentIn(c, t.frames), f)[1] = c[t.frames[1]]
    /\ u.frames[1] = t.frames[1] /\ Append(c, f)[u.frames[1]] = c[t.frames[1]]
    /\ u.frames[Len(u.frames)] = Len(c) + 1 /\ Append(c, f)[Len(c) + 1] = f
    /\ c[t.frames[1]] \in CanFrames[p]

(* A transfer that takes its next frame has its frames in order, none left out. *)
LEMMA LongerFrames ==
    ASSUME NEW p \in Protocols, NEW c \in Seq(CanFrames[p]), NEW f \in CanFrames[p],
           NEW k, NEW t \in Transfer, Opened(p, c, k, t),
           NEW u, u.key = t.key, u.frames = Append(t.frames, Len(c) + 1),
           f.key = k, f.kind # "single"
    PROVE  Prolonged(p, c, f, t, u)
<1> DEFINE s == SentIn(c, t.frames)
           z == Append(c, f)
<1>1. t.frames \in Seq(1..Len(c)) /\ t.frames # <<>> /\ t.key = k /\ Gathered(c, t, Len(c))
  BY DEF Opened
<1>2. Len(c) \in Nat
  BY LenProperties
<1>3. /\ Gathered(z, u, Len(c) + 1)
      /\ u.frames[1] = t.frames[1] /\ u.frames[Len(u.frames)] = Len(c) + 1
      /\ Len(u.frames) = Len(t.frames) + 1
  BY <1>1, GatheredGrows
<1>4. /\ s \in Seq(CanFrames[p]) /\ Len(s) = Len(t.frames)
      /\ u.frames \in Seq(1..Len(z)) /\ SentIn(z, u.frames) = Append(s, f)
  BY <1>1, SentGrown
<1>5. /\ Len(t.frames) \in Nat /\ Len(t.frames) >= 1 /\ DOMAIN t.frames = 1..Len(t.frames)
      /\ t.frames[1] \in 1..Len(c)
  BY <1>1, <1>2, FirstFrame
<1>6. s # <<>> /\ DOMAIN s = 1..Len(s) /\ u.frames # <<>>
  <2> HIDE DEF s, z
  <2>1. Len(s) # 0 /\ Len(u.frames) # 0
    BY <1>3, <1>4, <1>5
  <2>2. QED
    BY <1>4, <2>1, EmptySeq, LenProperties
<1>7. s[1] = c[t.frames[1]]
  BY <1>5 DEF SentIn
<1>8. Append(s, f)[1] = s[1]
  <2> HIDE DEF s
  <2>1. QED
    BY <1>4, <1>5
<1>9. z[t.frames[1]] = c[t.frames[1]] /\ z[Len(c) + 1] = f
  BY <1>5
<1>10. c[t.frames[1]] \in CanFrames[p]
  BY <1>5, ElementOfSeq
<1> HIDE DEF s, z
<1>11. QED
  BY <1>3, <1>4, <1>6, <1>7, <1>8, <1>9, <1>10 DEF s, z, Prolonged

(* A grant is taken in the state CTS; it continues the grants, and the      *)
(* packets it covers come next.                                             *)
LEMMA OpenedGranted ==
    ASSUME NEW c \in Seq(CanFrames["rts"]), NEW f \in CanFrames["rts"],
           NEW k, NEW t \in Transfer, Opened("rts", c, k, t),
           f.key = k, f.kind = "cts", t.state = "CTS", f.n = t.next,
           f.m \in 1..t.maximum, f.m <= t.packets - t.next + 1
    PROVE  LET u == [t EXCEPT !.frames = Append(@, Len(c) + 1),
                              !.grants = Append(@, <<f.n, f.m>>),
                              !.granted = f.m, !.state = "DT"]
           IN u \in Transfer /\ Opened("rts", Append(c, f), k, u)
<1> DEFINE u == [t EXCEPT !.frames = Append(@, Len(c) + 1),
                          !.grants = Append(@, <<f.n, f.m>>),
                          !.granted = f.m, !.state = "DT"]
           z == Append(c, f)
           s == SentIn(c, t.frames)
           x == Append(s, f)
<1>1. /\ u.key = t.key /\ u.frames = Append(t.frames, Len(c) + 1) /\ u.first = t.first
      /\ u.next = t.next /\ u.packets = t.packets /\ u.maximum = t.maximum
      /\ u.granted = f.m /\ u.grants = Append(t.grants, <<f.n, f.m>>) /\ u.state = "DT"
  BY DEF Transfer
<1>2. /\ t.next \in Nat /\ t.packets \in Nat /\ t.maximum \in Nat
      /\ t.grants \in Seq(Nat \X Nat) /\ t.frames \in Seq(Nat)
  BY DEF Transfer
<1>3. "rts" \in Protocols
  BY DEF Protocols
<1>4. f.n \in Nat /\ f.m \in Nat
  BY <1>3, FrameFields
<1>5. Len(c) \in Nat
  BY LenProperties
<1>6. u \in Transfer
  <2>1. Append(t.frames, Len(c) + 1) \in Seq(Nat)
    BY <1>2, <1>5
  <2>2. Append(t.grants, <<f.n, f.m>>) \in Seq(Nat \X Nat)
    BY <1>2, <1>4
  <2> DEFINE a == Append(t.frames, Len(c) + 1)
             b == Append(t.grants, <<f.n, f.m>>)
  <2> HIDE DEF a, b
  <2>3. a \in Seq(Nat) /\ b \in Seq(Nat \X Nat) /\ f.m \in Int
    BY <1>4, <2>1, <2>2 DEF a, b
  <2>4. [t EXCEPT !.frames = a, !.grants = b, !.granted = f.m, !.state = "DT"] \in Transfer
    BY <2>3, TransferFields
  <2>5. QED
    BY <2>4 DEF a, b
<1> HIDE DEF u
<1>7. /\ u.frames \in Seq(1..Len(z)) /\ u.frames # <<>> /\ Gathered(z, u, Len(c) + 1)
      /\ s \in Seq(CanFrames["rts"]) /\ s # <<>> /\ s[1] = c[t.frames[1]]
      /\ DOMAIN s = 1..Len(s) /\ SentIn(z, u.frames) = x /\ x[1] = c[t.frames[1]]
      /\ z[u.frames[1]] = c[t.frames[1]]
  <2>1. /\ u.key = t.key /\ u.frames = Append(t.frames, Len(c) + 1)
        /\ f.key = k /\ f.kind # "single"
    BY <1>1
  <2>2. Prolonged("rts", c, f, t, u)
    BY <1>3, <2>1, LongerFrames
  <2>3. QED
    BY <2>2 DEF Prolonged
<1>8. Len(z) = Len(c) + 1
  OBVIOUS
<1>9. /\ t.key = k /\ s[1].kind # "other" /\ t.first = s[1].time
      /\ CountsOver(s, 1..(t.next - 1)) /\ t.packets = s[1].n /\ 1 <= t.next
      /\ UnderControl(s, t)
  BY <1>7 DEF Opened
<1>10. Len(s) \in Nat
  BY <1>7, LenProperties
<1>11. x[Len(s) + 1] = f /\ DOMAIN x = 1..(Len(s) + 1)
  <2>1. x \in Seq(CanFrames["rts"]) /\ Len(x) = Len(s) + 1 /\ x[Len(s) + 1] = f
    <3> HIDE DEF s
    <3>1. QED
      BY <1>7
  <2>2. QED
    BY <2>1, LenProperties
<1>12. CountsOver(x, 1..(t.next - 1))
  <2> HIDE DEF s
  <2>1. QED
    BY <1>7, <1>9, CountSame
<1>13. FlowControlled(x)
  <2>1. f.m <= s[1].m /\ FlowControlled(s)
    BY <1>9 DEF UnderControl
  <2> HIDE DEF s
  <2>2. QED
    BY <1>7, <2>1, FlowMore
<1>14. Tile(u.grants, f.n + f.m - 1)
  <2>1. Tile(t.grants, f.n - 1)
    BY <1>9 DEF UnderControl
  <2>2. QED
    BY <1>1, <1>2, <1>4, <2>1, TileMore
<1> HIDE DEF s, z, x
<1>15. UnderControl(x, u)
  <2>1. x[1].kind = "rts" /\ u.maximum = x[1].m
    BY <1>1, <1>7, <1>9 DEF UnderControl
  <2>2. \A j \in DOMAIN x : ~(Len(s) + 1 < j)
    BY <1>10, <1>11
  <2>3. /\ u.next \in f.n..(f.n + f.m - 1)
        /\ u.granted = f.n + f.m - u.next
        /\ f.n + f.m - 1 <= u.packets
    <3>1. u.next = f.n /\ u.granted = f.m /\ u.packets = t.packets /\ f.n = t.next
      BY <1>1
    <3>2. f.m \in 1..t.maximum /\ f.m <= t.packets - t.next + 1
      OBVIOUS
    <3>3. QED
      BY <1>2, <1>4, <3>1, <3>2
  <2>4. Len(s) + 1 \in DOMAIN x
    BY <1>10, <1>11
  <2>5. \E g \in DOMAIN x :
          /\ x[g].kind = "cts" /\ \A j \in DOMAIN x : g < j => x[j].kind = "data"
          /\ u.next \in x[g].n..(x[g].n + x[g].m - 1)
          /\ u.granted = x[g].n + x[g].m - u.next
          /\ x[g].n + x[g].m - 1 <= u.packets
          /\ Tile(u.grants, x[g].n + x[g].m - 1)
    BY <1>11, <1>14, <2>2, <2>3, <2>4
  <2>6. QED
    BY <1>1, <1>13, <2>1, <2>5 DEF UnderControl
<1>16. Opened("rts", z, k, u)
  BY <1>1, <1>7, <1>8, <1>9, <1>12, <1>15 DEF Opened
<1>17. QED
  BY <1>6, <1>16 DEF u, z

(* What a data packet makes of the state of an RTS transfer (Regranted). *)
Counted(t, u, f) ==
    \/ f.n = t.packets /\ u.state = "ACK"
    \/ f.n # t.packets /\ t.granted - 1 = 0 /\ u.state = "CTS"
    \/ f.n # t.packets /\ t.granted - 1 # 0 /\ u.state = "DT" /\ u.granted = t.granted - 1

(* A packet follows a grant that covers it with packets only in between. *)
LEMMA GrantedBy ==
    ASSUME NEW x, NEW i, NEW g \in 1..(i - 1), x[g].kind = "cts",
           \A j \in (g + 1)..i : x[j].kind = "data",
           x[i].n \in x[g].n..(x[g].n + x[g].m - 1)
    PROVE  Granted(x, i)
BY DEF Granted

(* A data packet under an open grant keeps the control; the grant is used up *)
(* exactly with the last packet it covers.                                   *)
LEMMA ControlGrown ==
    ASSUME NEW s \in Seq(CanFrames["rts"]), NEW f \in CanFrames["rts"], s # <<>>,
           NEW t \in Transfer, NEW u, UnderControl(s, t), t.state = "DT",
           f.kind = "data", f.n = t.next, u.next = t.next + 1,
           u.packets = t.packets, u.maximum = t.maximum, u.grants = t.grants,
           Counted(t, u, f)
    PROVE  UnderControl(Append(s, f), u)
<1> DEFINE n == Len(s)
           x == Append(s, f)
<1>1. /\ n \in Nat /\ n >= 1 /\ DOMAIN s = 1..n
      /\ DOMAIN x = 1..(n + 1) /\ x[n + 1] = f
      /\ \A i \in 1..n : x[i] = s[i]
  <2>1. x \in Seq(CanFrames["rts"]) /\ Len(x) = n + 1 /\ x[n + 1] = f
        /\ \A i \in 1..n : x[i] = s[i]
    OBVIOUS
  <2>2. DOMAIN x = 1..(n + 1)
    BY <2>1, LenProperties
  <2>3. QED
    BY <2>1, <2>2, EmptySeq, LenProperties
<1>2. PICK g \in DOMAIN s :
          /\ s[g].kind = "cts" /\ \A j \in DOMAIN s : g < j => s[j].kind = "data"
          /\ t.next \in s[g].n..(s[g].n + s[g].m - 1)
          /\ t.granted = s[g].n + s[g].m - t.next
          /\ s[g].n + s[g].m - 1 <= t.packets
          /\ Tile(t.grants, s[g].n + s[g].m - 1)
  BY DEF UnderControl
<1>3. s[g].n \in Nat /\ s[g].m \in Nat /\ t.next \in Nat /\ t.packets \in Nat
  <2>1. s[g] \in CanFrames["rts"] /\ "rts" \in Protocols
    BY <1>1, ElementOfSeq DEF Protocols
  <2>2. QED
    BY <2>1, FrameFields DEF Transfer
<1> DEFINE end == s[g].n + s[g].m - 1
<1>4. /\ end \in Int /\ s[g].n <= t.next /\ t.next <= end /\ end <= t.packets
      /\ t.granted = end + 1 - t.next /\ Tile(t.grants, end)
  <2>1. Tile(t.grants, end)
    BY <1>2
  <2>2. end \in Int /\ s[g].n <= t.next /\ t.next <= end /\ end <= t.packets
    BY <1>2, <1>3
  <2>3. t.granted = s[g].n + s[g].m - t.next
    BY <1>2
  <2>4. s[g].n + s[g].m - t.next = end + 1 - t.next
    BY <1>3
  <2> HIDE DEF end
  <2>5. QED
    BY <2>1, <2>2, <2>3, <2>4
<1> HIDE DEF n, x
<1>5. FlowControlled(x)
  <2>1. Granted(x, n + 1)
    <3>1. g \in 1..((n + 1) - 1) /\ x[g] = s[g]
      BY <1>1
    <3>2. \A j \in (g + 1)..(n + 1) : x[j].kind = "data"
      <4> SUFFICES ASSUME NEW j \in (g + 1)..(n + 1) PROVE x[j].kind = "data"
        OBVIOUS
      <4>1. CASE j = n + 1
        BY <1>1, <4>1
      <4>2. CASE j # n + 1
        <5>1. j \in 1..n /\ g < j
          BY <1>1, <4>2
        <5>2. QED
          BY <1>1, <1>2, <5>1
      <4>3. QED
        BY <4>1, <4>2
    <3>3. x[n + 1].n \in s[g].n..end
      BY <1>1, <1>3, <1>4
    <3> HIDE DEF end
    <3>4. x[n + 1].n \in x[g].n..(x[g].n + x[g].m - 1)
      BY <3>1, <3>3 DEF end
    <3>5. x[g].kind = "cts"
      BY <1>2, <3>1
    <3>6. QED
      BY <3>1, <3>2, <3>4, <3>5, GrantedBy
  <2>2. FlowControlled(s)
    BY DEF UnderControl
  <2>3. QED
    BY <2>1, <2>2, FlowMore DEF n, x
<1>6. x[1].kind = "rts" /\ u.maximum = x[1].m
  BY <1>1 DEF UnderControl
<1>7. u.next = t.next + 1 /\ u.packets = t.packets /\ u.grants = t.grants /\ f.n = t.next
  OBVIOUS
<1> HIDE DEF end
<1>8. CASE f.n = t.packets /\ u.state = "ACK"
  <2>1. end = t.packets
    BY <1>3, <1>4, <1>7, <1>8
  <2>2. u.next = u.packets + 1 /\ Tile(u.grants, u.packets)
    BY <1>4, <1>7, <1>8, <2>1
  <2>3. QED
    BY <1>5, <1>6, <1>8, <2>2 DEF UnderControl, x
<1>9. CASE f.n # t.packets /\ t.granted - 1 = 0 /\ u.state = "CTS"
  <2>1. end = t.next /\ u.next - 1 = t.next
    BY <1>3, <1>4, <1>7, <1>9
  <2>2. Tile(u.grants, u.next - 1)
    BY <1>4, <1>7, <2>1
  <2>3. QED
    BY <1>5, <1>6, <1>9, <2>2 DEF UnderControl, x
<1>10. CASE f.n # t.packets /\ t.granted - 1 # 0 /\ u.state = "DT" /\ u.granted = t.granted - 1
  <2>1. u.next \in s[g].n..end /\ u.granted = end + 1 - u.next /\ end <= u.packets
    BY <1>3, <1>4, <1>7, <1>10
  <2>2. g \in DOMAIN x /\ x[g] = s[g]
    BY <1>1
  <2>3. \A j \in DOMAIN x : g < j => x[j].kind = "data"
    <3> SUFFICES ASSUME NEW j \in DOMAIN x, g < j PROVE x[j].kind = "data"
      OBVIOUS
    <3>1. j \in 1..n \/ j = n + 1
      BY <1>1
    <3>2. QED
      BY <1>1, <1>2, <3>1
  <2>4. u.granted = s[g].n + s[g].m - u.next
    BY <1>3, <1>7, <2>1 DEF end
  <2>5. /\ u.next \in s[g].n..(s[g].n + s[g].m - 1)
        /\ s[g].n + s[g].m - 1 <= u.packets
        /\ Tile(u.grants, s[g].n + s[g].m - 1)
    BY <1>4, <1>7, <2>1 DEF end
  <2>6. \E h \in DOMAIN x :
          /\ x[h].kind = "cts" /\ \A j \in DOMAIN x : h < j => x[j].kind = "data"
          /\ u.next \in x[h].n..(x[h].n + x[h].m - 1)
          /\ u.granted = x[h].n + x[h].m - u.next
          /\ x[h].n + x[h].m - 1 <= u.packets
          /\ Tile(u.grants, x[h].n + x[h].m - 1)
    BY <1>2, <2>2, <2>3, <2>4, <2>5
  <2>7. QED
    BY <1>5, <1>6, <1>10, <2>6 DEF UnderControl, x
<1>11. QED
  BY <1>8, <1>9, <1>10 DEF Counted

(* A transfer that grows counts its next packet. *)
LEMMA OpenedGrown ==
    ASSUME NEW p \in Protocols, NEW c \in Seq(CanFrames[p]), NEW f \in CanFrames[p],
           NEW k, NEW t \in Transfer, Opened(p, c, k, t), f.key = k, f.kind # "single",
           NEW u, u.key = t.key, u.frames = Append(t.frames, Len(c) + 1),
           u.next = t.next + 1, u.first = t.first, u.packets = t.packets,
           u.maximum = t.maximum, u.grants = t.grants,
           p = "dronecan" \/ (f.kind = "data" /\ f.n = t.next),
           p = "rts" => t.state = "DT" /\ Counted(t, u, f)
    PROVE  Opened(p, Append(c, f), k, u)
<1>1. Prolonged(p, c, f, t, u)
  BY LongerFrames
<1> DEFINE s == SentIn(c, t.frames)
           x == Append(s, f)
           z == Append(c, f)
<1>2. /\ u.frames \in Seq(1..Len(z)) /\ u.frames # <<>>
      /\ Gathered(z, u, Len(c) + 1)
      /\ s \in Seq(CanFrames[p]) /\ s # <<>> /\ s[1] = c[t.frames[1]]
      /\ SentIn(z, u.frames) = x /\ x[1] = c[t.frames[1]]
      /\ z[u.frames[1]] = c[t.frames[1]]
  BY <1>1 DEF Prolonged
<1>3. Len(z) = Len(c) + 1
  OBVIOUS
<1>4. t.next \in Nat /\ f.n \in Nat
  BY FrameFields DEF Transfer
<1>5. /\ t.key = k
      /\ s[1].kind # "other" /\ t.first = s[1].time
      /\ p \in {"bam", "rts"} => CountsOver(s, 1..(t.next - 1))
      /\ p \in {"bam", "rts"} => t.packets = s[1].n /\ 1 <= t.next
      /\ p = "nmea" => CountsOver(s, 0..(t.next - 1))
      /\ p = "rts" => UnderControl(s, t)
  BY <1>2 DEF Opened
<1> HIDE DEF s, z
<1>6. p \in {"bam", "rts"} => CountsOver(x, 1..(u.next - 1))
  <2>1. SUFFICES ASSUME p \in {"bam", "rts"} PROVE CountsOver(x, 1..(u.next - 1))
    OBVIOUS
  <2>2. f.kind = "data" /\ f.n = t.next /\ 1 <= t.next
    BY <1>5, <2>1
  <2>3. \A a \in 1..(t.next - 1) : a < f.n
    BY <1>4, <2>2
  <2>4. 1..(u.next - 1) = (1..(t.next - 1)) \cup {f.n}
    BY <1>4, <2>2
  <2>5. CountsOver(s, 1..(t.next - 1))
    BY <1>5, <2>1
  <2>6. CountsOver(x, (1..(t.next - 1)) \cup {f.n})
    BY <1>2, <2>2, <2>3, <2>5, CountMore
  <2> HIDE DEF x
  <2>7. QED
    BY <2>4, <2>6
<1>7. p = "nmea" => CountsOver(x, 0..(u.next - 1))
  <2>1. SUFFICES ASSUME p = "nmea" PROVE CountsOver(x, 0..(u.next - 1))
    OBVIOUS
  <2>2. f.kind = "data" /\ f.n = t.next
    BY <2>1
  <2>3. \A a \in 0..(t.next - 1) : a < f.n
    BY <1>4, <2>2
  <2>4. 0..(u.next - 1) = (0..(t.next - 1)) \cup {f.n}
    BY <1>4, <2>2
  <2>5. CountsOver(s, 0..(t.next - 1))
    BY <1>5, <2>1
  <2>6. CountsOver(x, (0..(t.next - 1)) \cup {f.n})
    BY <1>2, <2>2, <2>3, <2>5, CountMore
  <2> HIDE DEF x
  <2>7. QED
    BY <2>4, <2>6
<1>8. p = "rts" => UnderControl(x, u)
  <2>1. SUFFICES ASSUME p = "rts" PROVE UnderControl(x, u)
    OBVIOUS
  <2>2. UnderControl(s, t) /\ f.kind = "data" /\ f.n = t.next
    BY <1>5, <2>1
  <2>3. s \in Seq(CanFrames["rts"]) /\ f \in CanFrames["rts"]
    BY <1>2, <2>1
  <2>4. QED
    BY <1>2, <2>1, <2>2, <2>3, ControlGrown
<1> HIDE DEF x
<1>9. p \in {"bam", "rts"} => u.packets = z[u.frames[1]].n /\ 1 <= u.next
  BY <1>2, <1>4, <1>5
<1>10. Opened(p, z, k, u)
  BY <1>2, <1>3, <1>5, <1>6, <1>7, <1>8, <1>9 DEF Opened
<1>11. QED
  BY <1>10 DEF z

(* A frame that is complete by itself is a transfer of one frame. *)
LEMMA RebuiltSingle ==
    ASSUME NEW p \in {"dronecan", "bam"}, NEW c \in Seq(CanFrames[p]),
           NEW f \in CanFrames[p], p = "bam" => f.kind = "single"
    PROVE  Rebuilt(p, Append(c, f), Fresh(c, f))
<1>1. p \in Protocols
  BY DEF Protocols
<1> DEFINE z == Append(c, f)
           t == Fresh(c, f)
<1>2. Begun(c, f, t)
  BY <1>1, FreshFrames
<1> HIDE DEF t
<1>3. /\ t.frames \in Seq(1..Len(z)) /\ t.frames # <<>> /\ Len(t.frames) = 1
      /\ SentIn(z, t.frames) = <<f>> /\ z[t.frames[1]] = f
  BY <1>2 DEF Begun
<1>4. f.time \in Nat /\ TransferTimeout \in Nat
  BY <1>1, FrameFields, CanAssumption
<1>5. f.time - f.time <= TransferTimeout
  BY <1>4
<1> HIDE DEF z
<1>6. Rebuilt(p, z, t)
  BY <1>3, <1>5 DEF Rebuilt
<1>7. QED
  BY <1>6 DEF z, t

(* A transfer closed by its last frame is rebuilt: the count is complete,   *)
(* the time is in bounds, and the grants cover the packets.                 *)
LEMMA RebuiltClosed ==
    ASSUME NEW p \in Protocols, NEW c \in Seq(CanFrames[p]), NEW f \in CanFrames[p],
           NEW k, NEW t \in Transfer, Opened(p, c, k, t), f.key = k, f.kind # "single",
           NEW u, u.key = t.key, u.frames = Append(t.frames, Len(c) + 1),
           u.grants = t.grants,
           p = "dronecan" => f.time - t.first <= TransferTimeout,
           p = "bam" => f.kind = "data" /\ f.n = t.next /\ f.n = t.packets,
           p = "nmea" => f.kind = "data" /\ f.n = t.next /\ f.n = 3,
           p = "rts" => f.kind = "ack" /\ t.state = "ACK"
    PROVE  Rebuilt(p, Append(c, f), u)
<1>1. Prolonged(p, c, f, t, u)
  BY LongerFrames
<1> DEFINE s == SentIn(c, t.frames)
           x == Append(s, f)
           z == Append(c, f)
           l == u.frames[Len(u.frames)]
<1>2. /\ u.frames \in Seq(1..Len(z)) /\ u.frames # <<>>
      /\ Gathered(z, u, Len(c) + 1)
      /\ s \in Seq(CanFrames[p]) /\ s # <<>> /\ s[1] = c[t.frames[1]]
      /\ SentIn(z, u.frames) = x /\ x[1] = c[t.frames[1]]
      /\ z[u.frames[1]] = c[t.frames[1]]
      /\ l = Len(c) + 1 /\ z[l] = f /\ c[t.frames[1]] \in CanFrames[p]
  BY <1>1 DEF Prolonged
<1>3. t.next \in Nat /\ t.packets \in Nat /\ f.n \in Nat /\ f.time \in Nat
  BY FrameFields DEF Transfer
<1>4. /\ t.first = s[1].time
      /\ p \in {"bam", "rts"} => CountsOver(s, 1..(t.next - 1))
      /\ p \in {"bam", "rts"} => t.packets = s[1].n /\ 1 <= t.next
      /\ p = "nmea" => CountsOver(s, 0..(t.next - 1))
      /\ p = "rts" => UnderControl(s, t)
  BY <1>2 DEF Opened
<1>5. Len(x) \in Nat /\ x[Len(x)] = f
  <2>1. s \in Seq(CanFrames[p])
    BY <1>2
  <2> HIDE DEF s
  <2>2. QED
    BY <2>1
<1> HIDE DEF s, z, l
<1>6. p = "bam" => CountsOver(x, 1..s[1].n)
  <2>1. SUFFICES ASSUME p = "bam" PROVE CountsOver(x, 1..s[1].n)
    OBVIOUS
  <2>2. /\ f.kind = "data" /\ f.n = t.next /\ 1 <= t.next /\ s[1].n = t.next
        /\ CountsOver(s, 1..(t.next - 1))
    BY <1>4, <2>1
  <2>3. \A a \in 1..(t.next - 1) : a < f.n
    BY <1>3, <2>2
  <2>4. 1..s[1].n = (1..(t.next - 1)) \cup {f.n}
    BY <1>3, <2>2
  <2>5. CountsOver(x, (1..(t.next - 1)) \cup {f.n})
    BY <1>2, <2>2, <2>3, CountMore
  <2> HIDE DEF x
  <2>6. QED
    BY <2>4, <2>5
<1>7. p = "nmea" => CountsOver(x, 0..3)
  <2>1. SUFFICES ASSUME p = "nmea" PROVE CountsOver(x, 0..3)
    OBVIOUS
  <2>2. /\ f.kind = "data" /\ f.n = 3 /\ t.next = 3
        /\ CountsOver(s, 0..(t.next - 1))
    BY <1>4, <2>1
  <2>3. \A a \in 0..(t.next - 1) : a < f.n
    BY <2>2
  <2>4. 0..3 = (0..(t.next - 1)) \cup {f.n}
    BY <2>2
  <2>5. CountsOver(x, (0..(t.next - 1)) \cup {f.n})
    BY <1>2, <2>2, <2>3, CountMore
  <2> HIDE DEF x
  <2>6. QED
    BY <2>4, <2>5
<1>8. p = "rts" => /\ CountsOver(x, 1..s[1].n) /\ FlowControlled(x)
                   /\ Tile(u.grants, s[1].n)
  <2>1. SUFFICES ASSUME p = "rts"
                 PROVE  /\ CountsOver(x, 1..s[1].n) /\ FlowControlled(x)
                        /\ Tile(u.grants, s[1].n)
    OBVIOUS
  <2>2. /\ f.kind = "ack" /\ t.state = "ACK" /\ s[1].n = t.packets
        /\ CountsOver(s, 1..(t.next - 1)) /\ UnderControl(s, t)
    BY <1>4, <2>1
  <2>3. t.next = t.packets + 1 /\ Tile(t.grants, t.packets) /\ FlowControlled(s)
    BY <2>2 DEF UnderControl
  <2>4. t.next - 1 = s[1].n
    BY <1>3, <2>2, <2>3
  <2>5. CountsOver(x, 1..(t.next - 1))
    BY <1>2, <2>2, CountSame
  <2>6. FlowControlled(x)
    BY <1>2, <2>2, <2>3, FlowMore
  <2> HIDE DEF x
  <2>7. QED
    BY <2>2, <2>3, <2>4, <2>5, <2>6
<1> HIDE DEF x
<1>9. p = "dronecan" => z[l].time - z[u.frames[1]].time <= TransferTimeout
  BY <1>2, <1>4
<1>10. x[1] = s[1]
  BY <1>2
<1>11. Rebuilt(p, z, u)
  <2>1. Len(u.frames) > 1 => Gathered(z, u, u.frames[Len(u.frames)])
    BY <1>2 DEF l
  <2>2. p = "rts" => x[Len(x)].kind = "ack"
    BY <1>5
  <2>3. QED
    BY <1>2, <1>6, <1>7, <1>8, <1>9, <1>10, <2>1, <2>2 DEF Rebuilt, l
<1>12. QED
  BY <1>11 DEF z

(* What the answer to a frame says about it. *)
LEMMA StepMeaning ==
    ASSUME canProtocol \in Protocols, NEW f
    PROVE  /\ Step(f) = "unsupported" =>
                 \/ ~Open(f.key)
                 \/ canProtocol \in {"dronecan", "nmea"} /\ f.kind = "other"
           /\ Step(f) = "single" =>
                 /\ canProtocol \in {"dronecan", "bam"}
                 /\ canProtocol = "bam" => f.kind = "single"
                 /\ ~Open(f.key) \/ f.kind = "single"
           /\ Step(f) = "open" =>
                 /\ ~Open(f.key) /\ f.kind \notin {"single", "other"}
                 /\ canProtocol = "nmea" => f.kind = "data" /\ f.n = 0
                 /\ canProtocol = "bam" => f.kind = "announce"
                 /\ canProtocol = "rts" => f.kind = "rts"
           /\ Step(f) = "grant" =>
                 /\ canProtocol = "rts" /\ Open(f.key) /\ f.kind = "cts"
                 /\ canPending[f.key].state = "CTS" /\ f.n = canPending[f.key].next
                 /\ f.m \in 1..canPending[f.key].maximum
                 /\ f.m <= canPending[f.key].packets - canPending[f.key].next + 1
           /\ Step(f) = "grow" =>
                 /\ Open(f.key) /\ f.kind # "single"
                 /\ canProtocol = "dronecan" \/ (f.kind = "data" /\ f.n = canPending[f.key].next)
                 /\ canProtocol = "rts" => canPending[f.key].state = "DT"
           /\ Step(f) = "close" =>
                 /\ Open(f.key) /\ f.kind # "single"
                 /\ canProtocol = "dronecan" =>
                       ~(f.time - canPending[f.key].first > TransferTimeout)
                 /\ canProtocol = "bam" => /\ f.kind = "data" /\ f.n = canPending[f.key].next
                                           /\ f.n = canPending[f.key].packets
                 /\ canProtocol = "nmea" => /\ f.kind = "data" /\ f.n = canPending[f.key].next
                                            /\ f.n = 3
                 /\ canProtocol = "rts" => f.kind = "ack" /\ canPending[f.key].state = "ACK"
<1>1. CASE canProtocol = "dronecan"
  <2>1. Step(f) = DroneCanStep(f)
    BY <1>1 DEF Step
  <2>2. /\ DroneCanStep(f) \in {"unsupported", "single", "open", "close", "grow", "refuse"}
        /\ DroneCanStep(f) = "unsupported" => f.kind = "other"
        /\ DroneCanStep(f) = "single" => ~Open(f.key)
        /\ DroneCanStep(f) = "open" => f.kind = "start" /\ ~Open(f.key)
        /\ DroneCanStep(f) \in {"grow", "close"} => f.kind \in {"more", "end"} /\ Open(f.key)
        /\ DroneCanStep(f) = "close" => ~(f.time - canPending[f.key].first > TransferTimeout)
    BY DEF DroneCanStep
  <2>3. QED
    BY <1>1, <2>1, <2>2
<1>2. CASE canProtocol = "bam"
  <2>1. Step(f) = BamStep(f)
    BY <1>2 DEF Step
  <2>2. /\ BamStep(f) \in {"unsupported", "single", "open", "close", "grow", "refuse"}
        /\ BamStep(f) = "unsupported" => ~Open(f.key)
        /\ BamStep(f) = "single" => f.kind = "single"
        /\ BamStep(f) = "open" => f.kind = "announce" /\ ~Open(f.key)
        /\ BamStep(f) \in {"grow", "close"} =>
              f.kind = "data" /\ Open(f.key) /\ f.n = canPending[f.key].next
        /\ BamStep(f) = "close" => f.n = canPending[f.key].packets
    BY DEF BamStep
  <2>3. QED
    BY <1>2, <2>1, <2>2
<1>3. CASE canProtocol = "rts"
  <2>1. Step(f) = RtsStep(f)
    BY <1>3 DEF Step
  <2>2. /\ RtsStep(f) \in {"unsupported", "grant", "open", "close", "grow", "refuse"}
        /\ RtsStep(f) = "unsupported" => ~Open(f.key)
        /\ RtsStep(f) = "open" => f.kind = "rts" /\ ~Open(f.key)
        /\ RtsStep(f) = "grant" =>
              /\ Open(f.key) /\ f.kind = "cts"
              /\ canPending[f.key].state = "CTS" /\ f.n = canPending[f.key].next
              /\ f.m \in 1..canPending[f.key].maximum
              /\ f.m <= canPending[f.key].packets - canPending[f.key].next + 1
        /\ RtsStep(f) = "grow" =>
              /\ f.kind = "data" /\ Open(f.key) /\ f.n = canPending[f.key].next
              /\ canPending[f.key].state = "DT"
        /\ RtsStep(f) = "close" =>
              f.kind = "ack" /\ Open(f.key) /\ canPending[f.key].state = "ACK"
    BY DEF RtsStep
  <2>3. QED
    BY <1>3, <2>1, <2>2
<1>4. CASE canProtocol = "nmea"
  <2>1. Step(f) = NmeaStep(f)
    BY <1>4 DEF Step
  <2>2. /\ NmeaStep(f) \in {"unsupported", "open", "close", "grow", "refuse"}
        /\ NmeaStep(f) = "unsupported" => f.kind = "other"
        /\ NmeaStep(f) = "open" => f.kind = "data" /\ f.n = 0 /\ ~Open(f.key)
        /\ NmeaStep(f) \in {"grow", "close"} =>
              f.kind = "data" /\ Open(f.key) /\ f.n = canPending[f.key].next
        /\ NmeaStep(f) = "close" => f.n = 3
    BY DEF NmeaStep
  <2>3. QED
    BY <1>4, <2>1, <2>2
<1>5. QED
  BY <1>1, <1>2, <1>3, <1>4 DEF Protocols

(* A frame the selection leaves out belongs to no open transfer. *)
LEMMA UnsupportedIsNobodys ==
    ASSUME CanInv, canVerdict = "reading", NEW f \in CanFrames[canProtocol],
           Step(f) = "unsupported"
    PROVE  ~Open(f.key)
<1> SUFFICES ASSUME Open(f.key) PROVE FALSE
  OBVIOUS
<1>1. canProtocol \in Protocols /\ canCapture \in Seq(CanFrames[canProtocol])
  BY DEF CanInv, CanType
<1>2. canProtocol \in {"dronecan", "nmea"} /\ f.kind = "other"
  BY <1>1, StepMeaning
<1> DEFINE t == canPending[f.key]
           g == canCapture[t.frames[1]]
<1>3. Opened(canProtocol, canCapture, f.key, t)
  BY DEF CanInv, OpenTransfers, Open
<1>4. Len(canCapture) \in Nat
  BY <1>1, LenProperties
<1>5. g.key = f.key /\ g.kind # "other"
  <2>1. canCapture[t.frames[1]].key = f.key
    BY <1>3, <1>4, OpenedKey
  <2>2. canCapture[t.frames[1]].kind # "other"
    BY <1>3 DEF Opened
  <2>3. QED
    BY <2>1, <2>2
<1>6. g \in CanFrames[canProtocol]
  <2>1. t.frames \in Seq(1..Len(canCapture)) /\ t.frames # <<>>
    BY <1>3 DEF Opened
  <2>2. t.frames[1] \in 1..Len(canCapture)
    BY <1>4, <2>1, FirstFrame
  <2>3. QED
    BY <1>1, <2>2, ElementOfSeq
<1> HIDE DEF g
<1>7. QED
  BY <1>1, <1>2, <1>5, <1>6, CanAssumption

(* A frame ends a transfer: who has it, and who had it before. *)
LEMMA DoneMore ==
    ASSUME NEW S, NEW done \in Seq(S), NEW u \in S
    PROVE  \A i : InDone(Append(done, u), i) =
                     IF i \in ToSet(u.frames) THEN InDone(done, i) \cup {Len(done) + 1}
                     ELSE InDone(done, i)
<1> DEFINE n == Len(done)
           z == Append(done, u)
<1>1. n \in Nat /\ DOMAIN done = 1..n
  BY LenProperties
<1>2. z \in Seq(S) /\ Len(z) = n + 1 /\ z[n + 1] = u /\ \A j \in 1..n : z[j] = done[j]
  OBVIOUS
<1> HIDE DEF z, n
<1>3. DOMAIN z = 1..(n + 1)
  BY <1>2, LenProperties
<1>4. \A j : j \in DOMAIN z <=> j \in DOMAIN done \/ j = n + 1
  BY <1>1, <1>3
<1>5. n + 1 \notin DOMAIN done
  BY <1>1
<1>6. \A i : InDone(z, i) = IF i \in ToSet(u.frames) THEN InDone(done, i) \cup {n + 1}
                            ELSE InDone(done, i)
  <2> SUFFICES ASSUME NEW i
               PROVE  InDone(z, i) = IF i \in ToSet(u.frames) THEN InDone(done, i) \cup {n + 1}
                                     ELSE InDone(done, i)
    OBVIOUS
  <2>1. \A j : j \in InDone(z, i) <=>
                  j \in InDone(done, i) \/ (j = n + 1 /\ i \in ToSet(u.frames))
    BY <1>1, <1>2, <1>4, <1>5 DEF InDone
  <2>2. CASE i \in ToSet(u.frames)
    BY <2>1, <2>2
  <2>3. CASE i \notin ToSet(u.frames)
    BY <2>1, <2>3
  <2>4. QED
    BY <2>2, <2>3
<1>7. QED
  BY <1>6 DEF z, n

(* A transfer is opened, prolonged or closed: who has a frame then. *)
LEMMA PendingChanged ==
    ASSUME NEW k, NEW t, NEW i
    PROVE  /\ i \in ToSet(t.frames) =>
                 InPending(With(k, t), i) = InPending(canPending, i) \cup {k}
           /\ i \notin ToSet(t.frames) =>
                 InPending(With(k, t), i) = InPending(canPending, i) \ {k}
           /\ InPending(Without(k), i) = InPending(canPending, i) \ {k}
<1>1. \A x : x \in InPending(With(k, t), i) <=>
                \/ x # k /\ x \in InPending(canPending, i)
                \/ x = k /\ i \in ToSet(t.frames)
  BY DEF InPending, With
<1>2. \A x : x \in InPending(Without(k), i) <=> x # k /\ x \in InPending(canPending, i)
  BY DEF InPending, Without
<1>3. QED
  BY <1>1, <1>2

(* The capture grows by one frame, and no transfer has its position yet. *)
LEMMA OneMore ==
    ASSUME CanInv, canVerdict = "reading", NEW f \in CanFrames[canProtocol],
           canCapture' = Append(canCapture, f)
    PROVE  /\ canProtocol \in Protocols /\ canCapture \in Seq(CanFrames[canProtocol])
           /\ Len(canCapture) \in Nat /\ DOMAIN canCapture = 1..Len(canCapture)
           /\ canCapture' \in Seq(CanFrames[canProtocol]) /\ Len(canCapture') = ThisFrame
           /\ DOMAIN canCapture' = DOMAIN canCapture \cup {ThisFrame}
           /\ ThisFrame \notin DOMAIN canCapture /\ ThisFrame \in Nat /\ f.key \in CanKeys
           /\ ThisFrame \notin canUnsupported
           /\ InDone(canDone, ThisFrame) = {} /\ InPending(canPending, ThisFrame) = {}
<1>1. /\ canProtocol \in Protocols /\ canCapture \in Seq(CanFrames[canProtocol])
      /\ canUnsupported \subseteq DOMAIN canCapture
  BY DEF CanInv, CanType
<1>2. Len(canCapture) \in Nat /\ DOMAIN canCapture = 1..Len(canCapture)
  BY <1>1, LenProperties
<1>3. canCapture' \in Seq(CanFrames[canProtocol]) /\ Len(canCapture') = ThisFrame
  BY <1>1 DEF ThisFrame
<1>4. DOMAIN canCapture' = 1..ThisFrame
  BY <1>3, LenProperties
<1>5. /\ DOMAIN canCapture' = DOMAIN canCapture \cup {ThisFrame}
      /\ ThisFrame \notin DOMAIN canCapture /\ ThisFrame \in Nat
  BY <1>2, <1>4 DEF ThisFrame
<1>6. InDone(canDone, ThisFrame) = {}
  <2> SUFFICES ASSUME NEW j \in DOMAIN canDone, ThisFrame \in ToSet(canDone[j].frames) PROVE FALSE
    BY DEF InDone
  <2>1. canDone[j].frames \in Seq(1..Len(canCapture)) /\ canDone[j].frames # <<>>
    BY DEF CanInv, DoneTransfers, Rebuilt
  <2>2. ToSet(canDone[j].frames) \subseteq 1..Len(canCapture)
    BY <1>2, <2>1, FirstFrame
  <2>3. QED
    BY <1>2, <1>5, <2>2
<1>7. InPending(canPending, ThisFrame) = {}
  <2> SUFFICES ASSUME NEW k \in DOMAIN canPending, ThisFrame \in ToSet(canPending[k].frames) PROVE FALSE
    BY DEF InPending
  <2>1. canPending[k].frames \in Seq(1..Len(canCapture)) /\ canPending[k].frames # <<>>
    BY DEF CanInv, OpenTransfers, Opened
  <2>2. ToSet(canPending[k].frames) \subseteq 1..Len(canCapture)
    BY <1>2, <2>1, FirstFrame
  <2>3. QED
    BY <1>2, <1>5, <2>2
<1>8. f.key \in CanKeys
  BY <1>1, FrameFields
<1>9. QED
  BY <1>1, <1>2, <1>3, <1>5, <1>6, <1>7, <1>8

(* A frame leaves the decoded transfers and the open ones of other keys as they were. *)
LEMMA OthersStay ==
    ASSUME CanInv, canVerdict = "reading", NEW f \in CanFrames[canProtocol],
           canCapture' = Append(canCapture, f)
    PROVE  /\ \A k \in DOMAIN canPending : f.key # k \/ f.kind = "single" =>
                 Opened(canProtocol, canCapture', k, canPending[k])
           /\ \A j \in DOMAIN canDone : Rebuilt(canProtocol, canCapture', canDone[j])
<1>1. canProtocol \in Protocols /\ canCapture \in Seq(CanFrames[canProtocol])
  BY OneMore
<1>2. ASSUME NEW k \in DOMAIN canPending, f.key # k \/ f.kind = "single"
      PROVE  Opened(canProtocol, canCapture', k, canPending[k])
  <2>1. Opened(canProtocol, canCapture, k, canPending[k])
    BY DEF CanInv, OpenTransfers
  <2>2. Opened(canProtocol, Append(canCapture, f), k, canPending[k])
    BY <1>1, <1>2, <2>1, OpenedSkips
  <2>3. QED
    BY <2>2, Zenon
<1>3. ASSUME NEW j \in DOMAIN canDone
      PROVE  Rebuilt(canProtocol, canCapture', canDone[j])
  <2>1. Rebuilt(canProtocol, canCapture, canDone[j])
    BY DEF CanInv, DoneTransfers
  <2>2. Rebuilt(canProtocol, Append(canCapture, f), canDone[j])
    BY <1>1, <2>1, RebuiltStays
  <2>3. QED
    BY <2>2, Zenon
<1>4. QED
  BY <1>2, <1>3

(* Skip: the frame is on the list and nowhere else. *)
LEMMA SkipInv == ASSUME CanInv, NEW f \in CanFrames[canProtocol], Skip(f) PROVE CanInv'
<1>1. /\ canVerdict = "reading" /\ Step(f) = "unsupported"
      /\ canCapture' = Append(canCapture, f) /\ canUnsupported' = canUnsupported \cup {ThisFrame}
      /\ canProtocol' = canProtocol /\ canPending' = canPending /\ canDone' = canDone
      /\ canVerdict' = canVerdict
  BY DEF Skip, CanRead
<1>2. /\ canCapture' \in Seq(CanFrames[canProtocol])
      /\ DOMAIN canCapture' = DOMAIN canCapture \cup {ThisFrame}
      /\ ThisFrame \notin DOMAIN canCapture
      /\ InDone(canDone, ThisFrame) = {} /\ InPending(canPending, ThisFrame) = {}
  BY <1>1, OneMore
<1>3. CanType'
  BY <1>1, <1>2 DEF CanInv, CanType
<1>4. OpenTransfers'
  <2>1. ~Open(f.key)
    BY <1>1, UnsupportedIsNobodys
  <2>2. \A k \in DOMAIN canPending : Opened(canProtocol, canCapture', k, canPending[k])
    BY <1>1, <2>1, OthersStay DEF Open
  <2>3. QED
    BY <1>1, <2>2 DEF OpenTransfers
<1>5. DoneTransfers'
  BY <1>1, OthersStay DEF DoneTransfers
<1>6. OnePlace'
  <2>1. \A i \in DOMAIN canCapture :
           Placed(i \in canUnsupported, InDone(canDone, i), InPending(canPending, i))
    BY <1>1 DEF CanInv, OnePlace
  <2>2. \A i \in DOMAIN canCapture : i \in canUnsupported' <=> i \in canUnsupported
    BY <1>1, <1>2
  <2>3. \A i \in DOMAIN canCapture :
           Placed(i \in canUnsupported', InDone(canDone, i), InPending(canPending, i))
    BY <2>1, <2>2 DEF Placed
  <2>4. Placed(ThisFrame \in canUnsupported', InDone(canDone, ThisFrame), InPending(canPending, ThisFrame))
    BY <1>1, <1>2 DEF Placed
  <2>5. QED
    BY <1>1, <1>2, <2>3, <2>4 DEF OnePlace
<1>7. ConvertedIsClosed'
  BY <1>1 DEF CanInv, ConvertedIsClosed
<1>8. QED
  BY <1>3, <1>4, <1>5, <1>6, <1>7 DEF CanInv

(* An open transfer u takes the new frame and keeps those it had. *)
LEMMA PendingStep ==
    ASSUME CanInv, canVerdict = "reading", NEW f \in CanFrames[canProtocol],
           canCapture' = Append(canCapture, f),
           NEW u \in Transfer, Opened(canProtocol, canCapture', f.key, u),
           canPending' = With(f.key, u), ThisFrame \in ToSet(u.frames),
           \A i \in DOMAIN canCapture : i \in ToSet(u.frames) <=>
               Open(f.key) /\ i \in ToSet(canPending[f.key].frames),
           UNCHANGED <<canProtocol, canDone, canUnsupported, canVerdict>>
    PROVE  CanInv'
<1>1. /\ canProtocol' = canProtocol /\ canDone' = canDone
      /\ canUnsupported' = canUnsupported /\ canVerdict' = canVerdict
  OBVIOUS
<1>2. /\ canCapture' \in Seq(CanFrames[canProtocol]) /\ f.key \in CanKeys
      /\ DOMAIN canCapture' = DOMAIN canCapture \cup {ThisFrame}
      /\ ThisFrame \notin DOMAIN canCapture /\ ThisFrame \notin canUnsupported
      /\ InDone(canDone, ThisFrame) = {} /\ InPending(canPending, ThisFrame) = {}
  BY OneMore
<1>3. /\ DOMAIN canPending' = DOMAIN canPending \cup {f.key}
      /\ canPending'[f.key] = u
      /\ \A k \in DOMAIN canPending : k # f.key => canPending'[k] = canPending[k]
  BY DEF With
<1>4. CanType'
  <2>1. canPending' \in [DOMAIN canPending' -> Transfer]
    <3>1. canPending \in [DOMAIN canPending -> Transfer]
      BY DEF CanInv, CanType
    <3>2. QED
      BY <3>1 DEF With
  <2>2. DOMAIN canPending' \subseteq CanKeys
    BY <1>2, <1>3 DEF CanInv, CanType
  <2>3. canUnsupported \subseteq DOMAIN canCapture'
    BY <1>2 DEF CanInv, CanType
  <2>4. QED
    BY <1>1, <1>2, <2>1, <2>2, <2>3 DEF CanInv, CanType
<1>5. OpenTransfers'
  <2>1. ASSUME NEW k \in DOMAIN canPending'
        PROVE  Opened(canProtocol, canCapture', k, canPending'[k])
    <3>1. CASE k = f.key
      BY <1>3, <3>1
    <3>2. CASE k # f.key
      <4>1. k \in DOMAIN canPending /\ canPending'[k] = canPending[k]
        BY <1>3, <3>2
      <4>2. Opened(canProtocol, canCapture', k, canPending[k])
        BY <3>2, <4>1, OthersStay
      <4>3. QED
        BY <4>1, <4>2
    <3>3. QED
      BY <3>1, <3>2
  <2>2. QED
    BY <1>1, <2>1 DEF OpenTransfers
<1>6. DoneTransfers'
  BY <1>1, OthersStay DEF DoneTransfers
<1>7. OnePlace'
  <2>1. ASSUME NEW i \in DOMAIN canCapture
        PROVE  InPending(canPending', i) = InPending(canPending, i)
    <3>1. CASE i \in ToSet(u.frames)
      <4>1. f.key \in InPending(canPending, i)
        BY <2>1, <3>1 DEF InPending, Open
      <4>2. InPending(canPending', i) = InPending(canPending, i) \cup {f.key}
        BY <3>1, PendingChanged
      <4>3. QED
        BY <4>1, <4>2
    <3>2. CASE i \notin ToSet(u.frames)
      <4>1. f.key \notin InPending(canPending, i)
        BY <2>1, <3>2 DEF InPending, Open
      <4>2. InPending(canPending', i) = InPending(canPending, i) \ {f.key}
        BY <3>2, PendingChanged
      <4>3. QED
        BY <4>1, <4>2
    <3>3. QED
      BY <3>1, <3>2
  <2>2. InPending(canPending', ThisFrame) = {f.key}
    BY <1>2, PendingChanged
  <2>3. \A i \in DOMAIN canCapture :
           Placed(i \in canUnsupported, InDone(canDone, i), InPending(canPending, i))
    BY DEF CanInv, OnePlace
  <2>4. \A i \in DOMAIN canCapture :
           Placed(i \in canUnsupported, InDone(canDone, i), InPending(canPending', i))
    BY <2>1, <2>3
  <2>5. Placed(ThisFrame \in canUnsupported, InDone(canDone, ThisFrame), InPending(canPending', ThisFrame))
    BY <1>2, <2>2 DEF Placed
  <2>6. QED
    BY <1>1, <1>2, <2>4, <2>5 DEF OnePlace
<1>8. ConvertedIsClosed'
  BY <1>1 DEF ConvertedIsClosed
<1>9. QED
  BY <1>4, <1>5, <1>6, <1>7, <1>8 DEF CanInv

(* A decoded transfer u takes the new frame, and those its open one had. *)
LEMMA DoneStep ==
    ASSUME CanInv, canVerdict = "reading", NEW f \in CanFrames[canProtocol],
           canCapture' = Append(canCapture, f),
           NEW u \in Transfer, Rebuilt(canProtocol, canCapture', u),
           canDone' = Append(canDone, u), ThisFrame \in ToSet(u.frames),
           \/ /\ canPending' = canPending
              /\ ~Open(f.key) \/ f.kind = "single"
              /\ \A i \in DOMAIN canCapture : i \notin ToSet(u.frames)
           \/ /\ canPending' = Without(f.key) /\ Open(f.key)
              /\ \A i \in DOMAIN canCapture : i \in ToSet(u.frames) <=>
                     i \in ToSet(canPending[f.key].frames),
           UNCHANGED <<canProtocol, canUnsupported, canVerdict>>
    PROVE  CanInv'
<1>1. /\ canProtocol' = canProtocol /\ canUnsupported' = canUnsupported
      /\ canVerdict' = canVerdict
  OBVIOUS
<1>2. /\ canCapture' \in Seq(CanFrames[canProtocol])
      /\ DOMAIN canCapture' = DOMAIN canCapture \cup {ThisFrame}
      /\ ThisFrame \notin DOMAIN canCapture /\ ThisFrame \notin canUnsupported
      /\ InDone(canDone, ThisFrame) = {} /\ InPending(canPending, ThisFrame) = {}
  BY OneMore
<1>3. /\ DOMAIN canPending' \subseteq DOMAIN canPending
      /\ \A k \in DOMAIN canPending' : canPending'[k] = canPending[k]
      /\ \A k \in DOMAIN canPending' : f.key # k \/ f.kind = "single"
  <2>1. CASE canPending' = canPending /\ (~Open(f.key) \/ f.kind = "single")
    BY <2>1 DEF Open
  <2>2. CASE canPending' = Without(f.key)
    BY <2>2 DEF Without
  <2>3. QED
    BY <2>1, <2>2
<1>4. canDone \in Seq(Transfer) /\ Len(canDone) \in Nat
  BY LenProperties DEF CanInv, CanType
<1>5. /\ canDone' \in Seq(Transfer)
      /\ \A j \in DOMAIN canDone' : \/ j \in DOMAIN canDone /\ canDone'[j] = canDone[j]
                                    \/ canDone'[j] = u
  <2>1. /\ canDone' \in Seq(Transfer) /\ Len(canDone') = Len(canDone) + 1
        /\ \A j \in 1..Len(canDone) : canDone'[j] = canDone[j]
        /\ canDone'[Len(canDone) + 1] = u
    BY <1>4
  <2>2. DOMAIN canDone' = 1..(Len(canDone) + 1) /\ DOMAIN canDone = 1..Len(canDone)
    BY <1>4, <2>1, LenProperties
  <2>3. \A j \in DOMAIN canDone' : j \in 1..Len(canDone) \/ j = Len(canDone) + 1
    BY <1>4, <2>2
  <2>4. QED
    BY <2>1, <2>2, <2>3
<1>6. CanType'
  <2>1. canPending' \in [DOMAIN canPending' -> Transfer]
    <3>1. canPending \in [DOMAIN canPending -> Transfer]
      BY DEF CanInv, CanType
    <3>2. canPending' = canPending \/ canPending' = Without(f.key)
      OBVIOUS
    <3>3. Without(f.key) \in [DOMAIN Without(f.key) -> Transfer]
      BY <3>1 DEF Without
    <3>4. QED
      BY <3>1, <3>2, <3>3
  <2>2. DOMAIN canPending' \subseteq CanKeys
    BY <1>3 DEF CanInv, CanType
  <2>3. canUnsupported \subseteq DOMAIN canCapture'
    BY <1>2 DEF CanInv, CanType
  <2>4. QED
    BY <1>1, <1>2, <1>5, <2>1, <2>2, <2>3 DEF CanInv, CanType
<1>7. OpenTransfers'
  <2>1. \A k \in DOMAIN canPending' : Opened(canProtocol, canCapture', k, canPending'[k])
    BY <1>3, OthersStay
  <2>2. QED
    BY <1>1, <2>1 DEF OpenTransfers
<1>8. DoneTransfers'
  <2>1. \A j \in DOMAIN canDone' : Rebuilt(canProtocol, canCapture', canDone'[j])
    BY <1>5, OthersStay
  <2>2. QED
    BY <1>1, <2>1 DEF DoneTransfers
<1>9. OnePlace'
  <2> DEFINE n == Len(canDone) + 1
  <2>1. \A i : InDone(canDone', i) = IF i \in ToSet(u.frames) THEN InDone(canDone, i) \cup {n}
                                     ELSE InDone(canDone, i)
    <3>1. \A i : InDone(Append(canDone, u), i) =
                     IF i \in ToSet(u.frames) THEN InDone(canDone, i) \cup {n}
                     ELSE InDone(canDone, i)
      BY <1>4, DoneMore
    <3>2. QED
      BY <3>1, Zenon
  <2> HIDE DEF n
  <2>2. ASSUME NEW i \in DOMAIN canCapture
        PROVE  Placed(i \in canUnsupported, InDone(canDone', i), InPending(canPending', i))
    <3> DEFINE D == InDone(canDone, i)
               P == InPending(canPending, i)
    <3>1. Placed(i \in canUnsupported, D, P)
      BY DEF CanInv, OnePlace
    <3>2. CASE i \in ToSet(u.frames)
      <4>1. canPending' = Without(f.key) /\ f.key \in P
        BY <3>2 DEF InPending, Open
      <4>2. InPending(canPending', i) = P \ {f.key} /\ InDone(canDone', i) = D \cup {n}
        BY <2>1, <3>2, <4>1, PendingChanged
      <4> HIDE DEF D, P
      <4>3. i \notin canUnsupported /\ D = {} /\ P = {f.key}
        BY <3>1, <4>1 DEF Placed
      <4>4. InPending(canPending', i) = {} /\ InDone(canDone', i) = {n}
        BY <4>2, <4>3
      <4>5. QED
        BY <4>3, <4>4 DEF Placed
    <3>3. CASE i \notin ToSet(u.frames)
      <4>1. InDone(canDone', i) = D
        BY <2>1, <3>3
      <4>2. InPending(canPending', i) = P
        <5>1. CASE canPending' = canPending
          BY <5>1
        <5>2. CASE canPending' = Without(f.key) /\ Open(f.key)
              /\ \A h \in DOMAIN canCapture : h \in ToSet(u.frames) <=>
                     h \in ToSet(canPending[f.key].frames)
          <6>1. f.key \notin P
            BY <3>3, <5>2 DEF InPending
          <6>2. InPending(canPending', i) = P \ {f.key}
            BY <5>2, PendingChanged
          <6>3. QED
            BY <6>1, <6>2
        <5>3. QED
          BY <5>1, <5>2
      <4>3. QED
        BY <3>1, <4>1, <4>2
    <3>4. QED
      BY <3>2, <3>3
  <2>3. Placed(ThisFrame \in canUnsupported, InDone(canDone', ThisFrame), InPending(canPending', ThisFrame))
    <3>1. InDone(canDone', ThisFrame) = {n}
      BY <1>2, <2>1
    <3>2. InPending(canPending', ThisFrame) = {}
      <4>1. CASE canPending' = canPending
        BY <1>2, <4>1
      <4>2. CASE canPending' = Without(f.key)
        <5>1. InPending(canPending', ThisFrame) = InPending(canPending, ThisFrame) \ {f.key}
          BY <4>2, PendingChanged
        <5>2. QED
          BY <1>2, <5>1
      <4>3. QED
        BY <4>1, <4>2
    <3>3. QED
      BY <1>2, <3>1, <3>2 DEF Placed
  <2>4. QED
    BY <1>1, <1>2, <2>2, <2>3 DEF OnePlace
<1>10. ConvertedIsClosed'
  BY <1>1 DEF ConvertedIsClosed
<1>11. QED
  BY <1>6, <1>7, <1>8, <1>9, <1>10 DEF CanInv

(* The frames of a transfer that takes the new one. *)
LEMMA LongerPositions ==
    ASSUME CanInv, canVerdict = "reading", NEW f \in CanFrames[canProtocol],
           canCapture' = Append(canCapture, f), Open(f.key),
           NEW u, u.frames = Append(canPending[f.key].frames, ThisFrame)
    PROVE  /\ ThisFrame \in ToSet(u.frames)
           /\ \A i \in DOMAIN canCapture : i \in ToSet(u.frames) <=>
                 i \in ToSet(canPending[f.key].frames)
           /\ canPending[f.key] \in Transfer
           /\ Opened(canProtocol, canCapture, f.key, canPending[f.key])
<1> DEFINE t == canPending[f.key]
<1>1. t \in Transfer /\ Opened(canProtocol, canCapture, f.key, t)
  BY DEF CanInv, CanType, OpenTransfers, Open
<1>2. t.frames \in Seq(Nat)
  BY <1>1 DEF Transfer
<1>3. ThisFrame \in Nat /\ ThisFrame \notin DOMAIN canCapture
  BY OneMore
<1> DEFINE old == t.frames
           l   == Len(old)
           z   == Append(old, ThisFrame)
<1>4. l \in Nat /\ DOMAIN old = 1..l
  BY <1>2, LenProperties
<1>5. z \in Seq(Nat) /\ Len(z) = l + 1 /\ z[l + 1] = ThisFrame /\ \A i \in 1..l : z[i] = old[i]
  <2>1. old \in Seq(Nat)
    BY <1>2
  <2> HIDE DEF old
  <2>2. QED
    BY <1>3, <2>1
<1>6. u.frames = z
  OBVIOUS
<1> HIDE DEF old, l, z
<1>7. DOMAIN z = 1..(l + 1)
  BY <1>5, LenProperties
<1>8. \A i : i \in ToSet(z) <=> i \in ToSet(old) \/ i = ThisFrame
  <2>1. \A j : j \in DOMAIN z <=> j \in DOMAIN old \/ j = l + 1
    BY <1>4, <1>7
  <2>2. QED
    BY <1>4, <1>5, <2>1 DEF ToSet
<1>9. QED
  BY <1>1, <1>3, <1>6, <1>8 DEF old

(* A new transfer has no frame but the new one. *)
LEMMA FreshPositions ==
    ASSUME CanInv, canVerdict = "reading", NEW f \in CanFrames[canProtocol],
           canCapture' = Append(canCapture, f)
    PROVE  /\ NewTransfer(f) = Fresh(canCapture, f) /\ NewTransfer(f) \in Transfer
           /\ ThisFrame \in ToSet(NewTransfer(f).frames)
           /\ \A i \in DOMAIN canCapture : i \notin ToSet(NewTransfer(f).frames)
<1>1. NewTransfer(f) = Fresh(canCapture, f)
  BY DEF NewTransfer, Fresh, ThisFrame
<1>2. Fresh(canCapture, f) \in Transfer /\ Begun(canCapture, f, Fresh(canCapture, f))
  BY OneMore, FreshFrames
<1>3. ToSet(Fresh(canCapture, f).frames) = {ThisFrame} /\ ThisFrame \notin DOMAIN canCapture
  BY <1>2, OneMore DEF Begun, ThisFrame
<1> HIDE DEF Fresh
<1>4. QED
  BY <1>1, <1>2, <1>3

(* SingleFrame: the frame is a transfer by itself. *)
LEMMA SingleInv ==
    ASSUME CanInv, NEW f \in CanFrames[canProtocol], SingleFrame(f) PROVE CanInv'
<1>1. /\ canVerdict = "reading" /\ Step(f) = "single"
      /\ canCapture' = Append(canCapture, f)
      /\ canDone' = Append(canDone, NewTransfer(f))
      /\ canProtocol' = canProtocol /\ canPending' = canPending
      /\ canUnsupported' = canUnsupported /\ canVerdict' = canVerdict
  BY DEF SingleFrame, CanRead
<1>2. canProtocol \in Protocols /\ canCapture \in Seq(CanFrames[canProtocol])
  BY <1>1, OneMore
<1>3. /\ canProtocol \in {"dronecan", "bam"}
      /\ canProtocol = "bam" => f.kind = "single"
      /\ ~Open(f.key) \/ f.kind = "single"
  BY <1>1, <1>2, StepMeaning
<1> DEFINE u == NewTransfer(f)
<1>4. /\ u = Fresh(canCapture, f) /\ u \in Transfer /\ ThisFrame \in ToSet(u.frames)
      /\ \A i \in DOMAIN canCapture : i \notin ToSet(u.frames)
  BY <1>1, FreshPositions
<1>5. Rebuilt(canProtocol, Append(canCapture, f), Fresh(canCapture, f))
  BY <1>2, <1>3, RebuiltSingle
<1> HIDE DEF u
<1>6. Rebuilt(canProtocol, canCapture', u)
  BY <1>1, <1>4, <1>5, Zenon
<1>7. canDone' = Append(canDone, u)
  BY <1>1 DEF u
<1>8. QED
  BY <1>1, <1>3, <1>4, <1>6, <1>7, DoneStep

(* OpenTransfer: the frame begins a transfer. *)
LEMMA OpenInv ==
    ASSUME CanInv, NEW f \in CanFrames[canProtocol], OpenTransfer(f) PROVE CanInv'
<1>1. /\ canVerdict = "reading" /\ Step(f) = "open"
      /\ canCapture' = Append(canCapture, f)
      /\ canPending' = With(f.key, NewTransfer(f))
      /\ canProtocol' = canProtocol /\ canDone' = canDone
      /\ canUnsupported' = canUnsupported /\ canVerdict' = canVerdict
  BY DEF OpenTransfer, CanRead
<1>2. canProtocol \in Protocols /\ canCapture \in Seq(CanFrames[canProtocol])
  BY <1>1, OneMore
<1>3. /\ ~Open(f.key) /\ f.kind \notin {"single", "other"}
      /\ canProtocol = "nmea" => f.kind = "data" /\ f.n = 0
      /\ canProtocol = "bam" => f.kind = "announce"
      /\ canProtocol = "rts" => f.kind = "rts"
  BY <1>1, <1>2, StepMeaning
<1> DEFINE u == NewTransfer(f)
<1>4. /\ u = Fresh(canCapture, f) /\ u \in Transfer /\ ThisFrame \in ToSet(u.frames)
      /\ \A i \in DOMAIN canCapture : i \notin ToSet(u.frames)
  BY <1>1, FreshPositions
<1>5. Opened(canProtocol, Append(canCapture, f), f.key, Fresh(canCapture, f))
  BY <1>2, <1>3, OpenedNew
<1> HIDE DEF u
<1>6. Opened(canProtocol, canCapture', f.key, u)
  BY <1>1, <1>4, <1>5, Zenon
<1>7. canPending' = With(f.key, u)
  BY <1>1 DEF u
<1>8. QED
  BY <1>1, <1>3, <1>4, <1>6, <1>7, PendingStep

(* Grant: an open RTS transfer records the packets it grants. *)
LEMMA GrantInv == ASSUME CanInv, NEW f \in CanFrames[canProtocol], Grant(f) PROVE CanInv'
<1> DEFINE t == canPending[f.key]
           u == [t EXCEPT !.frames = Append(@, ThisFrame), !.grants = Append(@, <<f.n, f.m>>),
                          !.granted = f.m, !.state = "DT"]
<1>1. /\ canVerdict = "reading" /\ Step(f) = "grant"
      /\ canCapture' = Append(canCapture, f) /\ canPending' = With(f.key, u)
      /\ canProtocol' = canProtocol /\ canDone' = canDone
      /\ canUnsupported' = canUnsupported /\ canVerdict' = canVerdict
  BY DEF Grant, CanRead
<1>2. canProtocol \in Protocols /\ canCapture \in Seq(CanFrames[canProtocol])
  BY <1>1, OneMore
<1>3. /\ canProtocol = "rts" /\ Open(f.key) /\ f.kind = "cts"
      /\ t.state = "CTS" /\ f.n = t.next
      /\ f.m \in 1..t.maximum
      /\ f.m <= t.packets - t.next + 1
  BY <1>1, <1>2, StepMeaning
<1>4. t \in Transfer /\ Opened(canProtocol, canCapture, f.key, t)
  BY <1>1, <1>3 DEF CanInv, CanType, OpenTransfers, Open
<1>5. u.frames = Append(t.frames, ThisFrame)
  BY <1>4 DEF Transfer
<1>6. u \in Transfer /\ Opened("rts", Append(canCapture, f), f.key, u)
  <2>1. canCapture \in Seq(CanFrames["rts"]) /\ f \in CanFrames["rts"]
        /\ Opened("rts", canCapture, f.key, t)
    BY <1>2, <1>3, <1>4
  <2> HIDE DEF t
  <2>2. QED
    BY <1>3, <1>4, <2>1, OpenedGranted DEF ThisFrame
<1> HIDE DEF u
<1>7. /\ ThisFrame \in ToSet(u.frames)
      /\ \A i \in DOMAIN canCapture : i \in ToSet(u.frames) <=> i \in ToSet(t.frames)
  BY <1>1, <1>3, <1>5, LongerPositions
<1>8. Opened(canProtocol, canCapture', f.key, u)
  BY <1>1, <1>3, <1>6, Zenon
<1>9. QED
  BY <1>1, <1>3, <1>6, <1>7, <1>8, PendingStep

(* What Regranted makes of a transfer. *)
LEMMA RegrantedFields ==
    ASSUME NEW f, NEW v \in Transfer
    PROVE  LET u == Regranted(f, v) IN
           /\ u \in Transfer
           /\ u.key = v.key /\ u.frames = v.frames /\ u.first = v.first /\ u.next = v.next
           /\ u.packets = v.packets /\ u.maximum = v.maximum /\ u.grants = v.grants
           /\ canProtocol = "rts" =>
                 \/ f.n = v.packets /\ u.state = "ACK"
                 \/ f.n # v.packets /\ v.granted - 1 = 0 /\ u.state = "CTS"
                 \/ f.n # v.packets /\ v.granted - 1 # 0 /\ u.state = v.state
                    /\ u.granted = v.granted - 1
<1> DEFINE left == [v EXCEPT !.granted = @ - 1]
           u == Regranted(f, v)
<1>1. CASE canProtocol # "rts"
  BY <1>1 DEF Regranted
<1>2. CASE canProtocol = "rts"
  <2>1. /\ left \in Transfer /\ left.granted = v.granted - 1 /\ left.state = v.state
        /\ left.key = v.key /\ left.frames = v.frames /\ left.first = v.first
        /\ left.next = v.next /\ left.packets = v.packets /\ left.maximum = v.maximum
        /\ left.grants = v.grants
    <3>1. v.granted \in Int
      BY DEF Transfer
    <3>2. QED
      BY <3>1 DEF Transfer
  <2>2. /\ f.n = v.packets => u = [left EXCEPT !.state = "ACK"]
        /\ f.n # v.packets /\ left.granted = 0 => u = [left EXCEPT !.state = "CTS"]
        /\ f.n # v.packets /\ left.granted # 0 => u = left
    BY <1>2 DEF Regranted
  <2> HIDE DEF left, u
  <2>3. CASE f.n = v.packets
    <3>1. u = [left EXCEPT !.state = "ACK"]
      BY <2>2, <2>3
    <3>2. u \in Transfer /\ u.state = "ACK" /\ u.key = left.key /\ u.frames = left.frames
          /\ u.first = left.first /\ u.next = left.next /\ u.packets = left.packets
          /\ u.maximum = left.maximum /\ u.grants = left.grants
      BY <2>1, <3>1 DEF Transfer
    <3>3. QED
      BY <2>1, <2>3, <3>2 DEF u
  <2>4. CASE f.n # v.packets /\ left.granted = 0
    <3>1. u = [left EXCEPT !.state = "CTS"]
      BY <2>2, <2>4
    <3>2. u \in Transfer /\ u.state = "CTS" /\ u.key = left.key /\ u.frames = left.frames
          /\ u.first = left.first /\ u.next = left.next /\ u.packets = left.packets
          /\ u.maximum = left.maximum /\ u.grants = left.grants
      BY <2>1, <3>1 DEF Transfer
    <3>3. QED
      BY <2>1, <2>4, <3>2 DEF u
  <2>5. CASE f.n # v.packets /\ left.granted # 0
    BY <2>1, <2>2, <2>5 DEF u
  <2>6. QED
    BY <2>3, <2>4, <2>5
<1>3. QED
  BY <1>1, <1>2

(* What Grown makes of an open transfer. *)
LEMMA GrownFields ==
    ASSUME NEW f, canPending[f.key] \in Transfer, ThisFrame \in Nat
    PROVE  LET t == canPending[f.key]
               v == Grown(f)
           IN /\ v \in Transfer
              /\ v.key = t.key /\ v.frames = Append(t.frames, ThisFrame) /\ v.first = t.first
              /\ v.next = t.next + 1 /\ v.packets = t.packets /\ v.maximum = t.maximum
              /\ v.grants = t.grants /\ v.state = t.state /\ v.granted = t.granted
<1> DEFINE t == canPending[f.key]
           a == Append(t.frames, ThisFrame)
           n == t.next + 1
<1>1. t \in Transfer /\ t.frames \in Seq(Nat) /\ t.next \in Nat
  BY DEF Transfer
<1>2. a \in Seq(Nat) /\ n \in Nat
  BY <1>1
<1>3. Grown(f) = [t EXCEPT !.frames = a, !.next = n]
  BY DEF Grown
<1> HIDE DEF t, a, n
<1>4. LET v == [t EXCEPT !.frames = a, !.next = n]
      IN /\ v \in Transfer
         /\ v.key = t.key /\ v.frames = a /\ v.first = t.first
         /\ v.next = n /\ v.packets = t.packets /\ v.maximum = t.maximum
         /\ v.grants = t.grants /\ v.state = t.state /\ v.granted = t.granted
  BY <1>1, <1>2 DEF Transfer
<1>5. QED
  BY <1>3, <1>4 DEF t, a, n

(* GrowTransfer: an open transfer takes its next frame. *)
LEMMA GrowInv ==
    ASSUME CanInv, NEW f \in CanFrames[canProtocol], GrowTransfer(f) PROVE CanInv'
<1> DEFINE t == canPending[f.key]
           v == Grown(f)
           u == Regranted(f, v)
<1>1. /\ canVerdict = "reading" /\ Step(f) = "grow"
      /\ canCapture' = Append(canCapture, f) /\ canPending' = With(f.key, u)
      /\ canProtocol' = canProtocol /\ canDone' = canDone
      /\ canUnsupported' = canUnsupported /\ canVerdict' = canVerdict
  BY DEF GrowTransfer, CanRead
<1>2. canProtocol \in Protocols /\ canCapture \in Seq(CanFrames[canProtocol]) /\ ThisFrame \in Nat
  BY <1>1, OneMore
<1>3. /\ Open(f.key) /\ f.kind # "single"
      /\ canProtocol = "dronecan" \/ (f.kind = "data" /\ f.n = t.next)
      /\ canProtocol = "rts" => t.state = "DT"
  BY <1>1, <1>2, StepMeaning
<1>4. t \in Transfer /\ Opened(canProtocol, canCapture, f.key, t)
  BY <1>1, <1>3 DEF CanInv, CanType, OpenTransfers, Open
<1>5. /\ v \in Transfer
      /\ v.key = t.key /\ v.frames = Append(t.frames, ThisFrame) /\ v.first = t.first
      /\ v.next = t.next + 1 /\ v.packets = t.packets /\ v.maximum = t.maximum
      /\ v.grants = t.grants /\ v.state = t.state /\ v.granted = t.granted
  BY <1>2, <1>4, GrownFields
<1> HIDE DEF v
<1>6. /\ u \in Transfer
      /\ u.key = v.key /\ u.frames = v.frames /\ u.first = v.first /\ u.next = v.next
      /\ u.packets = v.packets /\ u.maximum = v.maximum /\ u.grants = v.grants
      /\ canProtocol = "rts" =>
            \/ f.n = v.packets /\ u.state = "ACK"
            \/ f.n # v.packets /\ v.granted - 1 = 0 /\ u.state = "CTS"
            \/ f.n # v.packets /\ v.granted - 1 # 0 /\ u.state = v.state
               /\ u.granted = v.granted - 1
  BY <1>5, RegrantedFields
<1> HIDE DEF t, u
<1>7. canProtocol = "rts" => t.state = "DT" /\ Counted(t, u, f)
  BY <1>3, <1>5, <1>6 DEF Counted
<1>8. u.key = t.key /\ u.frames = Append(t.frames, Len(canCapture) + 1)
      /\ u.next = t.next + 1 /\ u.first = t.first /\ u.packets = t.packets
      /\ u.maximum = t.maximum /\ u.grants = t.grants
  BY <1>5, <1>6 DEF ThisFrame
<1>9. Opened(canProtocol, Append(canCapture, f), f.key, u)
  BY <1>2, <1>3, <1>4, <1>7, <1>8, OpenedGrown
<1>10. Opened(canProtocol, canCapture', f.key, u)
  BY <1>1, <1>9, Zenon
<1>11. /\ ThisFrame \in ToSet(u.frames)
       /\ \A i \in DOMAIN canCapture : i \in ToSet(u.frames) <=> i \in ToSet(t.frames)
  BY <1>1, <1>3, <1>5, <1>6, LongerPositions DEF t
<1>12. QED
  BY <1>1, <1>3, <1>6, <1>10, <1>11, PendingStep DEF t

(* CloseTransfer: an open transfer takes its last frame and is decoded. *)
LEMMA CloseInv ==
    ASSUME CanInv, NEW f \in CanFrames[canProtocol], CloseTransfer(f) PROVE CanInv'
<1> DEFINE t == canPending[f.key]
           u == Grown(f)
<1>1. /\ canVerdict = "reading" /\ Step(f) = "close"
      /\ canCapture' = Append(canCapture, f)
      /\ canDone' = Append(canDone, u) /\ canPending' = Without(f.key)
      /\ canProtocol' = canProtocol
      /\ canUnsupported' = canUnsupported /\ canVerdict' = canVerdict
  BY DEF CloseTransfer, CanRead
<1>2. canProtocol \in Protocols /\ canCapture \in Seq(CanFrames[canProtocol]) /\ ThisFrame \in Nat
  BY <1>1, OneMore
<1>3. /\ Open(f.key) /\ f.kind # "single"
      /\ canProtocol = "dronecan" => ~(f.time - t.first > TransferTimeout)
      /\ canProtocol = "bam" => f.kind = "data" /\ f.n = t.next /\ f.n = t.packets
      /\ canProtocol = "nmea" => f.kind = "data" /\ f.n = t.next /\ f.n = 3
      /\ canProtocol = "rts" => f.kind = "ack" /\ t.state = "ACK"
  BY <1>1, <1>2, StepMeaning
<1>4. t \in Transfer /\ Opened(canProtocol, canCapture, f.key, t)
  BY <1>1, <1>3 DEF CanInv, CanType, OpenTransfers, Open
<1>5. u \in Transfer /\ u.key = t.key /\ u.frames = Append(t.frames, ThisFrame)
      /\ u.grants = t.grants
  BY <1>2, <1>4, GrownFields
<1> HIDE DEF u
<1>6. canProtocol = "dronecan" => f.time - t.first <= TransferTimeout
  <2>1. f.time \in Nat /\ t.first \in Nat /\ TransferTimeout \in Nat
    BY <1>2, <1>4, FrameFields, CanAssumption DEF Transfer
  <2>2. QED
    BY <1>3, <2>1
<1> HIDE DEF t
<1>7. Rebuilt(canProtocol, Append(canCapture, f), u)
  BY <1>2, <1>3, <1>4, <1>5, <1>6, RebuiltClosed DEF ThisFrame
<1>8. Rebuilt(canProtocol, canCapture', u)
  BY <1>1, <1>7, Zenon
<1>9. /\ ThisFrame \in ToSet(u.frames)
      /\ \A i \in DOMAIN canCapture : i \in ToSet(u.frames) <=> i \in ToSet(t.frames)
  BY <1>1, <1>3, <1>5, LongerPositions DEF t
<1>10. QED
  BY <1>1, <1>3, <1>5, <1>8, <1>9, DoneStep DEF t

(* RefuseFrame: the capture is refused, and what was decoded stays decoded. *)
LEMMA RefuseInv ==
    ASSUME CanInv, NEW f \in CanFrames[canProtocol], RefuseFrame(f) PROVE CanInv'
<1>1. /\ canVerdict = "reading" /\ canVerdict' = "refused"
      /\ canCapture' = Append(canCapture, f)
      /\ canProtocol' = canProtocol /\ canPending' = canPending /\ canDone' = canDone
      /\ canUnsupported' = canUnsupported
  BY DEF RefuseFrame, CanRead
<1>2. /\ canCapture' \in Seq(CanFrames[canProtocol])
      /\ DOMAIN canCapture' = DOMAIN canCapture \cup {ThisFrame}
  BY <1>1, OneMore
<1>3. CanType'
  BY <1>1, <1>2 DEF CanInv, CanType
<1>4. DoneTransfers'
  BY <1>1, OthersStay DEF DoneTransfers
<1>5. QED
  BY <1>1, <1>3, <1>4 DEF CanInv, OpenTransfers, OnePlace, ConvertedIsClosed

(* EndOfCan: only a capture without an open transfer is converted. *)
LEMMA EndInv == CanInv /\ EndOfCan => CanInv'
<1> SUFFICES ASSUME CanInv, EndOfCan PROVE CanInv'
  OBVIOUS
<1>1. /\ canVerdict = "reading" /\ canVerdict' \in {"converted", "refused"}
      /\ canVerdict' = "converted" => DOMAIN canPending = {}
      /\ canProtocol' = canProtocol /\ canCapture' = canCapture /\ canPending' = canPending
      /\ canDone' = canDone /\ canUnsupported' = canUnsupported
  BY DEF EndOfCan
<1>2. CanType'
  BY <1>1 DEF CanInv, CanType
<1>3. OpenTransfers' /\ DoneTransfers'
  BY <1>1 DEF CanInv, OpenTransfers, DoneTransfers
<1>4. OnePlace' /\ ConvertedIsClosed'
  BY <1>1 DEF CanInv, OnePlace, ConvertedIsClosed
<1>5. QED
  BY <1>2, <1>3, <1>4 DEF CanInv

(* Every step keeps the frames in their places. *)
LEMMA NextCanInv == CanInv /\ [CanNext]_canVars => CanInv'
<1> SUFFICES ASSUME CanInv, [CanNext]_canVars PROVE CanInv'
  OBVIOUS
<1>1. ASSUME NEW f \in CanFrames[canProtocol],
             \/ Skip(f) \/ SingleFrame(f) \/ OpenTransfer(f) \/ Grant(f)
             \/ GrowTransfer(f) \/ CloseTransfer(f) \/ RefuseFrame(f)
      PROVE  CanInv'
  BY <1>1, SkipInv, SingleInv, OpenInv, GrantInv, GrowInv, CloseInv, RefuseInv
<1>2. CASE EndOfCan
  BY <1>2, EndInv
<1>3. CASE UNCHANGED canVars
  <2>1. /\ canProtocol' = canProtocol /\ canCapture' = canCapture /\ canPending' = canPending
        /\ canDone' = canDone /\ canUnsupported' = canUnsupported /\ canVerdict' = canVerdict
    BY <1>3 DEF canVars
  <2>2. CanType' /\ OpenTransfers' /\ DoneTransfers'
    BY <2>1 DEF CanInv, CanType, OpenTransfers, DoneTransfers
  <2>3. OnePlace' /\ ConvertedIsClosed'
    BY <2>1 DEF CanInv, OnePlace, ConvertedIsClosed
  <2>4. QED
    BY <2>2, <2>3 DEF CanInv
<1>4. QED
  BY <1>1, <1>2, <1>3 DEF CanNext

(* Nothing is read, open or decoded at first. *)
LEMMA InitCanInv == CanInit => CanInv
<1> SUFFICES ASSUME CanInit PROVE CanInv
  OBVIOUS
<1>1. /\ canProtocol \in Protocols /\ canCapture = <<>> /\ DOMAIN canPending = {}
      /\ canDone = <<>> /\ canUnsupported = {} /\ canVerdict = "reading"
      /\ canPending \in [DOMAIN canPending -> Transfer]
  BY DEF CanInit
<1>2. CanType
  BY <1>1 DEF CanType
<1>3. OpenTransfers /\ DoneTransfers /\ OnePlace /\ ConvertedIsClosed
  BY <1>1 DEF OpenTransfers, DoneTransfers, OnePlace, ConvertedIsClosed
<1>4. QED
  BY <1>2, <1>3 DEF CanInv

(* A decoded transfer is whole, and its grants cover its packets. *)
LEMMA WholeAndCovered == CanInv => TransfersAreWhole /\ GrantsCoverData
<1> SUFFICES ASSUME CanInv PROVE TransfersAreWhole /\ GrantsCoverData
  OBVIOUS
<1>1. canProtocol \in Protocols /\ Len(canCapture) \in Nat
  BY LenProperties DEF CanInv, CanType
<1>2. ASSUME NEW t \in ToSet(canDone)
      PROVE  /\ Sent(t) = SentIn(canCapture, t.frames)
             /\ Last(t.frames) = t.frames[Len(t.frames)]
             /\ Rebuilt(canProtocol, canCapture, t)
  BY <1>2 DEF CanInv, DoneTransfers, Sent, SentIn, Last, ToSet
<1>3. TransfersAreWhole
  <2> SUFFICES ASSUME NEW t \in ToSet(canDone)
      PROVE
        LET between == {i \in t.frames[1]..Last(t.frames) :
                           canCapture[i].key = t.key /\ canCapture[i].kind # "single"}
        IN /\ Len(t.frames) > 1 => ToSet(t.frames) = between
           /\ canProtocol = "dronecan" =>
                 canCapture[Last(t.frames)].time - canCapture[t.frames[1]].time <= TransferTimeout
           /\ canProtocol \in {"bam", "rts"} /\ Sent(t)[1].kind # "single" =>
                 CountsOver(Sent(t), 1..Sent(t)[1].n)
           /\ canProtocol = "nmea" => CountsOver(Sent(t), 0..3)
    BY DEF TransfersAreWhole
  <2>1. QED
    BY <1>2 DEF Rebuilt, Gathered
<1>4. GrantsCoverData
  <2> SUFFICES ASSUME canProtocol = "rts", NEW t \in ToSet(canDone)
      PROVE  /\ Last(Sent(t)).kind = "ack"
             /\ FlowControlled(Sent(t))
             /\ Tile(t.grants, Sent(t)[1].n)
    BY DEF GrantsCoverData
  <2>1. Last(Sent(t)) = Sent(t)[Len(Sent(t))]
    BY DEF Last
  <2>2. QED
    BY <1>2, <2>1 DEF Rebuilt
<1>5. QED
  BY <1>3, <1>4

(* In a converted capture a frame on the list is in no decoded transfer, any other in one. *)
LEMMA AllAccounted == CanInv => EveryFrameIsAccounted
<1> SUFFICES ASSUME CanInv, canVerdict = "converted", NEW i \in DOMAIN canCapture
    PROVE  Cardinality({j \in DOMAIN canDone : i \in ToSet(canDone[j].frames)})
                = IF i \in canUnsupported THEN 0 ELSE 1
  BY DEF EveryFrameIsAccounted
<1>1. {j \in DOMAIN canDone : i \in ToSet(canDone[j].frames)} = InDone(canDone, i)
  BY DEF InDone
<1>2. InPending(canPending, i) = {}
  BY DEF CanInv, ConvertedIsClosed, InPending
<1>3. Placed(i \in canUnsupported, InDone(canDone, i), InPending(canPending, i))
  BY DEF CanInv, OnePlace
<1>4. CASE i \in canUnsupported
  <2>1. InDone(canDone, i) = {}
    BY <1>3, <1>4 DEF Placed
  <2>2. QED
    BY <1>1, <1>4, <2>1, FS_EmptySet
<1>5. CASE i \notin canUnsupported
  <2>1. \E j : InDone(canDone, i) = {j}
    BY <1>2, <1>3, <1>5 DEF Placed
  <2>2. QED
    BY <1>1, <1>5, <2>1, FS_Singleton
<1>6. QED
  BY <1>4, <1>5

(* Whatever frames a capture holds, in whatever order: a decoded transfer   *)
(* has every frame of its key between its first and its last and its        *)
(* packets without a hole, flow control was kept, and a converted capture   *)
(* has each frame in one transfer or on the list (convert, _bam_step,       *)
(* _RtsTransfer.step, convert_nmea2000_engine_dynamic).                     *)
THEOREM RebuiltTransfersAreSound == CanSpec => []TransfersAreSound
<1>1. CanInv => TransfersAreSound
  BY WholeAndCovered, AllAccounted DEF TransfersAreSound
<1>2. QED
  BY <1>1, InitCanInv, NextCanInv, PTL DEF CanSpec

-----------------------------------------------------------------------------
(* Sequence numbers of RTP sources. *)

(* The rows alone do not carry the argument: the memory of a source is      *)
(* bounded, so what it still knows must be tied to what the rows gave out.  *)
(* RtpInv says of every source that its memory ends in the numbers given    *)
(* out last, that its highest number is never pushed out of it, and that an *)
(* alarm stands for the last row of the source.                             *)
RtpKeys    == {p.key : p \in RtpPackets}
SeqNumbers == 0..(RtpSeqMod - 1)
Digests    == {p.digest : p \in RtpPackets}
Entry      == [extended : Nat, digest : Digests]

Source == [highest : {None} \cup SeqNumbers, cycles : Nat, epoch : Nat,
           bad : {None} \cup SeqNumbers, seen : Seq(Entry),
           tsCycles : Nat, highestTs : Int, firstTs : Int]

Orders == Repeats \cup {"first", "in_order", "reorder", "restart", "discontinuity_unknown"}
Times  == {"first", "same_timestamp", "forward", "backward", "discontinuity_unknown"}
RowSet == [packet : RtpPackets, order : Orders, extended : {None} \cup Nat, epoch : Nat,
           cycles : Nat, time : Times, ticks : Int, origin : Int]

(* The rows of the epoch a source is in, and the number its highest stands for. *)
Current(rows, k, s) == {i \in DOMAIN rows : rows[i].packet.key = k /\ rows[i].epoch = s.epoch}
Top(s)              == s.cycles + s.highest

(* A number given out as new is remembered, with only newer ones after it,  *)
(* or as many as the memory holds were given out since.                     *)
Remembered(rows, S, s, i) ==
    \/ Cardinality(GivenAfter(rows, S, i)) >= RecentSequences
    \/ \E q \in DOMAIN s.seen :
          /\ s.seen[q].extended = rows[i].extended
          /\ \A r \in DOMAIN s.seen : q < r => s.seen[r].extended \in GivenAfter(rows, S, i)

MemorySound(rows, k, s) ==
    LET S == Current(rows, k, s) IN
    /\ Len(s.seen) <= RecentSequences
    /\ \A q, r \in DOMAIN s.seen : s.seen[q].extended = s.seen[r].extended => q = r
    /\ \A q \in DOMAIN s.seen : \E i \in S : rows[i].extended = s.seen[q].extended
    /\ \A i \in S : rows[i].extended # None /\ rows[i].order \notin Repeats =>
          Remembered(rows, S, s, i)

(* The highest number is remembered: only late ones, in their window, came after it. *)
HighestSound(rows, k, s) ==
    LET S == Current(rows, k, s) IN
    /\ \E i \in S : rows[i].extended = Top(s)
    /\ \A i \in S : rows[i].extended <= Top(s)
    /\ \E q \in DOMAIN s.seen :
          /\ s.seen[q].extended = Top(s)
          /\ \A r \in DOMAIN s.seen : q < r =>
                s.seen[r].extended \in (Top(s) - MaxMisorder + 1)..(Top(s) - 1)

(* A restart waits for confirmation of the last row of the source. *)
BadSound(rows, k, s) ==
    s.bad # None =>
        \E i \in DOMAIN rows :
            /\ rows[i].packet.key = k /\ rows[i].epoch = s.epoch
            /\ \A n \in DOMAIN rows : n > i => rows[n].packet.key # k
            /\ rows[i].order = "discontinuity_unknown"
            /\ s.bad = (rows[i].packet.seq + 1) % RtpSeqMod

SourceSound(rows, k, s) ==
    IF s.highest = None
    THEN s = NewSource /\ \A i \in DOMAIN rows : rows[i].packet.key # k
    ELSE /\ \A i \in DOMAIN rows : rows[i].packet.key = k => rows[i].epoch <= s.epoch
         /\ MemorySound(rows, k, s) /\ HighestSound(rows, k, s) /\ BadSound(rows, k, s)

SourceOf(k) == IF k \in DOMAIN rtpSources THEN rtpSources[k] ELSE NewSource

RtpInv ==
    /\ rtpRows \in Seq(RowSet)
    /\ rtpSources \in [DOMAIN rtpSources -> Source]
    /\ \A k \in RtpKeys : SourceSound(rtpRows, k, SourceOf(k))
    /\ SequenceNumbersAreSound

(* What the next row of a source must satisfy, and its source afterwards. *)
RowSound(rows, j) ==
    /\ RestartIsConfirmed(rows, j)
    /\ ExtendedNumberIsIdentity(rows, j)
    /\ InOrderMovesForward(rows, j)
NextSound(rows, row, t) ==
    /\ t.highest # None
    /\ SourceSound(Append(rows, row), row.packet.key, t)
    /\ RowSound(Append(rows, row), Len(rows) + 1)

(* The numbers seen are the same, or a new one came and the oldest may have gone. *)
SameSeen(s, t) == /\ DOMAIN t.seen = DOMAIN s.seen
                  /\ \A q \in DOMAIN s.seen : t.seen[q].extended = s.seen[q].extended
NewSeen(s, t, e) ==
    /\ Known(s, e) = {}
    /\ \E d \in 0..1 :
          /\ Len(t.seen) = Len(s.seen) + 1 - d /\ Len(t.seen) <= RecentSequences
          /\ d = 1 => Len(s.seen) = RecentSequences
          /\ \A q \in 1..Len(t.seen) :
                t.seen[q].extended = IF q = Len(t.seen) THEN e ELSE s.seen[q + d].extended

(* The five fields that number the packets of a source. *)
SameNumbers(s, t) == /\ t.highest = s.highest /\ t.cycles = s.cycles
                     /\ t.epoch = s.epoch /\ t.bad = s.bad /\ t.seen = s.seen

(* One more row. *)
LEMMA RowGrown ==
    ASSUME NEW rows \in Seq(RowSet), NEW row \in RowSet
    PROVE  /\ Append(rows, row) \in Seq(RowSet)
           /\ Len(rows) \in Nat /\ DOMAIN rows = 1..Len(rows)
           /\ Len(Append(rows, row)) = Len(rows) + 1
           /\ DOMAIN Append(rows, row) = 1..(Len(rows) + 1)
           /\ Append(rows, row)[Len(rows) + 1] = row
           /\ \A i \in 1..Len(rows) : /\ Append(rows, row)[i] = rows[i]
                                      /\ rows[i] \in RowSet
<1>1. Len(rows) \in Nat /\ DOMAIN rows = 1..Len(rows)
  BY LenProperties
<1>2. \A i \in 1..Len(rows) : rows[i] \in RowSet
  BY ElementOfSeq
<1>3. QED
  BY <1>1, <1>2, AppendProperties

(* The rows of the current epoch of a source, with one more. *)
LEMMA CurrentGrown ==
    ASSUME NEW rows \in Seq(RowSet), NEW row \in RowSet, NEW s, row.epoch = s.epoch
    PROVE  LET S == Current(rows, row.packet.key, s) IN
           /\ S \subseteq 1..Len(rows)
           /\ Current(Append(rows, row), row.packet.key, s) = S \cup {Len(rows) + 1}
           /\ Mates(Append(rows, row), Len(rows) + 1) = S
<1> DEFINE z == Append(rows, row)
<1>1. /\ Len(rows) \in Nat /\ DOMAIN rows = 1..Len(rows) /\ DOMAIN z = 1..(Len(rows) + 1)
      /\ z[Len(rows) + 1] = row /\ \A i \in 1..Len(rows) : z[i] = rows[i]
  BY RowGrown
<1> HIDE DEF z
<1>2. Current(rows, row.packet.key, s) \subseteq 1..Len(rows)
  BY <1>1 DEF Current
<1>3. Current(z, row.packet.key, s) = Current(rows, row.packet.key, s) \cup {Len(rows) + 1}
  BY <1>1 DEF Current
<1>4. Mates(z, Len(rows) + 1) = Current(rows, row.packet.key, s)
  <2>1. (Len(rows) + 1) - 1 = Len(rows)
    BY <1>1
  <2>2. QED
    BY <1>1, <2>1 DEF Mates, Current
<1>5. QED
  BY <1>2, <1>3, <1>4 DEF z

(* A source that has no new row keeps its rows. *)
LEMMA CurrentStays ==
    ASSUME NEW rows \in Seq(RowSet), NEW row \in RowSet, NEW s, NEW k, row.packet.key # k
    PROVE  Current(Append(rows, row), k, s) = Current(rows, k, s)
<1> DEFINE z == Append(rows, row)
<1>1. /\ Len(rows) \in Nat /\ DOMAIN rows = 1..Len(rows) /\ DOMAIN z = 1..(Len(rows) + 1)
      /\ z[Len(rows) + 1] = row /\ \A i \in 1..Len(rows) : z[i] = rows[i]
  BY RowGrown
<1> HIDE DEF z
<1>2. Current(z, k, s) = Current(rows, k, s)
  BY <1>1 DEF Current
<1>3. QED
  BY <1>2 DEF z

(* A row that is not of S adds nothing to what S gave out. *)
LEMMA GivenStays ==
    ASSUME NEW rows \in Seq(RowSet), NEW row \in RowSet, NEW S \in SUBSET (1..Len(rows)), NEW i
    PROVE  GivenAfter(Append(rows, row), S, i) = GivenAfter(rows, S, i)
<1> DEFINE z == Append(rows, row)
<1>1. /\ Len(rows) \in Nat /\ \A n \in 1..Len(rows) : z[n] = rows[n]
  BY RowGrown
<1> HIDE DEF z
<1>2. GivenAfter(z, S, i) = GivenAfter(rows, S, i)
  BY <1>1 DEF GivenAfter
<1>3. QED
  BY <1>2 DEF z

(* What is given out after a row: a finite set of numbers, and the new one.  *)
LEMMA GivenGrown ==
    ASSUME NEW rows \in Seq(RowSet), NEW row \in RowSet, NEW S \in SUBSET (1..Len(rows)),
           NEW i \in 1..Len(rows)
    PROVE  /\ GivenAfter(Append(rows, row), S \cup {Len(rows) + 1}, i)
                = GivenAfter(rows, S, i)
                    \cup (IF row.order \in Repeats THEN {} ELSE {row.extended} \ {None})
           /\ GivenAfter(rows, S, i) \subseteq Nat
           /\ IsFiniteSet(GivenAfter(rows, S, i))
           /\ Cardinality(GivenAfter(rows, S, i)) \in Nat
<1> DEFINE z == Append(rows, row)
           N == {n \in S : n > i /\ rows[n].order \notin Repeats}
           f == [n \in N |-> rows[n].extended]
<1>1. /\ Len(rows) \in Nat /\ z[Len(rows) + 1] = row
      /\ \A n \in 1..Len(rows) : z[n] = rows[n] /\ rows[n] \in RowSet
  BY RowGrown
<1> HIDE DEF z
<1>2. GivenAfter(z, S \cup {Len(rows) + 1}, i)
        = GivenAfter(rows, S, i)
            \cup (IF row.order \in Repeats THEN {} ELSE {row.extended} \ {None})
  <2>1. Len(rows) + 1 > i /\ Len(rows) + 1 \notin S
    BY <1>1
  <2>2. {n \in S \cup {Len(rows) + 1} : n > i /\ z[n].order \notin Repeats}
          = N \cup (IF row.order \in Repeats THEN {} ELSE {Len(rows) + 1})
    BY <1>1, <2>1
  <2>3. \A n \in N : z[n].extended = rows[n].extended
    BY <1>1
  <2> HIDE DEF N
  <2>4. {z[n].extended : n \in N \cup (IF row.order \in Repeats THEN {} ELSE {Len(rows) + 1})}
          = {rows[n].extended : n \in N}
              \cup (IF row.order \in Repeats THEN {} ELSE {row.extended})
    BY <1>1, <2>3
  <2>5. GivenAfter(rows, S, i) = {rows[n].extended : n \in N} \ {None}
    BY DEF GivenAfter, N
  <2>6. GivenAfter(z, S \cup {Len(rows) + 1}, i)
          = {z[n].extended : n \in N \cup (IF row.order \in Repeats THEN {} ELSE {Len(rows) + 1})}
              \ {None}
    BY <2>2 DEF GivenAfter
  <2>7. QED
    BY <2>4, <2>5, <2>6
<1>3. GivenAfter(rows, S, i) \subseteq Nat
  BY <1>1 DEF GivenAfter, RowSet
<1>4. IsFiniteSet(GivenAfter(rows, S, i))
  <2>1. IsFiniteSet(N)
    <3>1. IsFiniteSet(1..Len(rows))
      BY <1>1, FS_Interval
    <3>2. N \in SUBSET (1..Len(rows))
      OBVIOUS
    <3> HIDE DEF N
    <3>3. QED
      BY <3>1, <3>2, FS_Subset
  <2>2. GivenAfter(rows, S, i) \subseteq {f[n] : n \in N}
    BY DEF GivenAfter
  <2>3. IsFiniteSet({f[n] : n \in N})
    <3> HIDE DEF N
    <3>1. f \in Surjection(N, {f[n] : n \in N})
      BY DEF Surjection
    <3> HIDE DEF f
    <3>2. QED
      BY <2>1, <3>1, FS_Surjection
  <2>4. QED
    BY <2>2, <2>3, FS_Subset
<1>5. QED
  BY <1>2, <1>3, <1>4, FS_CardinalityType DEF z

(* Distinct numbers of a finite set are no more than the set has.           *)
LEMMA DistinctNumbers ==
    ASSUME NEW m \in Nat, NEW f, NEW T, IsFiniteSet(T), \A q \in 1..m : f[q] \in T,
           \A q, r \in 1..m : f[q] = f[r] => q = r
    PROVE  m <= Cardinality(T)
<1> DEFINE g == [q \in 1..m |-> f[q]]
<1>1. IsFiniteSet(1..m) /\ Cardinality(1..m) = m
  BY FS_Interval
<1>2. g \in Injection(1..m, T)
  BY DEF Injection, IsInjective
<1> HIDE DEF g
<1>3. Cardinality(1..m) <= Cardinality(T)
  BY <1>2, FS_Injection
<1>4. QED
  BY <1>1, <1>3

(* A number remembered stays remembered when nothing is given out.          *)
LEMMA NothingNew ==
    ASSUME NEW rows \in Seq(RowSet), NEW row \in RowSet, NEW s \in Source, NEW t \in Source,
           s.highest # None, SourceSound(rows, row.packet.key, s),
           t.highest = s.highest, t.cycles = s.cycles, t.epoch = s.epoch, SameSeen(s, t),
           row.epoch = s.epoch, row.order \notin {"restart", "in_order"},
           \/ row.extended = None /\ row.order \notin Repeats
           \/ row.order \in Repeats /\ Known(s, row.extended) # {},
           BadSound(Append(rows, row), row.packet.key, t)
    PROVE  NextSound(rows, row, t)
<1> DEFINE z == Append(rows, row)
           L == Len(rows)
           k == row.packet.key
           S == Current(rows, k, s)
<1>1. /\ L \in Nat /\ DOMAIN rows = 1..L /\ DOMAIN z = 1..(L + 1) /\ z[L + 1] = row
      /\ \A i \in 1..L : z[i] = rows[i] /\ rows[i] \in RowSet
  BY RowGrown
<1>2. S \subseteq 1..L /\ Current(z, k, t) = S \cup {L + 1} /\ Mates(z, L + 1) = S
  <2>1. Current(z, k, t) = Current(z, k, s)
    BY DEF Current
  <2>2. QED
    BY <2>1, CurrentGrown
<1>3. \A i \in 1..L : GivenAfter(z, S \cup {L + 1}, i) = GivenAfter(rows, S, i)
  <2>1. (IF row.order \in Repeats THEN {} ELSE {row.extended} \ {None}) = {}
    OBVIOUS
  <2>2. TAKE i \in 1..L
  <2>3. GivenAfter(z, S \cup {L + 1}, i)
          = GivenAfter(rows, S, i)
              \cup (IF row.order \in Repeats THEN {} ELSE {row.extended} \ {None})
    BY <1>2, GivenGrown
  <2>4. QED
    BY <2>1, <2>3
<1>4. MemorySound(rows, k, s) /\ HighestSound(rows, k, s)
      /\ \A i \in DOMAIN rows : rows[i].packet.key = k => rows[i].epoch <= s.epoch
  BY DEF SourceSound
<1>5. /\ Len(s.seen) \in Nat /\ DOMAIN s.seen = 1..Len(s.seen)
      /\ t.seen \in Seq(Entry) /\ Len(t.seen) = Len(s.seen) /\ DOMAIN t.seen = DOMAIN s.seen
      /\ \A q \in DOMAIN s.seen : t.seen[q].extended = s.seen[q].extended
      /\ \A q \in DOMAIN s.seen : s.seen[q].extended \in Nat
  <2>1. s.seen \in Seq(Entry) /\ t.seen \in Seq(Entry)
    BY DEF Source
  <2>2. Len(s.seen) \in Nat /\ DOMAIN s.seen = 1..Len(s.seen)
        /\ Len(t.seen) \in Nat /\ DOMAIN t.seen = 1..Len(t.seen)
        /\ \A q \in DOMAIN s.seen : s.seen[q] \in Entry
    BY <2>1, LenProperties, ElementOfSeq
  <2>3. DOMAIN t.seen = DOMAIN s.seen
        /\ \A q \in DOMAIN s.seen : t.seen[q].extended = s.seen[q].extended
    BY DEF SameSeen
  <2>4. \A q \in DOMAIN s.seen : s.seen[q].extended \in Nat
    BY <2>2 DEF Entry
  <2>5. QED
    BY <2>1, <2>2, <2>3, <2>4
<1>6. Top(t) = Top(s) /\ Top(s) \in Nat
  <2>1. s.cycles \in Nat /\ s.highest \in Nat
    BY RtpWindows DEF Source, SeqNumbers
  <2>2. QED
    BY <2>1 DEF Top
<1> HIDE DEF z, L, k, S
<1>7. MemorySound(z, k, t)
  <2>1. /\ Len(s.seen) <= RecentSequences
        /\ \A q, r \in DOMAIN s.seen : s.seen[q].extended = s.seen[r].extended => q = r
        /\ \A q \in DOMAIN s.seen : \E i \in S : rows[i].extended = s.seen[q].extended
        /\ \A i \in S : rows[i].extended # None /\ rows[i].order \notin Repeats =>
              Remembered(rows, S, s, i)
    BY <1>4 DEF MemorySound, S
  <2>2. \A q \in DOMAIN t.seen : \E i \in S \cup {L + 1} : z[i].extended = t.seen[q].extended
    BY <1>1, <1>2, <1>5, <2>1
  <2>3. ASSUME NEW i \in S \cup {L + 1}, z[i].extended # None /\ z[i].order \notin Repeats
        PROVE  Remembered(z, S \cup {L + 1}, t, i)
    <3>1. i \in S /\ z[i] = rows[i]
      BY <1>1, <1>2, <2>3
    <3>2. Remembered(rows, S, s, i)
      BY <2>1, <2>3, <3>1
    <3>3. GivenAfter(z, S \cup {L + 1}, i) = GivenAfter(rows, S, i)
      BY <1>2, <1>3, <3>1
    <3>4. QED
      BY <1>5, <3>1, <3>2, <3>3 DEF Remembered
  <2>4. /\ Len(t.seen) <= RecentSequences
        /\ \A q, r \in DOMAIN t.seen : t.seen[q].extended = t.seen[r].extended => q = r
    BY <1>5, <2>1
  <2>5. QED
    BY <1>2, <2>2, <2>3, <2>4 DEF MemorySound
<1>8. HighestSound(z, k, t)
  <2>1. /\ \E i \in S : rows[i].extended = Top(s)
        /\ \A i \in S : rows[i].extended <= Top(s)
        /\ \E q \in DOMAIN s.seen :
              /\ s.seen[q].extended = Top(s)
              /\ \A r \in DOMAIN s.seen : q < r =>
                    s.seen[r].extended \in (Top(s) - MaxMisorder + 1)..(Top(s) - 1)
    BY <1>4 DEF HighestSound, S
  <2>2. row.extended <= Top(s)
    <3>1. CASE row.extended = None
      BY <1>6, <3>1 DEF None
    <3>2. CASE Known(s, row.extended) # {}
      <4>1. PICK q \in DOMAIN s.seen : s.seen[q].extended = row.extended
        BY <3>2 DEF Known
      <4>2. \E i \in S : rows[i].extended = s.seen[q].extended
        BY <1>4 DEF MemorySound, S
      <4>3. QED
        BY <2>1, <4>1, <4>2
    <3>3. QED
      BY <3>1, <3>2
  <2>3. /\ \E i \in S \cup {L + 1} : z[i].extended = Top(s)
        /\ \A i \in S \cup {L + 1} : z[i].extended <= Top(s)
    BY <1>1, <1>2, <2>1, <2>2
  <2>4. \E q \in DOMAIN t.seen :
            /\ t.seen[q].extended = Top(s)
            /\ \A r \in DOMAIN t.seen : q < r =>
                  t.seen[r].extended \in (Top(s) - MaxMisorder + 1)..(Top(s) - 1)
    BY <1>5, <2>1
  <2>5. QED
    BY <1>2, <1>6, <2>3, <2>4 DEF HighestSound
<1>9. \A i \in DOMAIN z : z[i].packet.key = k => z[i].epoch <= t.epoch
  <2>1. row.epoch <= t.epoch
    BY DEF RowSet
  <2>2. QED
    BY <1>1, <1>4, <2>1
<1>10. SourceSound(z, k, t)
  BY <1>7, <1>8, <1>9 DEF SourceSound, z, k
<1>11. RowSound(z, L + 1)
  <2>1. RestartIsConfirmed(z, L + 1) /\ InOrderMovesForward(z, L + 1)
    BY <1>1 DEF RestartIsConfirmed, InOrderMovesForward
  <2>2. ExtendedNumberIsIdentity(z, L + 1)
    <3>1. CASE row.extended = None
      BY <1>1, <3>1 DEF ExtendedNumberIsIdentity
    <3>2. CASE row.order \in Repeats /\ Known(s, row.extended) # {}
      <4>1. PICK q \in DOMAIN s.seen : s.seen[q].extended = row.extended
        BY <3>2 DEF Known
      <4>2. PICK i \in S : rows[i].extended = s.seen[q].extended
        BY <1>4 DEF MemorySound, S
      <4>3. i \in {n \in Mates(z, L + 1) : z[n].extended = z[L + 1].extended}
        BY <1>1, <1>2, <4>1, <4>2
      <4>4. QED
        BY <1>1, <3>2, <4>3 DEF ExtendedNumberIsIdentity
    <3>3. QED
      BY <3>1, <3>2
  <2>3. QED
    BY <2>1, <2>2 DEF RowSound
<1>12. QED
  BY <1>10, <1>11 DEF NextSound, z, L, k

(* A new number goes to the end of the memory; what it pushes out was given *)
(* out before as many others as the memory holds.                           *)
LEMMA NewNumber ==
    ASSUME NEW rows \in Seq(RowSet), NEW row \in RowSet, NEW s \in Source, NEW t \in Source,
           MemorySound(rows, row.packet.key, s), t.epoch = s.epoch, row.epoch = s.epoch,
           NewSeen(s, t, row.extended), row.extended \in Nat, row.order \notin Repeats
    PROVE  /\ MemorySound(Append(rows, row), row.packet.key, t)
           /\ ExtendedNumberIsIdentity(Append(rows, row), Len(rows) + 1)
<1> DEFINE z == Append(rows, row)
           L == Len(rows)
           k == row.packet.key
           e == row.extended
           S == Current(rows, k, s)
           S2 == S \cup {L + 1}
<1>1. /\ L \in Nat /\ DOMAIN rows = 1..L /\ DOMAIN z = 1..(L + 1) /\ z[L + 1] = row
      /\ \A i \in 1..L : z[i] = rows[i] /\ rows[i] \in RowSet
  BY RowGrown
<1>2. S \subseteq 1..L /\ Current(z, k, t) = S2 /\ Mates(z, L + 1) = S
  <2>1. Current(z, k, t) = Current(z, k, s)
    BY DEF Current
  <2>2. QED
    BY <2>1, CurrentGrown
<1>3. \A i \in 1..L : /\ GivenAfter(z, S2, i) = GivenAfter(rows, S, i) \cup {e}
                      /\ GivenAfter(z, S, i) = GivenAfter(rows, S, i)
                      /\ GivenAfter(rows, S, i) \subseteq Nat
                      /\ IsFiniteSet(GivenAfter(rows, S, i))
                      /\ Cardinality(GivenAfter(rows, S, i)) \in Nat
  <2>1. (IF row.order \in Repeats THEN {} ELSE {row.extended} \ {None}) = {e}
    BY DEF None
  <2>2. TAKE i \in 1..L
  <2>3. /\ GivenAfter(z, S2, i)
            = GivenAfter(rows, S, i)
                \cup (IF row.order \in Repeats THEN {} ELSE {row.extended} \ {None})
        /\ GivenAfter(rows, S, i) \subseteq Nat
        /\ IsFiniteSet(GivenAfter(rows, S, i))
        /\ Cardinality(GivenAfter(rows, S, i)) \in Nat
    BY <1>2, GivenGrown
  <2>4. GivenAfter(z, S, i) = GivenAfter(rows, S, i)
    BY <1>2, GivenStays
  <2>5. QED
    BY <2>1, <2>3, <2>4
<1>4. /\ Len(s.seen) \in Nat /\ DOMAIN s.seen = 1..Len(s.seen)
      /\ Len(t.seen) \in Nat /\ DOMAIN t.seen = 1..Len(t.seen)
  <2>1. s.seen \in Seq(Entry) /\ t.seen \in Seq(Entry)
    BY DEF Source
  <2>2. QED
    BY <2>1, LenProperties
<1>5. RecentSequences \in Nat \ {0}
  BY RtpWindows
<1>6. /\ Len(s.seen) <= RecentSequences
      /\ \A q, r \in DOMAIN s.seen : s.seen[q].extended = s.seen[r].extended => q = r
      /\ \A q \in DOMAIN s.seen : \E i \in S : rows[i].extended = s.seen[q].extended
      /\ \A i \in S : rows[i].extended # None /\ rows[i].order \notin Repeats =>
            Remembered(rows, S, s, i)
  BY DEF MemorySound
<1>7. Known(s, e) = {}
  BY DEF NewSeen
<1>8. PICK d \in 0..1 :
          /\ Len(t.seen) = Len(s.seen) + 1 - d /\ Len(t.seen) <= RecentSequences
          /\ d = 1 => Len(s.seen) = RecentSequences
          /\ \A q \in 1..Len(t.seen) :
                t.seen[q].extended = IF q = Len(t.seen) THEN e ELSE s.seen[q + d].extended
  BY DEF NewSeen
<1>9. \A q \in DOMAIN s.seen : s.seen[q].extended # e
  BY <1>7 DEF Known
<1> HIDE DEF z, L, k, S
<1>10. \A q \in DOMAIN t.seen : q # Len(t.seen) =>
          q + d \in DOMAIN s.seen /\ t.seen[q].extended = s.seen[q + d].extended
  <2> TAKE q \in DOMAIN t.seen
  <2> HAVE q # Len(t.seen)
  <2>1. q \in 1..Len(t.seen) /\ q \in Nat /\ q < Len(t.seen)
    BY <1>4
  <2>2. q + d \in 1..Len(s.seen)
    BY <1>4, <1>8, <2>1
  <2>3. QED
    BY <1>4, <1>8, <2>1, <2>2
<1>11. \A q, r \in DOMAIN t.seen : t.seen[q].extended = t.seen[r].extended => q = r
  <2> SUFFICES ASSUME NEW q \in DOMAIN t.seen, NEW r \in DOMAIN t.seen,
                      t.seen[q].extended = t.seen[r].extended
               PROVE  q = r
    OBVIOUS
  <2>1. CASE q = Len(t.seen) \/ r = Len(t.seen)
    BY <1>4, <1>8, <1>9, <1>10, <2>1
  <2>2. CASE q # Len(t.seen) /\ r # Len(t.seen)
    <3>1. q + d = r + d
      BY <1>6, <1>10, <2>2
    <3>2. QED
      BY <1>4, <3>1
  <2>3. QED
    BY <2>1, <2>2
<1>12. \A q \in DOMAIN t.seen : \E i \in S2 : z[i].extended = t.seen[q].extended
  <2> SUFFICES ASSUME NEW q \in DOMAIN t.seen
               PROVE  \E i \in S2 : z[i].extended = t.seen[q].extended
    OBVIOUS
  <2>1. CASE q = Len(t.seen)
    BY <1>1, <1>4, <1>8, <2>1
  <2>2. CASE q # Len(t.seen)
    <3>1. PICK i \in S : rows[i].extended = s.seen[q + d].extended
      BY <1>6, <1>10, <2>2
    <3>2. z[i].extended = t.seen[q].extended
      BY <1>1, <1>2, <1>10, <2>2, <3>1
    <3>3. QED
      BY <3>2
  <2>3. QED
    BY <2>1, <2>2
<1>13. ASSUME NEW i \in S2, z[i].extended # None, z[i].order \notin Repeats
       PROVE  Remembered(z, S2, t, i)
  <2>1. CASE i = L + 1
    <3>1. /\ Len(t.seen) \in DOMAIN t.seen /\ t.seen[Len(t.seen)].extended = z[i].extended
          /\ \A r \in DOMAIN t.seen : ~(Len(t.seen) < r)
      BY <1>1, <1>4, <1>8, <1>5, <2>1
    <3>2. QED
      BY <3>1 DEF Remembered
  <2>2. CASE i \in S
    <3> DEFINE G == GivenAfter(rows, S, i)
               G2 == GivenAfter(z, S2, i)
    <3>1. i \in 1..L /\ z[i] = rows[i]
      BY <1>1, <1>2, <2>2
    <3>2. G2 = G \cup {e} /\ IsFiniteSet(G) /\ Cardinality(G) \in Nat
      BY <1>3, <3>1
    <3> HIDE DEF G, G2
    <3>3. IsFiniteSet(G2) /\ Cardinality(G) <= Cardinality(G2) /\ Cardinality(G2) \in Nat
      <4>1. IsFiniteSet(G2)
        BY <3>2, FS_AddElement
      <4>2. G \in SUBSET G2
        BY <3>2
      <4>3. QED
        BY <4>1, <4>2, FS_Subset, FS_CardinalityType
    <3>4. Remembered(rows, S, s, i)
      BY <1>6, <1>13, <2>2, <3>1
    <3>5. CASE Cardinality(G) >= RecentSequences
      <4>1. Cardinality(G2) >= RecentSequences
        BY <1>5, <3>2, <3>3, <3>5
      <4>2. QED
        BY <4>1 DEF Remembered, G2
    <3>6. ASSUME NEW q \in DOMAIN s.seen, s.seen[q].extended = rows[i].extended,
                 \A r \in DOMAIN s.seen : q < r => s.seen[r].extended \in G
          PROVE  Remembered(z, S2, t, i)
      <4>1. CASE d < q
        <5>1. q - d \in DOMAIN t.seen /\ t.seen[q - d].extended = z[i].extended
          <6>1. q \in 1..Len(s.seen)
            BY <1>4
          <6>2. q - d \in 1..Len(t.seen) /\ q - d # Len(t.seen)
            BY <1>4, <1>8, <4>1, <6>1
          <6>3. (q - d) + d = q
            BY <6>1
          <6>4. QED
            BY <1>4, <1>10, <3>1, <3>6, <6>2, <6>3
        <5>2. ASSUME NEW r \in DOMAIN t.seen, q - d < r
              PROVE  t.seen[r].extended \in G2
          <6>1. CASE r = Len(t.seen)
            BY <1>4, <1>8, <3>2, <6>1
          <6>2. CASE r # Len(t.seen)
            <7>1. q < r + d
              BY <1>4, <5>2
            <7>2. QED
              BY <1>10, <3>2, <3>6, <6>2, <7>1
          <6>3. QED
            BY <6>1, <6>2
        <5>3. QED
          BY <5>1, <5>2 DEF Remembered, G2
      <4>2. CASE ~(d < q)
        <5>1. d = 1 /\ q = 1 /\ Len(t.seen) = RecentSequences
          BY <1>4, <1>8, <4>2
        <5>2. \A r \in 1..RecentSequences : t.seen[r].extended \in G2
          <6>1. TAKE r \in 1..RecentSequences
          <6>2. r \in DOMAIN t.seen
            BY <1>4, <5>1
          <6>3. CASE r = Len(t.seen)
            BY <1>8, <1>4, <3>2, <6>2, <6>3
          <6>4. CASE r # Len(t.seen)
            <7>1. q < r + d
              BY <5>1
            <7>2. QED
              BY <1>10, <3>2, <3>6, <6>2, <6>4, <7>1
          <6>5. QED
            BY <6>3, <6>4
        <5> DEFINE f == [r \in 1..RecentSequences |-> t.seen[r].extended]
        <5>3. \A r \in 1..RecentSequences : f[r] \in G2
          BY <5>2
        <5>4. \A q1, r \in 1..RecentSequences : f[q1] = f[r] => q1 = r
          BY <1>4, <1>11, <5>1
        <5> HIDE DEF f
        <5>5. RecentSequences <= Cardinality(G2)
          BY <1>5, <3>3, <5>3, <5>4, DistinctNumbers
        <5>6. QED
          BY <1>5, <3>3, <5>5 DEF Remembered, G2
      <4>3. QED
        BY <4>1, <4>2
    <3>7. QED
      BY <3>4, <3>5, <3>6 DEF Remembered, G
  <2>3. QED
    BY <2>1, <2>2
<1>14. MemorySound(z, k, t)
  BY <1>2, <1>8, <1>11, <1>12, <1>13 DEF MemorySound
<1>15. ExtendedNumberIsIdentity(z, L + 1)
  <2> SUFFICES ASSUME NEW i \in S, z[i].extended = z[L + 1].extended, z[i].order \notin Repeats
               PROVE  Cardinality(GivenAfter(z, S, i)) >= RecentSequences
    BY <1>1, <1>2 DEF ExtendedNumberIsIdentity
  <2>1. i \in 1..L /\ z[i] = rows[i] /\ rows[i].extended = e
    BY <1>1, <1>2
  <2>2. Remembered(rows, S, s, i)
    BY <1>6, <2>1 DEF None
  <2>3. \A q \in DOMAIN s.seen : s.seen[q].extended # rows[i].extended
    BY <1>9, <2>1
  <2>4. QED
    BY <1>3, <2>1, <2>2, <2>3 DEF Remembered
<1>16. QED
  BY <1>14, <1>15 DEF z, L, k

(* In order: the number goes past every other of the epoch, and is the highest.  *)
LEMMA ForwardSound ==
    ASSUME NEW rows \in Seq(RowSet), NEW row \in RowSet, NEW s \in Source, NEW t \in Source,
           s.highest # None, SourceSound(rows, row.packet.key, s),
           t.epoch = s.epoch, t.bad = None, t.highest # None, row.epoch = s.epoch,
           row.order = "in_order", row.extended \in Nat, Top(t) = row.extended,
           Top(s) \in Nat, Top(s) < row.extended, row.extended - Top(s) < MaxDropout,
           NewSeen(s, t, row.extended)
    PROVE  NextSound(rows, row, t)
<1> DEFINE z == Append(rows, row)
           L == Len(rows)
           k == row.packet.key
           e == row.extended
           S == Current(rows, k, s)
           S2 == S \cup {L + 1}
<1>1. /\ L \in Nat /\ DOMAIN rows = 1..L /\ DOMAIN z = 1..(L + 1) /\ z[L + 1] = row
      /\ \A i \in 1..L : z[i] = rows[i] /\ rows[i] \in RowSet
  BY RowGrown
<1>2. S \subseteq 1..L /\ Current(z, k, t) = S2 /\ Mates(z, L + 1) = S
  <2>1. Current(z, k, t) = Current(z, k, s)
    BY DEF Current
  <2>2. QED
    BY <2>1, CurrentGrown
<1>3. MemorySound(rows, k, s) /\ HighestSound(rows, k, s)
      /\ \A i \in DOMAIN rows : rows[i].packet.key = k => rows[i].epoch <= s.epoch
  BY DEF SourceSound
<1>4. MemorySound(z, k, t) /\ ExtendedNumberIsIdentity(z, L + 1)
  <2>1. row.order \notin Repeats
    BY DEF Repeats
  <2>2. QED
    BY <1>3, <2>1, NewNumber
<1>5. /\ \E i \in S : rows[i].extended = Top(s)
      /\ \A i \in S : rows[i].extended <= Top(s)
  BY <1>3 DEF HighestSound
<1>6. \A i \in S : z[i] = rows[i] /\ rows[i].extended \in {None} \cup Nat
  BY <1>1, <1>2 DEF RowSet
<1>7. Len(t.seen) \in Nat \ {0} /\ DOMAIN t.seen = 1..Len(t.seen)
      /\ t.seen[Len(t.seen)].extended = e
  <2>1. t.seen \in Seq(Entry) /\ s.seen \in Seq(Entry)
    BY DEF Source
  <2>2. Len(s.seen) \in Nat /\ Len(t.seen) \in Nat /\ DOMAIN t.seen = 1..Len(t.seen)
    BY <2>1, LenProperties
  <2>3. RecentSequences \in Nat \ {0}
    BY RtpWindows
  <2>4. QED
    BY <2>2, <2>3 DEF NewSeen
<1> HIDE DEF z, L, k, S
<1>8. HighestSound(z, k, t)
  <2>1. \A i \in S2 : z[i].extended <= e
    BY <1>1, <1>5, <1>6 DEF None
  <2>2. \E q \in DOMAIN t.seen :
            /\ t.seen[q].extended = e
            /\ \A r \in DOMAIN t.seen : ~(q < r)
    BY <1>7
  <2>3. QED
    BY <1>1, <1>2, <2>1, <2>2 DEF HighestSound
<1>9. \A i \in DOMAIN z : z[i].packet.key = k => z[i].epoch <= t.epoch
  <2>1. row.epoch <= t.epoch
    BY DEF RowSet
  <2>2. QED
    BY <1>1, <1>3, <2>1
<1>10. SourceSound(z, k, t)
  BY <1>4, <1>8, <1>9 DEF SourceSound, BadSound
<1>11. InOrderMovesForward(z, L + 1)
  <2>1. \A i \in S : z[i].extended < e
    BY <1>5, <1>6 DEF None
  <2>2. \E n \in S : z[n].extended = Top(s)
    BY <1>5, <1>6
  <2>3. QED
    BY <1>1, <1>2, <2>1, <2>2 DEF InOrderMovesForward, None
<1>12. RestartIsConfirmed(z, L + 1)
  BY <1>1 DEF RestartIsConfirmed
<1>13. QED
  BY <1>4, <1>10, <1>11, <1>12 DEF NextSound, RowSound, z, L, k

(* Late: the number lies in the window below the highest, and the window is  *)
(* too small to push the highest out of the memory.                          *)
LEMMA LateSound ==
    ASSUME NEW rows \in Seq(RowSet), NEW row \in RowSet, NEW s \in Source, NEW t \in Source,
           s.highest # None, SourceSound(rows, row.packet.key, s),
           t.epoch = s.epoch, t.bad = None, t.highest # None, row.epoch = s.epoch,
           Top(t) = Top(s), Top(s) \in Nat, row.order = "reorder", row.extended \in Nat,
           row.extended \in (Top(s) - MaxMisorder + 1)..(Top(s) - 1),
           NewSeen(s, t, row.extended)
    PROVE  NextSound(rows, row, t)
<1> DEFINE z == Append(rows, row)
           L == Len(rows)
           k == row.packet.key
           e == row.extended
           S == Current(rows, k, s)
           S2 == S \cup {L + 1}
           I == (Top(s) - MaxMisorder + 1)..(Top(s) - 1)
<1>1. /\ L \in Nat /\ DOMAIN rows = 1..L /\ DOMAIN z = 1..(L + 1) /\ z[L + 1] = row
      /\ \A i \in 1..L : z[i] = rows[i] /\ rows[i] \in RowSet
  BY RowGrown
<1>2. S \subseteq 1..L /\ Current(z, k, t) = S2 /\ Mates(z, L + 1) = S
  <2>1. Current(z, k, t) = Current(z, k, s)
    BY DEF Current
  <2>2. QED
    BY <2>1, CurrentGrown
<1>3. MemorySound(rows, k, s) /\ HighestSound(rows, k, s)
      /\ \A i \in DOMAIN rows : rows[i].packet.key = k => rows[i].epoch <= s.epoch
  BY DEF SourceSound
<1>4. MemorySound(z, k, t) /\ ExtendedNumberIsIdentity(z, L + 1)
  <2>1. row.order \notin Repeats
    BY DEF Repeats
  <2>2. QED
    BY <1>3, <2>1, NewNumber
<1>5. /\ \E i \in S : rows[i].extended = Top(s)
      /\ \A i \in S : rows[i].extended <= Top(s)
  BY <1>3 DEF HighestSound
<1>6. PICK q \in DOMAIN s.seen : /\ s.seen[q].extended = Top(s)
                                 /\ \A r \in DOMAIN s.seen : q < r => s.seen[r].extended \in I
  BY <1>3 DEF HighestSound
<1>7. \A i \in S : z[i] = rows[i]
  BY <1>1, <1>2
<1>8. /\ Len(s.seen) \in Nat /\ DOMAIN s.seen = 1..Len(s.seen)
      /\ Len(t.seen) \in Nat /\ DOMAIN t.seen = 1..Len(t.seen)
  <2>1. t.seen \in Seq(Entry) /\ s.seen \in Seq(Entry)
    BY DEF Source
  <2>2. QED
    BY <2>1, LenProperties
<1>9. PICK d \in 0..1 :
          /\ Len(t.seen) = Len(s.seen) + 1 - d /\ Len(t.seen) <= RecentSequences
          /\ d = 1 => Len(s.seen) = RecentSequences
          /\ \A r \in 1..Len(t.seen) :
                t.seen[r].extended = IF r = Len(t.seen) THEN e ELSE s.seen[r + d].extended
  BY DEF NewSeen
<1>10. RecentSequences \in Nat \ {0} /\ MaxMisorder \in Nat \ {0}
       /\ MaxMisorder <= RecentSequences
  BY RtpWindows
<1>11. e \in I
  OBVIOUS
<1> HIDE DEF z, L, k, S, I
<1>12. \A r \in DOMAIN t.seen : q < r + d => t.seen[r].extended \in I
  <2> TAKE r \in DOMAIN t.seen
  <2> HAVE q < r + d
  <2>1. CASE r = Len(t.seen)
    BY <1>8, <1>9, <1>11, <2>1
  <2>2. CASE r # Len(t.seen)
    <3>1. r \in Nat /\ r < Len(t.seen)
      BY <1>8, <2>2
    <3>2. r + d \in 1..Len(s.seen)
      BY <1>8, <1>9, <3>1
    <3>3. QED
      BY <1>6, <1>8, <1>9, <2>2, <3>2
  <2>3. QED
    BY <2>1, <2>2
<1>13. d < q
  <2> SUFFICES ASSUME ~(d < q) PROVE FALSE
    OBVIOUS
  <2>1. d = 1 /\ q = 1 /\ Len(t.seen) = RecentSequences
    BY <1>8, <1>9
  <2> DEFINE f == [r \in 1..RecentSequences |-> t.seen[r].extended]
  <2>2. \A r \in 1..RecentSequences : f[r] \in I
    <3>1. TAKE r \in 1..RecentSequences
    <3>2. q < r + d /\ r \in DOMAIN t.seen
      BY <1>8, <2>1
    <3>3. QED
      BY <1>12, <3>2
  <2>3. \A q1, r \in DOMAIN t.seen : t.seen[q1].extended = t.seen[r].extended => q1 = r
    BY <1>4 DEF MemorySound
  <2>4. \A q1, r \in 1..RecentSequences : f[q1] = f[r] => q1 = r
    BY <1>8, <2>1, <2>3
  <2>5. IsFiniteSet(I) /\ Cardinality(I) < RecentSequences /\ Cardinality(I) \in Nat
    <3>1. Top(s) - MaxMisorder + 1 \in Int /\ Top(s) - 1 \in Int
      BY <1>10
    <3>2. IsFiniteSet(I)
          /\ Cardinality(I) = IF Top(s) - MaxMisorder + 1 > Top(s) - 1 THEN 0
                              ELSE (Top(s) - 1) - (Top(s) - MaxMisorder + 1) + 1
      BY <3>1, FS_Interval DEF I
    <3>3. QED
      BY <1>10, <3>2
  <2> HIDE DEF f
  <2>6. RecentSequences <= Cardinality(I)
    BY <1>10, <2>2, <2>4, <2>5, DistinctNumbers
  <2>7. QED
    BY <1>10, <2>5, <2>6
<1>14. HighestSound(z, k, t)
  <2>1. \A i \in S2 : z[i].extended <= Top(t)
    BY <1>1, <1>5, <1>7, <1>10
  <2>2. \E i \in S2 : z[i].extended = Top(t)
    BY <1>5, <1>7
  <2>3. q - d \in DOMAIN t.seen /\ t.seen[q - d].extended = Top(t)
    <3>1. q \in 1..Len(s.seen)
      BY <1>8
    <3>2. q - d \in 1..Len(t.seen) /\ q - d # Len(t.seen) /\ (q - d) + d = q
      BY <1>8, <1>9, <1>13, <3>1
    <3>3. QED
      BY <1>6, <1>8, <1>9, <3>2
  <2>4. \A r \in DOMAIN t.seen : q - d < r => t.seen[r].extended \in I
    <3>1. \A r \in DOMAIN t.seen : q - d < r => q < r + d
      BY <1>8
    <3>2. QED
      BY <1>12, <3>1
  <2>5. \E p \in DOMAIN t.seen :
            /\ t.seen[p].extended = Top(t)
            /\ \A r \in DOMAIN t.seen : p < r =>
                  t.seen[r].extended \in (Top(t) - MaxMisorder + 1)..(Top(t) - 1)
    BY <2>3, <2>4 DEF I
  <2>6. QED
    BY <1>2, <2>1, <2>2, <2>5 DEF HighestSound
<1>15. \A i \in DOMAIN z : z[i].packet.key = k => z[i].epoch <= t.epoch
  <2>1. row.epoch <= t.epoch
    BY DEF RowSet
  <2>2. QED
    BY <1>1, <1>3, <2>1
<1>16. SourceSound(z, k, t)
  BY <1>4, <1>14, <1>15 DEF SourceSound, BadSound
<1>17. RestartIsConfirmed(z, L + 1) /\ InOrderMovesForward(z, L + 1)
  BY <1>1 DEF RestartIsConfirmed, InOrderMovesForward
<1>18. QED
  BY <1>4, <1>16, <1>17 DEF NextSound, RowSound, z, L, k

(* The first row of an epoch: its number is the only one remembered.          *)
LEMMA EpochSound ==
    ASSUME NEW rows \in Seq(RowSet), NEW row \in RowSet, NEW t \in Source,
           \A i \in DOMAIN rows : rows[i].packet.key = row.packet.key => rows[i].epoch < t.epoch,
           row.order \in {"first", "restart"}, row.extended \in Nat, row.epoch = t.epoch,
           t.bad = None, t.highest # None, Top(t) = row.extended,
           Len(t.seen) = 1, t.seen[1].extended = row.extended,
           RestartIsConfirmed(Append(rows, row), Len(rows) + 1)
    PROVE  NextSound(rows, row, t)
<1> DEFINE z == Append(rows, row)
           L == Len(rows)
           k == row.packet.key
<1>1. /\ L \in Nat /\ DOMAIN rows = 1..L /\ DOMAIN z = 1..(L + 1) /\ z[L + 1] = row
      /\ \A i \in 1..L : z[i] = rows[i] /\ rows[i] \in RowSet
  BY RowGrown
<1>2. t.epoch \in Nat /\ \A i \in DOMAIN rows : rows[i].epoch \in Nat
  BY <1>1 DEF RowSet, Source
<1>3. Current(z, k, t) = {L + 1} /\ Mates(z, L + 1) = {}
  <2>1. Current(rows, k, t) = {}
    BY <1>2 DEF Current
  <2>2. /\ Current(z, k, t) = Current(rows, k, t) \cup {L + 1}
        /\ Mates(z, L + 1) = Current(rows, k, t)
    BY CurrentGrown
  <2>3. QED
    BY <2>1, <2>2
<1>4. DOMAIN t.seen = {1}
  <2>1. t.seen \in Seq(Entry)
    BY DEF Source
  <2>2. DOMAIN t.seen = 1..1
    BY <2>1, LenProperties
  <2>3. QED
    BY <2>2
<1>5. RecentSequences \in Nat \ {0} /\ row.order \notin Repeats /\ row.order # "in_order"
  BY RtpWindows DEF Repeats
<1> HIDE DEF z, L, k
<1>6. MemorySound(z, k, t)
  <2>1. Remembered(z, {L + 1}, t, L + 1)
    BY <1>1, <1>4 DEF Remembered
  <2>2. QED
    BY <1>1, <1>3, <1>4, <1>5, <2>1 DEF MemorySound
<1>7. HighestSound(z, k, t)
  BY <1>1, <1>3, <1>4 DEF HighestSound
<1>8. \A i \in DOMAIN z : z[i].packet.key = k => z[i].epoch <= t.epoch
  <2>1. \A i \in DOMAIN rows : rows[i].packet.key = k => rows[i].epoch <= t.epoch
    BY <1>2 DEF k
  <2>2. row.epoch <= t.epoch
    BY DEF RowSet
  <2>3. QED
    BY <1>1, <2>1, <2>2
<1>9. SourceSound(z, k, t)
  BY <1>6, <1>7, <1>8 DEF SourceSound, BadSound
<1>10. ExtendedNumberIsIdentity(z, L + 1) /\ InOrderMovesForward(z, L + 1)
  BY <1>1, <1>3, <1>5 DEF ExtendedNumberIsIdentity, InOrderMovesForward
<1>11. QED
  BY <1>9, <1>10 DEF NextSound, RowSound, z, L, k

(* What remembering does to the numbers seen. *)
LEMMA RememberFields ==
    ASSUME NEW s \in Source, NEW e \in Nat, NEW digest \in Digests,
           Len(s.seen) <= RecentSequences
    PROVE  LET t == Remember(s, e, digest) IN
           /\ t \in Source /\ t.highest = s.highest /\ t.cycles = s.cycles
           /\ t.epoch = s.epoch /\ t.bad = s.bad
           /\ Known(s, e) # {} => SameSeen(s, t)
           /\ Known(s, e) = {} => NewSeen(s, t, e)
           /\ s.seen = <<>> => Len(t.seen) = 1 /\ t.seen[1].extended = e
<1> DEFINE entry == [extended |-> e, digest |-> digest]
           kept  == [i \in DOMAIN s.seen |-> IF i \in Known(s, e) THEN entry ELSE s.seen[i]]
           grown == Append(s.seen, entry)
           cut   == IF Len(grown) > RecentSequences THEN Tail(grown) ELSE grown
           t     == Remember(s, e, digest)
<1>1. entry \in Entry
  BY DEF Entry
<1>2. s.seen \in Seq(Entry) /\ Len(s.seen) \in Nat /\ DOMAIN s.seen = 1..Len(s.seen)
      /\ \A q \in DOMAIN s.seen : s.seen[q] \in Entry
  <2>1. s.seen \in Seq(Entry)
    BY DEF Source
  <2>2. QED
    BY <2>1, LenProperties, ElementOfSeq
<1>3. kept \in Seq(Entry)
  <2>1. \A i \in 1..Len(s.seen) : (IF i \in Known(s, e) THEN entry ELSE s.seen[i]) \in Entry
    BY <1>1, <1>2
  <2> HIDE DEF entry
  <2>2. kept \in [1..Len(s.seen) -> Entry]
    BY <1>2, <2>1
  <2> HIDE DEF kept
  <2>3. QED
    BY <1>2, <2>2, SeqDef
<1>4. /\ grown \in Seq(Entry) /\ Len(grown) = Len(s.seen) + 1
      /\ \A q \in 1..Len(s.seen) : grown[q] = s.seen[q]
      /\ grown[Len(s.seen) + 1] = entry
  <2> HIDE DEF entry
  <2>1. QED
    BY <1>1, <1>2, AppendProperties
<1> HIDE DEF grown
<1>5. \E d \in 0..1 :
          /\ Len(cut) = Len(s.seen) + 1 - d /\ Len(cut) <= RecentSequences
          /\ d = 1 => Len(s.seen) = RecentSequences
          /\ \A q \in 1..Len(cut) : cut[q] = grown[q + d]
          /\ cut \in Seq(Entry)
  <2>1. CASE Len(grown) > RecentSequences
    <3>1. Len(s.seen) = RecentSequences
      BY <1>2, <1>4, <2>1, RtpWindows
    <3>2. grown # <<>>
      BY <1>2, <1>4
    <3>3. /\ Tail(grown) \in Seq(Entry) /\ Len(Tail(grown)) = Len(grown) - 1
          /\ \A q \in 1..Len(Tail(grown)) : Tail(grown)[q] = grown[q + 1]
      BY <1>4, <3>2, HeadTailProperties
    <3>4. cut = Tail(grown)
      BY <2>1
    <3> HIDE DEF cut
    <3>5. Len(cut) = Len(s.seen) + 1 - 1 /\ Len(cut) <= RecentSequences
      BY <1>2, <1>4, <3>1, <3>3, <3>4
    <3>6. QED
      BY <3>1, <3>3, <3>4, <3>5
  <2>2. CASE ~(Len(grown) > RecentSequences)
    <3>1. cut = grown
      BY <2>2
    <3> HIDE DEF cut
    <3>2. Len(cut) = Len(s.seen) + 1 - 0 /\ Len(cut) <= RecentSequences
      BY <1>2, <1>4, <2>2, <3>1, RtpWindows
    <3>3. \A q \in 1..Len(cut) : cut[q] = grown[q + 0]
      BY <1>2, <3>1, <3>2
    <3>4. QED
      BY <1>4, <3>1, <3>2, <3>3
  <2>3. QED
    BY <2>1, <2>2
<1>6. t = IF Known(s, e) # {} THEN [s EXCEPT !.seen = kept] ELSE [s EXCEPT !.seen = cut]
  BY DEF Remember, grown
<1> HIDE DEF kept, cut
<1>7. /\ t \in Source /\ t.highest = s.highest /\ t.cycles = s.cycles
      /\ t.epoch = s.epoch /\ t.bad = s.bad
      /\ t.seen = IF Known(s, e) # {} THEN kept ELSE cut
  <2> HIDE DEF t
  <2>1. QED
    BY <1>3, <1>5, <1>6 DEF Source
<1>8. Known(s, e) # {} => SameSeen(s, t)
  <2> HAVE Known(s, e) # {}
  <2>1. DOMAIN kept = DOMAIN s.seen
        /\ \A q \in DOMAIN s.seen : kept[q] = IF q \in Known(s, e) THEN entry ELSE s.seen[q]
    BY DEF kept
  <2>2. \A q \in DOMAIN s.seen : kept[q].extended = s.seen[q].extended
    BY <2>1 DEF Known
  <2>3. QED
    BY <1>7, <2>1, <2>2 DEF SameSeen
<1>9. Known(s, e) = {} => NewSeen(s, t, e)
  <2> HAVE Known(s, e) = {}
  <2>1. t.seen = cut
    BY <1>7
  <2>2. PICK d \in 0..1 :
          /\ Len(cut) = Len(s.seen) + 1 - d /\ Len(cut) <= RecentSequences
          /\ d = 1 => Len(s.seen) = RecentSequences
          /\ \A q \in 1..Len(cut) : cut[q] = grown[q + d]
    BY <1>5
  <2> HIDE DEF t
  <2>3. ASSUME NEW q \in 1..Len(t.seen)
        PROVE  t.seen[q].extended = IF q = Len(t.seen) THEN e ELSE s.seen[q + d].extended
    <3>1. t.seen[q] = grown[q + d]
      BY <2>1, <2>2
    <3>2. CASE q = Len(t.seen)
      <4>1. q + d = Len(s.seen) + 1
        BY <1>2, <2>1, <2>2, <3>2
      <4>2. QED
        BY <1>4, <3>1, <3>2, <4>1
    <3>3. CASE q # Len(t.seen)
      <4>1. q + d \in 1..Len(s.seen)
        BY <1>2, <2>1, <2>2, <3>3
      <4>2. QED
        BY <1>4, <3>1, <3>3, <4>1
    <3>4. QED
      BY <3>2, <3>3
  <2>4. QED
    BY <2>1, <2>2, <2>3 DEF NewSeen
<1>10. s.seen = <<>> => Len(t.seen) = 1 /\ t.seen[1].extended = e
  <2> HAVE s.seen = <<>>
  <2>1. Len(s.seen) = 0 /\ Known(s, e) = {}
    BY <1>2, EmptySeq DEF Known
  <2>2. NewSeen(s, t, e)
    BY <1>9, <2>1
  <2> HIDE DEF t
  <2>3. PICK d \in 0..1 :
          /\ Len(t.seen) = Len(s.seen) + 1 - d /\ Len(t.seen) <= RecentSequences
          /\ d = 1 => Len(s.seen) = RecentSequences
          /\ \A q \in 1..Len(t.seen) :
                t.seen[q].extended = IF q = Len(t.seen) THEN e ELSE s.seen[q + d].extended
    BY <2>2 DEF NewSeen
  <2>4. Len(t.seen) = 1
    BY <2>1, <2>3, RtpWindows
  <2>5. 1 \in 1..Len(t.seen) /\ 1 = Len(t.seen)
    BY <2>4
  <2>6. QED
    BY <2>3, <2>5
<1>11. QED
  BY <1>7, <1>8, <1>9, <1>10

(* What one raw number may be, with the number it stands for.               *)
LEMMA ResolveMeaning ==
    ASSUME NEW s \in Source, s.highest # None, NEW seq \in SeqNumbers
    PROVE  LET r == Resolve(s, seq)
               t == s.cycles + (IF seq < s.highest THEN RtpSeqMod ELSE 0) IN
           /\ Top(s) \in Nat
           /\ \/ r.kind = "repeat_of_highest" /\ r.extended = Top(s)
              \/ /\ r.kind = "forward" /\ r.extended = t + seq /\ t \in Nat
                 /\ r.extended \in Nat /\ Top(s) < r.extended
                 /\ r.extended - Top(s) < MaxDropout
              \/ r.kind = "late" /\ r.extended = None
              \/ /\ r.kind = "late" /\ r.extended \in Nat
                 /\ r.extended \in (Top(s) - MaxMisorder + 1)..(Top(s) - 1)
              \/ r.kind = "unknown" /\ r.extended = None
<1> DEFINE delta == (seq - s.highest) % RtpSeqMod
           late  == s.cycles - (IF seq > s.highest THEN RtpSeqMod ELSE 0) + seq
           t     == s.cycles + (IF seq < s.highest THEN RtpSeqMod ELSE 0)
           r     == Resolve(s, seq)
<1>1. /\ s.highest \in 0..(RtpSeqMod - 1) /\ s.cycles \in Nat /\ Top(s) = s.cycles + s.highest
      /\ RtpSeqMod \in Nat \ {0} /\ MaxDropout \in Nat \ {0} /\ MaxMisorder \in Nat \ {0}
      /\ seq \in 0..(RtpSeqMod - 1) /\ MaxDropout + MaxMisorder <= RtpSeqMod
  BY RtpWindows DEF Source, SeqNumbers, Top
<1>2. delta = IF seq >= s.highest THEN seq - s.highest ELSE (seq - s.highest) + RtpSeqMod
  BY <1>1
<1>3. delta \in 0..(RtpSeqMod - 1)
  BY <1>1, <1>2
<1>4. r = CASE delta = 0 -> [kind |-> "repeat_of_highest", extended |-> s.cycles + s.highest]
            [] delta \in 1..(MaxDropout - 1) -> [kind |-> "forward", extended |-> t + seq]
            [] delta >= MaxDropout /\ delta > RtpSeqMod - MaxMisorder ->
                 [kind |-> "late", extended |-> IF late < 0 THEN None ELSE late]
            [] OTHER -> [kind |-> "unknown", extended |-> None]
  BY DEF Resolve
<1> HIDE DEF delta, r
<1>5. Top(s) \in Nat
  BY <1>1
<1>6. CASE delta = 0
  <2>1. r = [kind |-> "repeat_of_highest", extended |-> s.cycles + s.highest]
    <3>1. delta \notin 1..(MaxDropout - 1) /\ ~(delta >= MaxDropout)
      BY <1>1, <1>6
    <3>2. QED
      BY <1>4, <1>6, <3>1
  <2>2. QED
    BY <1>1, <1>5, <2>1 DEF r
<1>7. CASE delta \in 1..(MaxDropout - 1)
  <2>1. r = [kind |-> "forward", extended |-> t + seq]
    <3>1. delta # 0 /\ ~(delta >= MaxDropout)
      BY <1>1, <1>7
    <3>2. QED
      BY <1>4, <1>7, <3>1
  <2>2. t \in Nat /\ t + seq = Top(s) + delta
    BY <1>1, <1>2
  <2>3. Top(s) < t + seq /\ (t + seq) - Top(s) < MaxDropout /\ t + seq \in Nat
    BY <1>1, <1>5, <1>7, <2>2
  <2>4. r.kind = "forward" /\ r.extended = t + seq
    BY <2>1
  <2>5. QED
    BY <1>5, <2>2, <2>3, <2>4 DEF r
<1>8. CASE delta >= MaxDropout /\ delta > RtpSeqMod - MaxMisorder
  <2>1. r = [kind |-> "late", extended |-> IF late < 0 THEN None ELSE late]
    <3>1. delta # 0 /\ delta \notin 1..(MaxDropout - 1)
      BY <1>1, <1>3, <1>8
    <3>2. QED
      BY <1>4, <1>8, <3>1
  <2>2. late = Top(s) - (RtpSeqMod - delta) /\ late \in Int
    <3>1. seq # s.highest
      BY <1>1, <1>2, <1>8
    <3>2. QED
      BY <1>1, <1>2, <1>3, <3>1
  <2>3. late \in (Top(s) - MaxMisorder + 1)..(Top(s) - 1)
    BY <1>1, <1>3, <1>5, <1>8, <2>2
  <2> HIDE DEF late
  <2>4. CASE late < 0
    BY <1>5, <2>1, <2>4 DEF r
  <2>5. CASE ~(late < 0)
    <3>1. late \in Nat
      BY <2>2, <2>5
    <3>2. r.kind = "late" /\ r.extended = late
      BY <2>1, <2>5
    <3>3. QED
      BY <1>5, <2>3, <3>1, <3>2 DEF r
  <2>6. QED
    BY <2>4, <2>5
<1>9. CASE /\ delta # 0 /\ delta \notin 1..(MaxDropout - 1)
           /\ ~(delta >= MaxDropout /\ delta > RtpSeqMod - MaxMisorder)
  <2>1. r = [kind |-> "unknown", extended |-> None]
    BY <1>4, <1>9
  <2>2. QED
    BY <1>5, <2>1 DEF r
<1>10. QED
  BY <1>6, <1>7, <1>8, <1>9

(* What one arrival may be. *)
SameSpan(s, u) == u.highest = s.highest /\ u.cycles = s.cycles /\ u.epoch = s.epoch
StartsEpoch(u, seq) ==
    /\ u.highest = seq /\ u.cycles = 0 /\ u.bad = None
    /\ Len(u.seen) = 1 /\ u.seen[1].extended = seq
Arrival(s, p, state, extended, u) ==
    \/ /\ s.highest = None /\ state = "first" /\ extended = p.seq
       /\ StartsEpoch(u, p.seq) /\ u.epoch = 0
    \/ /\ s.highest # None /\ state \in Repeats /\ extended \in Nat /\ Known(s, extended) # {}
       /\ SameSpan(s, u) /\ SameSeen(s, u) /\ u.bad = None
    \/ /\ s.highest # None /\ state = "in_order" /\ extended \in Nat
       /\ Top(u) = extended /\ u.highest # None /\ u.epoch = s.epoch /\ u.bad = None
       /\ Top(s) \in Nat /\ Top(s) < extended /\ extended - Top(s) < MaxDropout
       /\ NewSeen(s, u, extended)
    \/ /\ s.highest # None /\ state = "reorder" /\ extended = None
       /\ SameSpan(s, u) /\ SameSeen(s, u) /\ u.bad = None
    \/ /\ s.highest # None /\ state = "reorder" /\ extended \in Nat
       /\ SameSpan(s, u) /\ u.bad = None /\ NewSeen(s, u, extended)
       /\ Top(s) \in Nat /\ extended \in (Top(s) - MaxMisorder + 1)..(Top(s) - 1)
    \/ /\ s.highest # None /\ s.bad = p.seq /\ state = "restart" /\ extended = p.seq
       /\ StartsEpoch(u, p.seq) /\ u.epoch = s.epoch + 1
    \/ /\ s.highest # None /\ state = "discontinuity_unknown" /\ extended = None
       /\ SameSpan(s, u) /\ SameSeen(s, u) /\ u.bad = (p.seq + 1) % RtpSeqMod

(* A source that only changed its state of alarm remembers the same.          *)
LEMMA RememberCalm ==
    ASSUME NEW s \in Source, NEW c \in Source, c.seen = s.seen, NEW e \in Nat,
           NEW digest \in Digests, Len(s.seen) <= RecentSequences
    PROVE  LET u == Remember(c, e, digest) IN
           /\ u \in Source /\ u.highest = c.highest /\ u.cycles = c.cycles
           /\ u.epoch = c.epoch /\ u.bad = c.bad
           /\ Known(s, e) # {} => SameSeen(s, u)
           /\ Known(s, e) = {} => NewSeen(s, u, e)
<1> DEFINE u == Remember(c, e, digest)
<1>1. /\ u \in Source /\ u.highest = c.highest /\ u.cycles = c.cycles
      /\ u.epoch = c.epoch /\ u.bad = c.bad
      /\ Known(c, e) # {} => SameSeen(c, u)
      /\ Known(c, e) = {} => NewSeen(c, u, e)
  BY RememberFields
<1> HIDE DEF u
<1>2. Known(c, e) = Known(s, e)
  BY DEF Known
<1>3. SameSeen(c, u) => SameSeen(s, u)
  BY DEF SameSeen
<1>4. Known(s, e) = {} => NewSeen(s, u, e)
  BY <1>1, <1>2 DEF NewSeen
<1>5. QED
  BY <1>1, <1>2, <1>3, <1>4 DEF u

(* The source is still one after any arrival, and its numbers go on as the   *)
(* windows of RFC 3550 say.                                                 *)
LEMMA OrderMeaning ==
    ASSUME NEW rows \in Seq(RowSet), NEW s \in Source, NEW p \in RtpPackets,
           SourceSound(rows, p.key, s)
    PROVE  LET o == Order(s, p.seq, p.digest) IN
           /\ o.source \in Source
           /\ Arrival(s, p, o.state, o.extended, o.source)
<1> DEFINE seq    == p.seq
           o      == Order(s, seq, p.digest)
           r      == Resolve(s, seq)
           repeat == Repeat(s, r.extended, p.digest)
           calm   == [s EXCEPT !.bad = None]
           high   == [s EXCEPT !.highest = seq]
           span   == s.cycles + (IF seq < s.highest THEN RtpSeqMod ELSE 0)
           moved  == [calm EXCEPT !.highest = seq, !.cycles = span]
           afresh == Restarted(s, seq)
<1>1. seq \in SeqNumbers /\ seq \in Nat /\ p.digest \in Digests /\ RtpSeqMod \in Nat \ {0}
  BY RtpWindows DEF SeqNumbers, Digests
<1>2. s.seen \in Seq(Entry) /\ Len(s.seen) \in Nat /\ DOMAIN s.seen = 1..Len(s.seen)
      /\ s.cycles \in Nat /\ s.epoch \in Nat
  <2>1. s.seen \in Seq(Entry) /\ s.cycles \in Nat /\ s.epoch \in Nat
    BY DEF Source
  <2>2. QED
    BY <2>1, LenProperties
<1>3. RecentSequences \in Nat \ {0}
  BY RtpWindows
<1>4. Len(s.seen) <= RecentSequences
  <2>1. CASE s.highest = None
    <3>1. s.seen = <<>>
      BY <2>1 DEF SourceSound, NewSource
    <3>2. QED
      BY <1>3, <3>1, EmptySeq
  <2>2. CASE s.highest # None
    BY <2>2 DEF SourceSound, MemorySound
  <2>3. QED
    BY <2>1, <2>2
<1>5. Known(s, None) = {}
  <2>1. \A q \in DOMAIN s.seen : s.seen[q] \in Entry
    BY <1>2, ElementOfSeq
  <2>2. QED
    BY <2>1 DEF Known, Entry, None
<1>6. repeat \in Repeats \cup {"none"} /\ (repeat = "none" <=> Known(s, r.extended) = {})
  BY DEF Repeat, Repeats
<1>7. calm \in Source /\ SameSpan(s, calm) /\ calm.seen = s.seen /\ calm.bad = None
  BY DEF Source, SameSpan
<1>8. o = CASE s.highest = None ->
                 Ordered("first", s.cycles + seq, Remember(high, s.cycles + seq, p.digest))
            [] s.highest # None /\ r.extended # None /\ repeat # "none" ->
                 Ordered(repeat, r.extended, Remember(calm, r.extended, p.digest))
            [] s.highest # None /\ repeat = "none" /\ r.kind = "repeat_of_highest" ->
                 Ordered("duplicate", r.extended, Remember(calm, r.extended, p.digest))
            [] s.highest # None /\ repeat = "none" /\ r.kind = "forward" ->
                 Ordered("in_order", r.extended, Remember(moved, r.extended, p.digest))
            [] s.highest # None /\ repeat = "none" /\ r.kind = "late" ->
                 Ordered("reorder", r.extended,
                         IF r.extended = None THEN calm ELSE Remember(calm, r.extended, p.digest))
            [] s.highest # None /\ r.kind = "unknown" /\ seq = s.bad ->
                 Ordered("restart", seq, Remember(afresh, seq, p.digest))
            [] OTHER -> Ordered("discontinuity_unknown", None,
                                [s EXCEPT !.bad = (seq + 1) % RtpSeqMod])
  <2>1. moved = [calm EXCEPT !.highest = seq,
                             !.cycles = @ + (IF seq < s.highest THEN RtpSeqMod ELSE 0)]
    BY DEF Source
  <2>2. QED
    BY <2>1 DEF Order
<1>9. CASE s.highest = None
  <2>1. o = Ordered("first", s.cycles + seq, Remember(high, s.cycles + seq, p.digest))
    BY <1>8, <1>9
  <2>2. s = NewSource
    BY <1>9 DEF SourceSound
  <2>3. s.cycles + seq = seq /\ high \in Source /\ high.seen = <<>> /\ high.cycles = 0
        /\ high.epoch = 0 /\ high.bad = None /\ high.highest = seq
    <3>1. s.cycles = 0 /\ s.epoch = 0 /\ s.bad = None /\ s.seen = <<>>
      BY <2>2 DEF NewSource
    <3>2. high \in Source
      BY <1>1 DEF Source
    <3>3. /\ high.seen = s.seen /\ high.cycles = s.cycles /\ high.epoch = s.epoch
          /\ high.bad = s.bad /\ high.highest = seq
      BY DEF Source
    <3>4. QED
      BY <1>1, <3>1, <3>2, <3>3
  <2>4. Len(high.seen) <= RecentSequences
    BY <1>3, <2>3, EmptySeq
  <2> HIDE DEF high, o, seq
  <2> DEFINE u == Remember(high, seq, p.digest)
  <2>5. /\ u \in Source /\ u.highest = high.highest /\ u.cycles = high.cycles
        /\ u.epoch = high.epoch /\ u.bad = high.bad /\ Len(u.seen) = 1 /\ u.seen[1].extended = seq
    BY <1>1, <2>3, <2>4, RememberFields
  <2> HIDE DEF u
  <2>6. o.state = "first" /\ o.extended = seq /\ o.source = u
    BY <2>1, <2>3 DEF Ordered, u
  <2>7. QED
    BY <1>9, <2>3, <2>5, <2>6 DEF Arrival, StartsEpoch, seq, o
<1>10. ASSUME s.highest # None
       PROVE  o.source \in Source /\ Arrival(s, p, o.state, o.extended, o.source)
  <2>1. /\ Top(s) \in Nat
        /\ \/ r.kind = "repeat_of_highest" /\ r.extended = Top(s)
           \/ /\ r.kind = "forward" /\ r.extended = span + seq /\ span \in Nat
              /\ r.extended \in Nat /\ Top(s) < r.extended
              /\ r.extended - Top(s) < MaxDropout
           \/ r.kind = "late" /\ r.extended = None
           \/ /\ r.kind = "late" /\ r.extended \in Nat
              /\ r.extended \in (Top(s) - MaxMisorder + 1)..(Top(s) - 1)
           \/ r.kind = "unknown" /\ r.extended = None
    BY <1>1, <1>10, ResolveMeaning
  <2> DEFINE bad  == (seq + 1) % RtpSeqMod
             lost == [s EXCEPT !.bad = bad]
  <2>2. moved \in Source /\ moved.highest = seq /\ moved.cycles = span /\ moved.epoch = s.epoch
        /\ moved.seen = s.seen /\ moved.bad = None
    <3>1. span \in Nat
      BY <1>1, <1>2
    <3>2. QED
      BY <1>1, <1>7, <3>1 DEF Source
  <2>3. afresh \in Source /\ afresh.highest = seq /\ afresh.cycles = 0
        /\ afresh.epoch = s.epoch + 1 /\ afresh.seen = <<>> /\ afresh.bad = None
    <3>1. s.epoch + 1 \in Nat
      BY <1>2
    <3>2. <<>> \in Seq(Entry)
      BY EmptySeq
    <3>3. /\ NewSource \in Source /\ NewSource.cycles = 0
          /\ NewSource.seen = <<>> /\ NewSource.bad = None
      BY <3>2 DEF NewSource, Source, None
    <3>4. afresh = [NewSource EXCEPT !.highest = seq, !.epoch = s.epoch + 1]
      BY DEF Restarted
    <3>5. QED
      BY <1>1, <3>1, <3>3, <3>4 DEF Source
  <2>4. lost \in Source /\ SameSpan(s, lost) /\ SameSeen(s, lost) /\ lost.bad = bad
    <3>1. bad \in SeqNumbers
      BY <1>1 DEF SeqNumbers
    <3> HIDE DEF bad
    <3>2. QED
      BY <3>1 DEF Source, SameSpan, SameSeen
  <2> HIDE DEF calm, moved, afresh, lost, r, repeat, o, seq, bad, span
  <2>5. CASE r.extended # None /\ repeat # "none"
    <3> DEFINE u == Remember(calm, r.extended, p.digest)
    <3>1. o = Ordered(repeat, r.extended, u)
      <4>1. r.kind # "unknown"
        BY <2>1, <2>5
      <4>2. QED
        BY <1>8, <1>10, <2>5, <4>1
    <3>2. r.extended \in Nat /\ Known(s, r.extended) # {} /\ repeat \in Repeats
      BY <1>6, <2>1, <2>5
    <3>3. u \in Source /\ u.highest = calm.highest /\ u.cycles = calm.cycles
          /\ u.epoch = calm.epoch /\ u.bad = calm.bad /\ SameSeen(s, u)
      BY <1>1, <1>4, <1>7, <3>2, RememberCalm
    <3> HIDE DEF u
    <3>4. o.state = repeat /\ o.extended = r.extended /\ o.source = u
      BY <3>1 DEF Ordered
    <3>5. SameSpan(s, u) /\ u.bad = None
      BY <1>7, <3>3 DEF SameSpan
    <3>6. QED
      BY <1>10, <3>2, <3>3, <3>4, <3>5 DEF Arrival
  <2>6. CASE repeat = "none" /\ r.kind = "repeat_of_highest"
    <3>1. r.extended = Top(s) /\ Known(s, Top(s)) = {}
      BY <1>6, <2>1, <2>6
    <3>2. HighestSound(rows, p.key, s)
      BY <1>10 DEF SourceSound
    <3>3. \E q \in DOMAIN s.seen : s.seen[q].extended = Top(s)
      BY <3>2 DEF HighestSound
    <3>4. QED
      BY <3>1, <3>3 DEF Known
  <2>7. CASE repeat = "none" /\ r.kind = "forward"
    <3> DEFINE u == Remember(moved, r.extended, p.digest)
    <3>1. o = Ordered("in_order", r.extended, u)
      BY <1>8, <1>10, <2>7
    <3>2. /\ r.extended \in Nat /\ Known(s, r.extended) = {} /\ r.extended = span + seq
          /\ Top(s) < r.extended /\ r.extended - Top(s) < MaxDropout
      BY <1>6, <2>1, <2>7
    <3>3. u \in Source /\ u.highest = moved.highest /\ u.cycles = moved.cycles
          /\ u.epoch = moved.epoch /\ u.bad = moved.bad /\ NewSeen(s, u, r.extended)
      BY <1>1, <1>4, <2>2, <3>2, RememberCalm
    <3> HIDE DEF u
    <3>4. o.state = "in_order" /\ o.extended = r.extended /\ o.source = u
      BY <3>1 DEF Ordered
    <3>5. Top(u) = r.extended /\ u.highest # None
      BY <1>1, <2>2, <3>2, <3>3 DEF Top, None
    <3>6. QED
      BY <1>10, <2>1, <2>2, <3>2, <3>3, <3>4, <3>5 DEF Arrival
  <2>8. CASE repeat = "none" /\ r.kind = "late" /\ r.extended = None
    <3>1. o = Ordered("reorder", r.extended, calm)
      BY <1>8, <1>10, <2>8
    <3>2. o.state = "reorder" /\ o.extended = None /\ o.source = calm
      BY <2>8, <3>1 DEF Ordered
    <3>3. SameSeen(s, calm)
      BY <1>7 DEF SameSeen
    <3>4. QED
      BY <1>7, <1>10, <3>2, <3>3 DEF Arrival
  <2>9. CASE repeat = "none" /\ r.kind = "late" /\ r.extended # None
    <3> DEFINE u == Remember(calm, r.extended, p.digest)
    <3>1. o = Ordered("reorder", r.extended, u)
      BY <1>8, <1>10, <2>9
    <3>2. r.extended \in Nat /\ Known(s, r.extended) = {}
          /\ r.extended \in (Top(s) - MaxMisorder + 1)..(Top(s) - 1)
      BY <1>6, <2>1, <2>9
    <3>3. u \in Source /\ u.highest = calm.highest /\ u.cycles = calm.cycles
          /\ u.epoch = calm.epoch /\ u.bad = calm.bad /\ NewSeen(s, u, r.extended)
      BY <1>1, <1>4, <1>7, <3>2, RememberCalm
    <3> HIDE DEF u
    <3>4. o.state = "reorder" /\ o.extended = r.extended /\ o.source = u
      BY <3>1 DEF Ordered
    <3>5. SameSpan(s, u) /\ u.bad = None
      BY <1>7, <3>3 DEF SameSpan
    <3>6. QED
      BY <1>10, <2>1, <3>2, <3>3, <3>4, <3>5 DEF Arrival
  <2>10. CASE r.kind = "unknown" /\ seq = s.bad
    <3> DEFINE u == Remember(afresh, seq, p.digest)
    <3>1. o = Ordered("restart", seq, u)
      <4>1. repeat = "none" /\ r.extended = None
        BY <1>5, <1>6, <2>1, <2>10
      <4>2. QED
        BY <1>8, <1>10, <2>10, <4>1
    <3>2. Len(afresh.seen) <= RecentSequences
      BY <1>3, <2>3, EmptySeq
    <3>3. /\ u \in Source /\ u.highest = afresh.highest /\ u.cycles = afresh.cycles
          /\ u.epoch = afresh.epoch /\ u.bad = afresh.bad
          /\ Len(u.seen) = 1 /\ u.seen[1].extended = seq
      BY <1>1, <2>3, <3>2, RememberFields
    <3> HIDE DEF u
    <3>4. o.state = "restart" /\ o.extended = seq /\ o.source = u
      BY <3>1 DEF Ordered
    <3>5. StartsEpoch(u, p.seq) /\ u.epoch = s.epoch + 1 /\ s.bad = p.seq
      BY <2>3, <2>10, <3>3 DEF StartsEpoch, seq
    <3>6. QED
      BY <1>10, <3>3, <3>4, <3>5 DEF Arrival, seq
  <2>11. CASE r.kind = "unknown" /\ seq # s.bad
    <3>1. o = Ordered("discontinuity_unknown", None, lost)
      <4>1. repeat = "none" /\ r.extended = None
        BY <1>5, <1>6, <2>1, <2>11
      <4>2. QED
        BY <1>8, <1>10, <2>11, <4>1 DEF lost, bad
    <3>2. o.state = "discontinuity_unknown" /\ o.extended = None /\ o.source = lost
      BY <3>1 DEF Ordered
    <3>3. QED
      BY <1>10, <2>4, <3>2 DEF Arrival, bad, seq
  <2>12. QED
    BY <1>5, <1>6, <2>1, <2>5, <2>6, <2>7, <2>8, <2>9, <2>10, <2>11
<1>11. QED
  BY <1>9, <1>10

(* Whatever an arrival is, its row and the source after it are sound.         *)
LEMMA ArrivalSound ==
    ASSUME NEW rows \in Seq(RowSet), NEW s \in Source, NEW u \in Source, NEW row \in RowSet,
           SourceSound(rows, row.packet.key, s), row.epoch = u.epoch,
           Arrival(s, row.packet, row.order, row.extended, u)
    PROVE  NextSound(rows, row, u)
<1> DEFINE p == row.packet
           z == Append(rows, row)
           L == Len(rows)
<1>1. /\ L \in Nat /\ DOMAIN rows = 1..L /\ DOMAIN z = 1..(L + 1) /\ z[L + 1] = row
      /\ \A i \in 1..L : z[i] = rows[i] /\ rows[i] \in RowSet
  BY RowGrown
<1>2. u.bad = None => BadSound(z, p.key, u)
  BY DEF BadSound
<1>3. "discontinuity_unknown" \notin Repeats /\ "reorder" \notin Repeats
      /\ "restart" \notin Repeats /\ "in_order" \notin Repeats
  BY DEF Repeats
<1>4. p.seq \in SeqNumbers /\ p.seq \in Nat /\ p.seq # None
  <2>1. p \in RtpPackets /\ RtpSeqMod \in Nat
    BY RtpWindows DEF RowSet
  <2>2. p.seq \in SeqNumbers
    BY <2>1, RtpWindows DEF SeqNumbers
  <2>3. QED
    BY <2>1, <2>2 DEF SeqNumbers, None
<1>5. CASE /\ s.highest = None /\ row.order = "first" /\ row.extended = p.seq
           /\ StartsEpoch(u, p.seq) /\ u.epoch = 0
  <2>1. \A i \in DOMAIN rows : rows[i].packet.key # p.key
    BY <1>5 DEF SourceSound
  <2>2. RestartIsConfirmed(z, L + 1)
    BY <1>1, <1>5 DEF RestartIsConfirmed
  <2>3. u.bad = None /\ u.highest # None /\ Top(u) = row.extended
        /\ Len(u.seen) = 1 /\ u.seen[1].extended = row.extended
    BY <1>4, <1>5 DEF StartsEpoch, Top
  <2>4. QED
    BY <1>4, <1>5, <2>1, <2>2, <2>3, EpochSound
<1>6. CASE /\ s.highest # None /\ row.order \in Repeats /\ row.extended \in Nat
           /\ Known(s, row.extended) # {}
           /\ SameSpan(s, u) /\ SameSeen(s, u) /\ u.bad = None
  <2>1. row.order \notin {"restart", "in_order"}
    BY <1>3, <1>6
  <2>2. QED
    BY <1>2, <1>6, <2>1, NothingNew DEF SameSpan
<1>7. CASE /\ s.highest # None /\ row.order = "in_order" /\ row.extended \in Nat
           /\ Top(u) = row.extended /\ u.highest # None /\ u.epoch = s.epoch /\ u.bad = None
           /\ Top(s) \in Nat /\ Top(s) < row.extended /\ row.extended - Top(s) < MaxDropout
           /\ NewSeen(s, u, row.extended)
  BY <1>7, ForwardSound
<1>8. CASE /\ s.highest # None /\ row.order = "reorder" /\ row.extended = None
           /\ SameSpan(s, u) /\ SameSeen(s, u) /\ u.bad = None
  <2>1. row.order \notin {"restart", "in_order"} /\ row.order \notin Repeats
    BY <1>3, <1>8
  <2>2. QED
    BY <1>2, <1>8, <2>1, NothingNew DEF SameSpan
<1>9. CASE /\ s.highest # None /\ row.order = "reorder" /\ row.extended \in Nat
           /\ SameSpan(s, u) /\ u.bad = None /\ NewSeen(s, u, row.extended)
           /\ Top(s) \in Nat
           /\ row.extended \in (Top(s) - MaxMisorder + 1)..(Top(s) - 1)
  <2>1. Top(u) = Top(s) /\ u.highest # None /\ u.epoch = s.epoch
    BY <1>9 DEF SameSpan, Top
  <2>2. QED
    BY <1>9, <2>1, LateSound
<1>10. CASE /\ s.highest # None /\ s.bad = p.seq /\ row.order = "restart"
            /\ row.extended = p.seq /\ StartsEpoch(u, p.seq) /\ u.epoch = s.epoch + 1
  <2>1. /\ \A i \in DOMAIN rows : rows[i].packet.key = p.key => rows[i].epoch <= s.epoch
        /\ BadSound(rows, p.key, s)
    BY <1>10 DEF SourceSound
  <2>2. PICK i \in DOMAIN rows :
            /\ rows[i].packet.key = p.key /\ rows[i].epoch = s.epoch
            /\ \A n \in DOMAIN rows : n > i => rows[n].packet.key # p.key
            /\ rows[i].order = "discontinuity_unknown"
            /\ s.bad = (rows[i].packet.seq + 1) % RtpSeqMod
    BY <1>4, <1>10, <2>1 DEF BadSound
  <2>3. RestartIsConfirmed(z, L + 1)
    <3>1. i \in 1..L /\ (L + 1) - 1 = L /\ z[i] = rows[i]
      BY <1>1
    <3>2. \A n \in (i + 1)..L : n \in DOMAIN rows /\ n > i /\ z[n] = rows[n]
      BY <1>1, <3>1
    <3>3. \A n \in (i + 1)..L : z[n].packet.key # p.key
      BY <2>2, <3>2
    <3> HIDE DEF z, L
    <3>4. QED
      BY <1>1, <1>10, <2>2, <3>1, <3>3 DEF RestartIsConfirmed
  <2>4. \A i2 \in DOMAIN rows : rows[i2].packet.key = p.key => rows[i2].epoch < u.epoch
    <3>1. s.epoch \in Nat /\ \A i2 \in DOMAIN rows : rows[i2].epoch \in Nat
      BY <1>1 DEF Source, RowSet
    <3>2. QED
      BY <1>10, <2>1, <3>1
  <2>5. u.bad = None /\ u.highest # None /\ Top(u) = row.extended
        /\ Len(u.seen) = 1 /\ u.seen[1].extended = row.extended
    BY <1>4, <1>10 DEF StartsEpoch, Top
  <2>6. QED
    BY <1>4, <1>10, <2>3, <2>4, <2>5, EpochSound
<1>11. CASE /\ s.highest # None /\ row.order = "discontinuity_unknown"
            /\ row.extended = None /\ SameSpan(s, u) /\ SameSeen(s, u)
            /\ u.bad = (p.seq + 1) % RtpSeqMod
  <2>1. row.order \notin {"restart", "in_order"} /\ row.order \notin Repeats
    BY <1>3, <1>11
  <2>2. BadSound(z, p.key, u)
    <3>1. /\ L + 1 \in DOMAIN z /\ z[L + 1].packet.key = p.key /\ z[L + 1].epoch = u.epoch
          /\ \A n \in DOMAIN z : ~(n > L + 1)
          /\ z[L + 1].order = "discontinuity_unknown"
          /\ u.bad = (z[L + 1].packet.seq + 1) % RtpSeqMod
      BY <1>1, <1>11
    <3> HIDE DEF z, L
    <3>2. QED
      BY <3>1 DEF BadSound
  <2>3. QED
    BY <1>11, <2>1, <2>2, NothingNew DEF SameSpan
<1>12. QED
  BY <1>5, <1>6, <1>7, <1>8, <1>9, <1>10, <1>11 DEF Arrival

(* Only the numbers of a source count for its rows. *)
LEMMA NextSame ==
    ASSUME NEW rows, NEW row, NEW s, NEW t, NextSound(rows, row, s), SameNumbers(s, t)
    PROVE  NextSound(rows, row, t)
<1> DEFINE z == Append(rows, row)
           k == row.packet.key
<1>1. /\ t.highest = s.highest /\ t.cycles = s.cycles
      /\ t.epoch = s.epoch /\ t.bad = s.bad /\ t.seen = s.seen
  BY DEF SameNumbers
<1>2. s.highest # None /\ SourceSound(z, k, s) /\ RowSound(z, Len(rows) + 1)
  BY DEF NextSound
<1> HIDE DEF z, k
<1>3. Current(z, k, t) = Current(z, k, s) /\ Top(t) = Top(s)
  BY <1>1 DEF Current, Top
<1>4. MemorySound(z, k, t)
  BY <1>1, <1>2, <1>3 DEF SourceSound, MemorySound, Remembered
<1>5. HighestSound(z, k, t) /\ BadSound(z, k, t)
  BY <1>1, <1>2, <1>3 DEF SourceSound, HighestSound, BadSound
<1>6. SourceSound(z, k, t)
  BY <1>1, <1>2, <1>4, <1>5 DEF SourceSound
<1>7. QED
  BY <1>1, <1>2, <1>6 DEF NextSound, z, k

(* The timestamp of a packet does not touch the numbers of its source.        *)
LEMMA TickFields ==
    ASSUME NEW s \in Source, NEW ts \in Nat
    PROVE  LET t == Tick(s, ts) IN
           /\ t.source \in Source /\ SameNumbers(s, t.source)
           /\ t.state \in Times /\ t.ticks \in Int
<1> DEFINE forward  == (ts - s.highestTs) % RtpTsMod
           backward == (s.highestTs - ts) % RtpTsMod
           cycles   == s.tsCycles + (IF ts < s.highestTs THEN RtpTsMod ELSE 0)
           late     == s.tsCycles - (IF ts > s.highestTs THEN RtpTsMod ELSE 0) + ts
           t        == Tick(s, ts)
           begun    == [s EXCEPT !.highestTs = ts, !.firstTs = ts]
           later    == [s EXCEPT !.highestTs = ts, !.tsCycles = cycles]
           back     == IF late < 0 THEN None ELSE late
<1>1. RtpTsMod \in Nat
  BY RtpWindows
<1>2. s.tsCycles \in Nat /\ s.highestTs \in Int
  BY DEF Source
<1>3. cycles \in Nat /\ late \in Int /\ back \in Int
  BY <1>1, <1>2 DEF None
<1>4. begun \in Source /\ SameNumbers(s, begun) /\ SameNumbers(s, s)
  <2>1. ts \in Int
    OBVIOUS
  <2>2. begun \in Source
    BY <2>1 DEF Source
  <2>3. SameNumbers(s, begun) /\ SameNumbers(s, s)
    BY DEF Source, SameNumbers
  <2>4. QED
    BY <2>2, <2>3
<1>5. later \in Source /\ SameNumbers(s, later)
  <2> HIDE DEF cycles
  <2>1. ts \in Int
    OBVIOUS
  <2>2. later \in Source
    BY <1>3, <2>1 DEF Source
  <2>3. SameNumbers(s, later)
    BY DEF Source, SameNumbers
  <2>4. QED
    BY <2>2, <2>3
<1>6. \/ t = Ticked("first", ts, begun)
      \/ t = Ticked("same_timestamp", s.tsCycles + s.highestTs, s)
      \/ t = Ticked("forward", cycles + ts, later)
      \/ t = Ticked("backward", back, s)
      \/ t = Ticked("discontinuity_unknown", None, s)
  BY DEF Tick
<1> HIDE DEF cycles, back, begun, later, t
<1>7. cycles + ts \in Int /\ s.tsCycles + s.highestTs \in Int /\ None \in Int /\ ts \in Int
  BY <1>2, <1>3 DEF None
<1>8. \A a, b, c : /\ Ticked(a, b, c).state = a /\ Ticked(a, b, c).ticks = b
                   /\ Ticked(a, b, c).source = c
  BY DEF Ticked
<1>9. t.source \in {begun, later, s} /\ t.state \in Times /\ t.ticks \in Int
  BY <1>3, <1>6, <1>7, <1>8 DEF Times
<1>10. QED
  BY <1>4, <1>5, <1>9 DEF t

(* The row of a packet, and its source afterwards.                            *)
LEMMA RowMeaning ==
    ASSUME NEW rows \in Seq(RowSet), NEW s \in Source, NEW p \in RtpPackets,
           SourceSound(rows, p.key, s)
    PROVE  LET result == Row(s, p) IN
           /\ result.source \in Source /\ result.row \in RowSet /\ result.row.packet = p
           /\ NextSound(rows, result.row, result.source)
<1> DEFINE o == Order(s, p.seq, p.digest)
           t == IF o.state = "discontinuity_unknown"
                THEN Ticked("discontinuity_unknown", None, o.source)
                ELSE Tick(o.source, p.ts)
           row == [packet |-> p, order |-> o.state, extended |-> o.extended,
                   epoch |-> t.source.epoch, cycles |-> t.source.cycles,
                   time |-> t.state, ticks |-> t.ticks, origin |-> t.source.firstTs]
           result == Row(s, p)
<1>1. o.source \in Source /\ Arrival(s, p, o.state, o.extended, o.source)
  BY OrderMeaning
<1>2. p.ts \in Nat /\ p.seq \in Nat
  BY RtpWindows
<1>3. result = [source |-> t.source, row |-> row]
  BY DEF Row
<1> HIDE DEF o, result
<1>4. o.state \in Orders /\ o.extended \in {None} \cup Nat
  BY <1>1, <1>2 DEF Arrival, Orders
<1>5. /\ t.source \in Source /\ SameNumbers(o.source, t.source)
      /\ t.state \in Times /\ t.ticks \in Int
  <2>1. CASE o.state = "discontinuity_unknown"
    <3>1. t = Ticked("discontinuity_unknown", None, o.source)
      BY <2>1
    <3> HIDE DEF t
    <3>2. QED
      BY <1>1, <1>4, <2>1, <3>1 DEF Ticked, SameNumbers, None, Times
  <2>2. CASE o.state # "discontinuity_unknown"
    <3>1. t = Tick(o.source, p.ts)
      BY <2>2
    <3> HIDE DEF t
    <3>2. QED
      BY <1>1, <1>2, <3>1, TickFields
  <2>3. QED
    BY <2>1, <2>2
<1> HIDE DEF t
<1>6. row \in RowSet
  <2>1. t.source.epoch \in Nat /\ t.source.cycles \in Nat /\ t.source.firstTs \in Int
    BY <1>5 DEF Source
  <2>2. QED
    BY <1>4, <1>5, <2>1 DEF RowSet
<1>7. /\ row.packet = p /\ row.order = o.state /\ row.extended = o.extended
      /\ row.epoch = o.source.epoch
  BY <1>5 DEF SameNumbers
<1> HIDE DEF row
<1>8. NextSound(rows, row, o.source)
  BY <1>1, <1>6, <1>7, ArrivalSound
<1>9. NextSound(rows, row, t.source)
  BY <1>5, <1>8, NextSame
<1>10. QED
  BY <1>3, <1>5, <1>6, <1>7, <1>9 DEF result

(* What was true of a row stays true: it is about the rows before it.         *)
LEMMA RowStays ==
    ASSUME NEW rows \in Seq(RowSet), NEW row \in RowSet, NEW j \in 1..Len(rows),
           RowSound(rows, j)
    PROVE  RowSound(Append(rows, row), j)
<1> DEFINE z == Append(rows, row)
           M == Mates(rows, j)
<1>1. Len(rows) \in Nat /\ \A i \in 1..Len(rows) : z[i] = rows[i]
  BY RowGrown
<1>2. \A i \in 1..(j - 1) : i \in 1..Len(rows) /\ z[i] = rows[i]
  BY <1>1
<1>3. Mates(z, j) = M /\ z[j] = rows[j] /\ M \in SUBSET (1..Len(rows))
  BY <1>1, <1>2 DEF Mates
<1>4. \A i \in M : GivenAfter(z, M, i) = GivenAfter(rows, M, i) /\ z[i] = rows[i]
  BY <1>1, <1>3, GivenStays
<1> HIDE DEF z, M
<1>5. RestartIsConfirmed(z, j)
  <2>1. ASSUME NEW i \in 1..(j - 1)
        PROVE  \A n \in (i + 1)..(j - 1) : z[n] = rows[n]
    BY <1>2, <2>1
  <2>2. RestartIsConfirmed(rows, j)
    BY DEF RowSound
  <2>3. QED
    BY <1>2, <1>3, <2>1, <2>2 DEF RestartIsConfirmed
<1>6. ExtendedNumberIsIdentity(z, j)
  <2>1. {i \in M : z[i].extended = z[j].extended} = {i \in M : rows[i].extended = rows[j].extended}
    BY <1>3, <1>4
  <2>2. ExtendedNumberIsIdentity(rows, j)
    BY DEF RowSound
  <2>3. QED
    BY <1>3, <1>4, <2>1, <2>2 DEF ExtendedNumberIsIdentity, M
<1>7. InOrderMovesForward(z, j)
  BY <1>3, <1>4 DEF RowSound, InOrderMovesForward, M
<1>8. QED
  BY <1>5, <1>6, <1>7 DEF RowSound, z

(* The other sources do not see the row.                                      *)
LEMMA SourceStays ==
    ASSUME NEW rows \in Seq(RowSet), NEW row \in RowSet, NEW k, NEW s,
           row.packet.key # k, SourceSound(rows, k, s)
    PROVE  SourceSound(Append(rows, row), k, s)
<1> DEFINE z == Append(rows, row)
           L == Len(rows)
           S == Current(rows, k, s)
<1>1. /\ L \in Nat /\ DOMAIN rows = 1..L /\ DOMAIN z = 1..(L + 1) /\ z[L + 1] = row
      /\ \A i \in 1..L : z[i] = rows[i] /\ rows[i] \in RowSet
  BY RowGrown
<1>2. Current(z, k, s) = S
  BY CurrentStays
<1>3. S \in SUBSET (1..L)
  BY <1>1 DEF Current
<1>4. \A i \in S : z[i] = rows[i] /\ GivenAfter(z, S, i) = GivenAfter(rows, S, i)
  BY <1>1, <1>3, GivenStays
<1> HIDE DEF z, L, S
<1>5. CASE s.highest = None
  <2>1. s = NewSource /\ \A i \in DOMAIN rows : rows[i].packet.key # k
    BY <1>5 DEF SourceSound
  <2>2. \A i \in DOMAIN z : z[i].packet.key # k
    BY <1>1, <2>1
  <2>3. QED
    BY <1>5, <2>1, <2>2 DEF SourceSound, z
<1>6. CASE s.highest # None
  <2>1. MemorySound(rows, k, s) /\ HighestSound(rows, k, s) /\ BadSound(rows, k, s)
        /\ \A i \in DOMAIN rows : rows[i].packet.key = k => rows[i].epoch <= s.epoch
    BY <1>6 DEF SourceSound
  <2>2. MemorySound(z, k, s)
    <3>1. \A i \in S : Remembered(rows, S, s, i) => Remembered(z, S, s, i)
      BY <1>4 DEF Remembered
    <3>2. QED
      BY <1>2, <1>4, <2>1, <3>1 DEF MemorySound, S
  <2>3. HighestSound(z, k, s)
    BY <1>2, <1>4, <2>1 DEF HighestSound, S
  <2>4. BadSound(z, k, s)
    <3>1. SUFFICES ASSUME s.bad # None
                   PROVE  \E i \in DOMAIN z :
                              /\ z[i].packet.key = k /\ z[i].epoch = s.epoch
                              /\ \A n \in DOMAIN z : n > i => z[n].packet.key # k
                              /\ z[i].order = "discontinuity_unknown"
                              /\ s.bad = (z[i].packet.seq + 1) % RtpSeqMod
      BY DEF BadSound
    <3>2. PICK i \in DOMAIN rows :
              /\ rows[i].packet.key = k /\ rows[i].epoch = s.epoch
              /\ \A n \in DOMAIN rows : n > i => rows[n].packet.key # k
              /\ rows[i].order = "discontinuity_unknown"
              /\ s.bad = (rows[i].packet.seq + 1) % RtpSeqMod
      BY <2>1, <3>1 DEF BadSound
    <3>3. i \in DOMAIN z /\ z[i] = rows[i]
      BY <1>1
    <3>4. \A n \in DOMAIN z : n > i => z[n].packet.key # k
      BY <1>1, <3>2
    <3>5. QED
      BY <3>2, <3>3, <3>4
  <2>5. \A i \in DOMAIN z : z[i].packet.key = k => z[i].epoch <= s.epoch
    BY <1>1, <2>1
  <2>6. SourceSound(z, k, s)
    BY <1>6, <2>2, <2>3, <2>4, <2>5 DEF SourceSound
  <2>7. QED
    BY <2>6 DEF z
<1>7. QED
  BY <1>5, <1>6 DEF z

(* A retained packet. *)
LEMMA RetainInv == ASSUME RtpInv, NEW p \in RtpPackets, Retain(p) PROVE RtpInv'
<1> DEFINE known  == DOMAIN rtpSources
           source == IF p.key \in known THEN rtpSources[p.key] ELSE NewSource
           result == Row(source, p)
<1>1. /\ rtpSources' = [k \in known \cup {p.key} |->
                           IF k = p.key THEN result.source ELSE rtpSources[k]]
      /\ rtpRows' = Append(rtpRows, result.row)
  BY DEF Retain
<1>2. /\ rtpRows \in Seq(RowSet) /\ rtpSources \in [known -> Source]
      /\ \A k \in RtpKeys : SourceSound(rtpRows, k, SourceOf(k))
      /\ SequenceNumbersAreSound
  BY DEF RtpInv
<1>3. source \in Source
  <2>1. NewSource \in Source
    <3>1. <<>> \in Seq(Entry)
      BY EmptySeq
    <3>2. QED
      BY <3>1 DEF NewSource, Source, None
  <2>2. QED
    BY <1>2, <2>1
<1>4. source = SourceOf(p.key) /\ p.key \in RtpKeys
  BY DEF SourceOf, RtpKeys
<1>5. SourceSound(rtpRows, p.key, source)
  BY <1>2, <1>4
<1> HIDE DEF source
<1>6. /\ result.source \in Source /\ result.row \in RowSet /\ result.row.packet = p
      /\ NextSound(rtpRows, result.row, result.source)
  BY <1>2, <1>3, <1>5, RowMeaning
<1> HIDE DEF result, known
<1>7. rtpRows' \in Seq(RowSet)
  BY <1>1, <1>2, <1>6, RowGrown
<1>8. rtpSources' \in [DOMAIN rtpSources' -> Source]
  BY <1>1, <1>2, <1>6
<1>9. ASSUME NEW k \in RtpKeys PROVE SourceSound(rtpRows', k, SourceOf(k)')
  <2>1. CASE k = p.key
    <3>1. SourceOf(k)' = result.source
      BY <1>1, <2>1 DEF SourceOf
    <3>2. QED
      BY <1>1, <1>6, <2>1, <3>1 DEF NextSound
  <2>2. CASE k # p.key
    <3>1. SourceOf(k)' = SourceOf(k)
      BY <1>1, <2>2 DEF SourceOf, known
    <3>2. SourceSound(rtpRows, k, SourceOf(k))
      BY <1>2
    <3>3. SourceSound(Append(rtpRows, result.row), k, SourceOf(k))
      BY <1>2, <1>6, <2>2, <3>2, SourceStays
    <3>4. QED
      BY <1>1, <3>1, <3>3
  <2>3. QED
    BY <2>1, <2>2
<1>10. SequenceNumbersAreSound'
  <2> DEFINE z == Append(rtpRows, result.row)
  <2>1. DOMAIN z = 1..(Len(rtpRows) + 1) /\ Len(rtpRows) \in Nat
        /\ DOMAIN rtpRows = 1..Len(rtpRows)
    BY <1>2, <1>6, RowGrown
  <2>2. RowSound(z, Len(rtpRows) + 1)
    BY <1>6 DEF NextSound
  <2>3. \A j \in 1..Len(rtpRows) : RowSound(z, j)
    <3>1. TAKE j \in 1..Len(rtpRows)
    <3>2. RowSound(rtpRows, j)
      BY <1>2, <2>1 DEF SequenceNumbersAreSound, RowSound
    <3>3. QED
      BY <1>2, <1>6, <3>2, RowStays
  <2> HIDE DEF z
  <2>4. \A j \in DOMAIN z : RowSound(z, j)
    <3>1. \A j \in DOMAIN z : j \in 1..Len(rtpRows) \/ j = Len(rtpRows) + 1
      BY <2>1
    <3>2. QED
      BY <2>2, <2>3, <3>1
  <2>5. rtpRows' = z
    BY <1>1 DEF z
  <2>6. QED
    BY <2>4, <2>5 DEF SequenceNumbersAreSound, RowSound
<1>11. QED
  BY <1>7, <1>8, <1>9, <1>10 DEF RtpInv

(* Every step keeps the rows sound. *)
LEMMA NextRtpInv == RtpInv /\ [RtpNext]_rtpVars => RtpInv'
<1> SUFFICES ASSUME RtpInv, [RtpNext]_rtpVars PROVE RtpInv'
  OBVIOUS
<1>1. ASSUME NEW p \in RtpPackets, Retain(p) PROVE RtpInv'
  BY <1>1, RetainInv
<1>2. ASSUME UNCHANGED <<rtpSources, rtpRows>> PROVE RtpInv'
  BY <1>2 DEF RtpInv, SourceOf, SequenceNumbersAreSound
<1>3. CASE SkipUnselected
  BY <1>2, <1>3 DEF SkipUnselected
<1>4. ASSUME NEW p \in RtpPackets, SkipUnsupported(p) PROVE RtpInv'
  BY <1>2, <1>4 DEF SkipUnsupported
<1>5. ASSUME NEW p \in RtpPackets, RefuseRtp(p) PROVE RtpInv'
  BY <1>2, <1>5 DEF RefuseRtp
<1>6. CASE EndOfRtp
  BY <1>2, <1>6 DEF EndOfRtp
<1>7. CASE UNCHANGED rtpVars
  BY <1>2, <1>7 DEF rtpVars
<1>8. QED
  BY <1>1, <1>3, <1>4, <1>5, <1>6, <1>7 DEF RtpNext

(* No row, no source. *)
LEMMA InitRtpInv == RtpInit => RtpInv
<1> SUFFICES ASSUME RtpInit PROVE RtpInv
  OBVIOUS
<1>1. rtpRows = <<>> /\ DOMAIN rtpSources = {} /\ rtpSources = [k \in {} |-> NewSource]
  BY DEF RtpInit
<1>2. rtpRows \in Seq(RowSet) /\ DOMAIN rtpRows = {}
  BY <1>1, EmptySeq
<1>3. rtpSources \in [DOMAIN rtpSources -> Source]
  BY <1>1
<1>4. \A k \in RtpKeys : SourceSound(rtpRows, k, SourceOf(k))
  <2>1. \A k \in RtpKeys : SourceOf(k) = NewSource
    BY <1>1 DEF SourceOf
  <2>2. NewSource.highest = None
    BY DEF NewSource
  <2>3. QED
    BY <1>2, <2>1, <2>2 DEF SourceSound
<1>5. SequenceNumbersAreSound
  BY <1>2 DEF SequenceNumbersAreSound
<1>6. QED
  BY <1>2, <1>3, <1>4, <1>5 DEF RtpInv

(* In every reachable state a restart is confirmed by the packet before it,  *)
(* an extended number names one packet as long as the memory reaches, and    *)
(* in-order arrivals only move forward, for any moduli, windows and memory   *)
(* that stand to each other as those of the code do.                          *)
THEOREM NumbersAreSound == RtpSpec => []SequenceNumbersAreSound
<1>1. RtpInv => SequenceNumbersAreSound
  BY DEF RtpInv
<1>2. QED
  BY <1>1, InitRtpInv, NextRtpInv, PTL DEF RtpSpec

-----------------------------------------------------------------------------
(* Access units of saved H.264. *)

AvcNal     == [kind : STRING, from : Seq(Nat)]
AccessUnit == [ts : Int, packets : Seq(Nat), nals : Seq(AvcNal), marked : BOOLEAN]

(* No packet is missing in the capture, and its numbers count its positions  *)
(* up to whole wraps.                                                       *)
NoGap(c) ==
    \A i \in 1..(Len(c) - 1) : /\ c[i + 1].seq = (c[i].seq + 1) % H264SeqMod
                               /\ c[i + 1].source = c[i].source
Numbered(c) ==
    \A i, j \in DOMAIN c : i <= j =>
        \E w \in Int : c[j].seq - c[i].seq = (j - i) - w * H264SeqMod

(* An access unit, under assembly or closed, as the capture c carries it. *)
UnitSound(c, u) ==
    /\ u.packets \in Seq(DOMAIN c) /\ OneInstant(c, u)
    /\ \A n \in DOMAIN u.packets : /\ c[u.packets[n]].type = H264Type
                                   /\ c[u.packets[n]].marker => u.marked
    /\ \A nal \in ToSet(u.nals) : WhollyFrom(c, u, nal)

Ahead(u, v) == \A i \in ToSet(u.packets), j \in ToSet(v.packets) : i < j

(* The closed units and the open one share out the packets read. *)
Assembled(c, closed, open) ==
    /\ UnitSound(c, open)
    /\ \A m \in DOMAIN closed : /\ UnitSound(c, closed[m]) /\ closed[m].packets # <<>>
                                /\ Ahead(closed[m], open)
    /\ \A i \in DOMAIN c : c[i].type = H264Type =>
          \/ i \in ToSet(open.packets)
          \/ \E m \in DOMAIN closed : i \in ToSet(closed[m].packets)
    /\ \A m, n \in DOMAIN closed : m < n => Ahead(closed[m], closed[n])
    /\ \A m \in DOMAIN closed :
          closed[m].ts # IF m = Len(closed) THEN open.ts ELSE closed[m + 1].ts

(* The open chain: its packets are those of the stream since its start. *)
ChainSound(c, open, chain) ==
    /\ chain \in Seq(DOMAIN c)
    /\ chain # NoChain =>
          /\ ToSet(chain) \subseteq ToSet(open.packets) /\ c[chain[1]].form = "start"
          /\ \A n \in DOMAIN chain : c[chain[n]].nals = c[chain[1]].nals
          /\ \A i \in chain[1]..Len(c) : c[i].type = H264Type => i \in ToSet(chain)
          /\ \A n \in 1..(Len(chain) - 1) : \E w \in 0..Len(c) :
                chain[n + 1] = chain[n] + 1 + w * H264SeqMod

OneSPS(u) == \A i \in DOMAIN u.nals : u.nals[i].kind # "SPS2"

AvcInv ==
    /\ avcInitial \in BOOLEAN /\ avcCapture \in Seq(H264Packets)
    /\ avcUnit \in AccessUnit /\ avcUnits \in Seq(AccessUnit)
    /\ NoGap(avcCapture) /\ Numbered(avcCapture)
    /\ Assembled(avcCapture, avcUnits, avcUnit) /\ ChainSound(avcCapture, avcUnit, avcChain)
    /\ avcUnit = NoUnit \/ avcUnit.packets # <<>>
    /\ avcVerdict = "reading" /\ avcUnit = NoUnit => avcUnits = <<>>
    /\ avcInitial => \A m \in DOMAIN avcUnits : OneSPS(avcUnits[m])
    /\ avcVerdict = "rebuilt" => avcUnit = NoUnit /\ Decodable(avcUnits)

(* One more packet. *)
LEMMA CaptureGrown ==
    ASSUME NEW c \in Seq(H264Packets), NEW p \in H264Packets
    PROVE  /\ Append(c, p) \in Seq(H264Packets)
           /\ Len(c) \in Nat /\ DOMAIN c = 1..Len(c) /\ Len(Append(c, p)) = Len(c) + 1
           /\ DOMAIN Append(c, p) = 1..(Len(c) + 1) /\ Append(c, p)[Len(c) + 1] = p
           /\ \A i \in 1..Len(c) : Append(c, p)[i] = c[i] /\ c[i] \in H264Packets
<1>1. Len(c) \in Nat /\ DOMAIN c = 1..Len(c) /\ \A i \in 1..Len(c) : c[i] \in H264Packets
  BY LenProperties, ElementOfSeq
<1>2. QED
  BY <1>1, AppendProperties

(* The number after a number. *)
LEMMA NextNumber ==
    ASSUME NEW a \in 0..(H264SeqMod - 1)
    PROVE  /\ H264SeqMod \in Nat \ {0}
           /\ \/ a + 1 < H264SeqMod /\ (a + 1) % H264SeqMod = a + 1
              \/ a + 1 = H264SeqMod /\ (a + 1) % H264SeqMod = 0
<1>1. H264SeqMod \in Nat \ {0}
  BY H264Windows
<1>2. CASE a + 1 < H264SeqMod
  BY <1>1, <1>2
<1>3. CASE a + 1 = H264SeqMod
  BY <1>1, <1>3
<1>4. QED
  BY <1>1, <1>2, <1>3

(* Numbers keep counting positions. *)
LEMMA NumberedMore ==
    ASSUME NEW c \in Seq(H264Packets), NEW p \in H264Packets, Numbered(c),
           c # <<>> => p.seq = (Last(c).seq + 1) % H264SeqMod
    PROVE  Numbered(Append(c, p))
<1> DEFINE z == Append(c, p)
           L == Len(c)
           M == H264SeqMod
<1>1. /\ L \in Nat /\ DOMAIN c = 1..L /\ DOMAIN z = 1..(L + 1) /\ z[L + 1] = p
      /\ \A i \in 1..L : z[i] = c[i] /\ c[i] \in H264Packets
  BY CaptureGrown
<1> HIDE DEF z, L
<1>2. M \in Nat \ {0}
  BY H264Windows
<1>3. \A i \in 1..L : c[i].seq \in 0..(M - 1)
  <2> TAKE i \in 1..L
  <2>1. c[i] \in H264Packets
    BY <1>1
  <2>2. QED
    BY <2>1, H264Windows
<1>13. p.seq \in 0..(M - 1)
  BY H264Windows
<1> HIDE DEF M
<1> SUFFICES ASSUME NEW i \in 1..(L + 1), NEW j \in 1..(L + 1), i <= j
             PROVE  \E w \in Int : z[j].seq - z[i].seq = (j - i) - w * M
  BY <1>1 DEF Numbered, z, M
<1>4. CASE i = j
  <2>1. z[i].seq \in Int
    <3>1. CASE i \in 1..L
      BY <1>1, <1>2, <1>3, <3>1
    <3>2. CASE i = L + 1
      BY <1>1, <1>2, <1>13, <3>2
    <3>3. QED
      BY <1>1, <3>1, <3>2
  <2>2. z[j].seq - z[i].seq = (j - i) - 0 * M
    BY <1>2, <1>4, <2>1
  <2>3. QED
    BY <2>2
<1>5. CASE j \in 1..L
  <2>1. i \in 1..L
    BY <1>1, <1>5
  <2>2. QED
    BY <1>1, <1>5, <2>1 DEF Numbered, M
<1>6. CASE i # j /\ j = L + 1
  <2>1. i \in 1..L /\ L \in 1..L /\ i <= L
    BY <1>1, <1>6
  <2>2. PICK w \in Int : c[L].seq - c[i].seq = (L - i) - w * M
    BY <1>1, <2>1 DEF Numbered, M
  <2>3. p.seq = (c[L].seq + 1) % M
    BY <1>1, <2>1, EmptySeq DEF Last, L, M
  <2>4. c[L].seq \in 0..(M - 1) /\ c[i].seq \in 0..(M - 1)
    BY <1>3, <2>1
  <2>5. \/ p.seq = c[L].seq + 1
        \/ c[L].seq + 1 = M /\ p.seq = 0
    BY <2>3, <2>4, NextNumber DEF M
  <2>6. w * M \in Int /\ (w + 1) * M = w * M + M
    BY <1>2
  <2>7. CASE p.seq = c[L].seq + 1
    <3>1. z[j].seq = c[L].seq + 1 /\ z[i].seq = c[i].seq /\ j = L + 1
      BY <1>1, <1>6, <2>1, <2>7
    <3>2. L \in Int /\ c[L].seq \in Int /\ c[i].seq \in Int /\ i \in Int
      <4>1. L \in Nat
        BY <1>1
      <4>2. c[L].seq \in Int /\ c[i].seq \in Int
        BY <1>2, <2>4
      <4>3. QED
        BY <4>1, <4>2
    <3> DEFINE x == w * M
    <3>3. x \in Int /\ c[L].seq - c[i].seq = (L - i) - x
      BY <2>2, <2>6
    <3> DEFINE a  == c[L].seq
               b  == c[i].seq
               a2 == z[j].seq
               b2 == z[i].seq
    <3>4. /\ a \in Int /\ b \in Int /\ x \in Int /\ L \in Int /\ i \in Int
          /\ a - b = (L - i) - x /\ a2 = a + 1 /\ b2 = b /\ j = L + 1
      BY <3>1, <3>2, <3>3
    <3> HIDE DEF z, x, a, b, a2, b2, L
    <3>5. a2 - b2 = (j - i) - x
      BY <3>4
    <3>6. QED
      BY <3>5 DEF x, a2, b2
  <2>8. CASE c[L].seq + 1 = M /\ p.seq = 0
    <3>1. z[j].seq - z[i].seq = (j - i) - (w + 1) * M
      BY <1>1, <1>2, <1>6, <2>1, <2>2, <2>4, <2>6, <2>8
    <3>2. QED
      BY <3>1
  <2>9. QED
    BY <2>5, <2>7, <2>8
<1>7. QED
  BY <1>1, <1>4, <1>5, <1>6

(* A packet that has the next number of an earlier one and of the last one   *)
(* comes right after it, or whole wraps later.                              *)
LEMMA LinkStep ==
    ASSUME NEW c \in Seq(H264Packets), NEW l \in DOMAIN c, Numbered(c), NEW q,
           q = (c[l].seq + 1) % H264SeqMod, q = (Last(c).seq + 1) % H264SeqMod
    PROVE  \E w \in 0..(Len(c) + 1) : Len(c) + 1 = l + 1 + w * H264SeqMod
<1> DEFINE L == Len(c)
           M == H264SeqMod
<1>1. /\ L \in Nat /\ DOMAIN c = 1..L /\ l \in 1..L /\ L \in 1..L /\ l <= L
      /\ \A i \in 1..L : c[i] \in H264Packets
  BY LenProperties, ElementOfSeq
<1>2. M \in Nat \ {0} /\ c[l].seq \in 0..(M - 1) /\ c[L].seq \in 0..(M - 1)
  <2>1. c[l] \in H264Packets /\ c[L] \in H264Packets
    BY <1>1
  <2>2. QED
    BY <2>1, H264Windows
<1>3. q = (c[L].seq + 1) % M
  BY DEF Last
<1>4. c[l].seq = c[L].seq
  <2> DEFINE a == c[l].seq
             b == c[L].seq
  <2>1. \/ a + 1 < M /\ q = a + 1
        \/ a + 1 = M /\ q = 0
    BY <1>2, NextNumber
  <2>2. \/ b + 1 < M /\ q = b + 1
        \/ b + 1 = M /\ q = 0
    BY <1>2, <1>3, NextNumber
  <2>3. a \in 0..(M - 1) /\ b \in 0..(M - 1)
    BY <1>2
  <2> HIDE DEF a, b, M
  <2>4. M \in Nat
    BY <1>2 DEF M
  <2>5. a = b
    BY <2>1, <2>2, <2>3, <2>4
  <2>6. QED
    BY <2>5 DEF a, b
<1>5. PICK w \in Int : c[L].seq - c[l].seq = (L - l) - w * M
  BY <1>1 DEF Numbered
<1>6. w * M \in Int /\ w * M = L - l
  BY <1>1, <1>2, <1>4, <1>5
<1>7. w >= 0
  <2> SUFFICES ASSUME w <= -1 PROVE FALSE
    OBVIOUS
  <2> DEFINE v == -1 - w
  <2>1. v \in Nat /\ v * M \in Nat
    BY <1>2
  <2>2. w * M = -M - v * M
    BY <1>2
  <2> DEFINE x == w * M
             y == v * M
  <2>3. x = -M - y /\ x = L - l /\ y \in Nat /\ M \in Nat \ {0} /\ L - l \in Nat
    BY <1>1, <1>2, <1>6, <2>1, <2>2
  <2> HIDE DEF x, y
  <2>4. QED
    BY <2>3
<1>8. w <= w * M
  BY <1>2, <1>7
<1>9. w \in 0..(L + 1) /\ L + 1 = l + 1 + w * M
  BY <1>1, <1>6, <1>7, <1>8
<1>10. QED
  BY <1>9

(* A NAL unit stays whole while the capture and its access unit grow. *)
LEMMA NalStays ==
    ASSUME NEW c \in Seq(H264Packets), NEW p \in H264Packets, NEW u, NEW v, NEW nal \in AvcNal,
           u.packets \in Seq(DOMAIN c), ToSet(u.packets) \subseteq ToSet(v.packets),
           WhollyFrom(c, u, nal)
    PROVE  WhollyFrom(Append(c, p), v, nal)
<1> DEFINE z == Append(c, p)
           L == Len(c)
           f == nal.from
<1>1. /\ L \in Nat /\ DOMAIN c = 1..L /\ Len(z) = L + 1 /\ \A i \in 1..L : z[i] = c[i]
  BY CaptureGrown
<1> HIDE DEF z
<1>2. \A i \in ToSet(u.packets) : i \in 1..L
  BY <1>1, ElementOfSeq, LenProperties DEF ToSet
<1>3. f \in Seq(Nat) /\ f # <<>> /\ ToSet(f) \subseteq ToSet(u.packets)
  BY DEF WhollyFrom, AvcNal
<1>4. /\ Len(f) \in Nat /\ DOMAIN f = 1..Len(f) /\ Len(f) \in DOMAIN f /\ 1 \in DOMAIN f
      /\ Last(f) = f[Len(f)]
  BY <1>3, LenProperties, EmptySeq DEF Last
<1>5. \A i \in ToSet(f) : i \in 1..L /\ z[i] = c[i]
  BY <1>1, <1>2, <1>3
<1>6. f[1] \in ToSet(f) /\ Last(f) \in ToSet(f)
  BY <1>4 DEF ToSet
<1>7. f[1] \in 1..L /\ Last(f) \in 1..L /\ z[f[1]] = c[f[1]] /\ z[Last(f)] = c[Last(f)]
  BY <1>5, <1>6
<1>8. \A i \in f[1]..Last(f) : z[i] = c[i]
  BY <1>1, <1>7
<1>9. \A i \in ToSet(f) : nal.kind \in ToSet(z[i].nals)
  BY <1>5 DEF WhollyFrom
<1>10. ASSUME Len(f) > 1
       PROVE  /\ z[f[1]].form = "start" /\ z[Last(f)].form = "end"
              /\ \A i \in f[1]..Last(f) : z[i].type = H264Type => i \in ToSet(f)
              /\ \A n \in 1..(Len(f) - 1) : \E w \in 0..Len(z) :
                    f[n + 1] = f[n] + 1 + w * H264SeqMod
  <2>1. /\ c[f[1]].form = "start" /\ c[Last(f)].form = "end"
        /\ \A i \in f[1]..Last(f) : c[i].type = H264Type => i \in ToSet(f)
        /\ \A n \in 1..(Len(f) - 1) : \E w \in 0..L : f[n + 1] = f[n] + 1 + w * H264SeqMod
    BY <1>10 DEF WhollyFrom
  <2>2. 0..L \subseteq 0..Len(z)
    BY <1>1
  <2> HIDE DEF f, L
  <2>3. \A n \in 1..(Len(f) - 1) : \E w \in 0..Len(z) : f[n + 1] = f[n] + 1 + w * H264SeqMod
    BY <2>1, <2>2
  <2>4. QED
    BY <2>1, <2>3, <1>7, <1>8
<1>11. ToSet(f) \subseteq ToSet(v.packets)
  BY <1>3
<1>12. QED
  BY <1>3, <1>9, <1>10, <1>11 DEF WhollyFrom, z

(* A finished access unit does not change. *)
LEMMA UnitStays ==
    ASSUME NEW c \in Seq(H264Packets), NEW p \in H264Packets, NEW u \in AccessUnit, UnitSound(c, u)
    PROVE  UnitSound(Append(c, p), u)
<1> DEFINE z == Append(c, p)
           L == Len(c)
<1>1. /\ L \in Nat /\ DOMAIN c = 1..L /\ DOMAIN z = 1..(L + 1) /\ \A i \in 1..L : z[i] = c[i]
  BY CaptureGrown
<1>2. u.packets \in Seq(DOMAIN c) /\ u.nals \in Seq(AvcNal)
  BY DEF UnitSound, AccessUnit
<1>3. \A nal \in ToSet(u.nals) : nal \in AvcNal
  BY <1>2, ElementOfSeq, LenProperties DEF ToSet
<1>4. \A nal \in ToSet(u.nals) : WhollyFrom(z, u, nal)
  BY <1>2, <1>3, NalStays DEF UnitSound
<1> HIDE DEF z
<1>5. /\ \A n \in DOMAIN u.packets : u.packets[n] \in 1..L /\ z[u.packets[n]] = c[u.packets[n]]
  BY <1>1, <1>2, ElementOfSeq, LenProperties
<1>6. u.packets \in Seq(DOMAIN z)
  <2>1. DOMAIN c \subseteq DOMAIN z
    BY <1>1
  <2>2. QED
    BY <1>2, <2>1
<1>7. OneInstant(z, u)
  BY <1>5 DEF UnitSound, OneInstant
<1>8. QED
  BY <1>4, <1>5, <1>6, <1>7 DEF UnitSound, z

(* The unit that takes a packet: its positions still rise, under one         *)
(* timestamp, and no packet before the new one has the marker.               *)
LEMMA UnitGrows ==
    ASSUME NEW c \in Seq(H264Packets), NEW p \in H264Packets, NEW u \in AccessUnit,
           NEW v, NEW nals \in Seq(AvcNal),
           UnitSound(c, u), u.ts = p.ts, ~u.marked, p.type = H264Type,
           v = [ts |-> p.ts, packets |-> Append(u.packets, Len(c) + 1), nals |-> u.nals \o nals,
                marked |-> p.marker],
           \A nal \in ToSet(nals) : WhollyFrom(Append(c, p), v, nal)
    PROVE  v \in AccessUnit /\ UnitSound(Append(c, p), v)
<1> DEFINE z  == Append(c, p)
           L  == Len(c)
           k  == u.packets
           k2 == Append(k, L + 1)
           K  == Len(k)
<1>1. /\ L \in Nat /\ DOMAIN c = 1..L /\ DOMAIN z = 1..(L + 1) /\ z[L + 1] = p
      /\ \A i \in 1..L : z[i] = c[i]
  BY CaptureGrown
<1>2. k \in Seq(DOMAIN c) /\ u.nals \in Seq(AvcNal) /\ u.nals \o nals \in Seq(AvcNal)
  BY DEF UnitSound, AccessUnit
<1>3. v.ts = p.ts /\ v.packets = k2 /\ v.nals = u.nals \o nals /\ v.marked = p.marker
  OBVIOUS
<1>4. k \in Seq(DOMAIN z) /\ k \in Seq(Nat)
  <2>1. DOMAIN c \subseteq DOMAIN z /\ DOMAIN c \subseteq Nat
    BY <1>1
  <2>2. QED
    BY <1>2, <2>1
<1>5. k2 \in Seq(DOMAIN z) /\ k2 \in Seq(Nat)
  BY <1>1, <1>4, AppendProperties
<1>6. /\ K \in Nat /\ DOMAIN k = 1..K /\ DOMAIN k2 = 1..(K + 1) /\ Len(k2) = K + 1
      /\ k2[K + 1] = L + 1 /\ \A n \in 1..K : k2[n] = k[n] /\ k[n] \in 1..L
  BY <1>1, <1>2, AppendProperties, LenProperties, ElementOfSeq, SMTT(30)
<1>7. p.ts \in Int /\ p.marker \in BOOLEAN
  BY H264Windows
<1>8. v \in AccessUnit
  BY <1>2, <1>5, <1>7 DEF AccessUnit
<1>9. ToSet(k) \subseteq ToSet(v.packets)
  BY <1>3, <1>6 DEF ToSet
<1>10. \A nal \in ToSet(v.nals) : WhollyFrom(z, v, nal)
  <2>1. \A nal \in ToSet(u.nals) : nal \in AvcNal
    BY <1>2, ElementOfSeq, LenProperties DEF ToSet
  <2>2. \A nal \in ToSet(u.nals) : WhollyFrom(z, v, nal)
    BY <2>1, <1>2, <1>9, NalStays DEF UnitSound
  <2>3. ToSet(v.nals) \subseteq ToSet(u.nals) \cup ToSet(nals)
    <3>1. /\ DOMAIN v.nals = 1..(Len(u.nals) + Len(nals))
          /\ \A n \in 1..(Len(u.nals) + Len(nals)) :
                v.nals[n] = IF n <= Len(u.nals) THEN u.nals[n] ELSE nals[n - Len(u.nals)]
          /\ DOMAIN u.nals = 1..Len(u.nals) /\ DOMAIN nals = 1..Len(nals)
          /\ Len(u.nals) \in Nat /\ Len(nals) \in Nat
      BY <1>2, <1>3, ConcatProperties, LenProperties
    <3>2. QED
      BY <3>1, SMTT(30) DEF ToSet
  <2>4. QED
    BY <2>2, <2>3
<1> HIDE DEF z, k, k2, K, L
<1>11. \A n \in 1..K : /\ z[k[n]] = c[k[n]] /\ c[k[n]].ts = p.ts /\ c[k[n]].type = H264Type
                       /\ ~c[k[n]].marker /\ \A m \in 1..(n - 1) : k[m] < k[n]
  <2> TAKE n \in 1..K
  <2>1. c[k[n]].ts = u.ts /\ c[k[n]].type = H264Type /\ (c[k[n]].marker => u.marked)
        /\ \A m \in 1..(n - 1) : k[m] < k[n]
    BY <1>6 DEF UnitSound, OneInstant, k
  <2>2. QED
    BY <2>1, <1>1, <1>6
<1>12. \A n \in 1..(K + 1) :
          /\ z[k2[n]].ts = p.ts /\ z[k2[n]].type = H264Type
          /\ z[k2[n]].marker => n = K + 1 /\ p.marker
          /\ \A m \in 1..(n - 1) : k2[m] < k2[n]
  <2> TAKE n \in 1..(K + 1)
  <2>1. CASE n \in 1..K
    BY <1>1, <1>6, <1>11, <2>1
  <2>2. CASE n = K + 1
    BY <1>1, <1>6, <2>2
  <2>3. QED
    BY <1>6, <2>1, <2>2
<1>13. OneInstant(z, v)
  BY <1>3, <1>6, <1>12 DEF OneInstant
<1>14. UnitSound(z, v)
  BY <1>3, <1>5, <1>6, <1>10, <1>12, <1>13 DEF UnitSound
<1>15. QED
  BY <1>8, <1>14 DEF z

(* A new access unit, and the one a packet of the open unit leaves. *)
NewUnit(t) == [ts |-> t, packets |-> <<>>, nals |-> <<>>, marked |-> FALSE]
Taken(u, i, nals, marker) ==
    [ts |-> u.ts, packets |-> Append(u.packets, i), nals |-> u.nals \o nals, marked |-> marker]

(* Nothing is wrong with an access unit that has no packet yet. *)
LEMMA NothingTaken ==
    ASSUME NEW c \in Seq(H264Packets), NEW t \in Int
    PROVE  /\ NewUnit(t) \in AccessUnit /\ UnitSound(c, NewUnit(t))
           /\ NewUnit(t).ts = t /\ NewUnit(t).packets = <<>> /\ ~NewUnit(t).marked
           /\ NewUnit(t).nals = <<>>
<1>1. /\ NewUnit(t).ts = t /\ NewUnit(t).packets = <<>> /\ NewUnit(t).marked = FALSE
      /\ NewUnit(t).nals = <<>>
  BY DEF NewUnit
<1>2. NewUnit(t) \in AccessUnit
  <2>1. <<>> \in Seq(Nat) /\ <<>> \in Seq(AvcNal)
    BY EmptySeq
  <2>2. QED
    BY <2>1 DEF AccessUnit, NewUnit
<1>3. <<>> \in Seq(DOMAIN c) /\ DOMAIN <<>> = {}
  BY EmptySeq
<1> DEFINE u == NewUnit(t)
<1> HIDE DEF u
<1>4. DOMAIN u.packets = {} /\ ToSet(u.nals) = {} /\ u.packets \in Seq(DOMAIN c)
  BY <1>1, <1>3 DEF ToSet, u
<1>5. UnitSound(c, u)
  BY <1>4 DEF UnitSound, OneInstant
<1>6. QED
  BY <1>1, <1>2, <1>5 DEF u

(* The first unit of a capture opens. *)
LEMMA OpenUnit ==
    ASSUME NEW c \in Seq(H264Packets), NEW closed, NEW open, NEW t \in Int,
           Assembled(c, closed, open), open.packets = <<>>, closed = <<>>
    PROVE  Assembled(c, closed, NewUnit(t))
<1> DEFINE u == NewUnit(t)
<1>1. UnitSound(c, u) /\ u.packets = <<>>
  BY NothingTaken
<1>2. DOMAIN closed = {}
  BY EmptySeq
<1> HIDE DEF u
<1>3. QED
  BY <1>1, <1>2 DEF Assembled, u

(* The open unit is closed with its packets and another one opens. *)
LEMMA CloseUnit ==
    ASSUME NEW c \in Seq(H264Packets), NEW closed \in Seq(AccessUnit), NEW open \in AccessUnit,
           NEW t \in Int,
           Assembled(c, closed, open), open.packets # <<>>, open.ts # t
    PROVE  Assembled(c, Append(closed, open), NewUnit(t))
<1> DEFINE z == Append(closed, open)
           u == NewUnit(t)
           N == Len(closed)
<1>1. UnitSound(c, u) /\ u.packets = <<>> /\ u.ts = t
  BY NothingTaken
<1>2. /\ N \in Nat /\ DOMAIN closed = 1..N /\ Len(z) = N + 1 /\ DOMAIN z = 1..(N + 1)
      /\ z[N + 1] = open /\ \A m \in 1..N : z[m] = closed[m]
  BY AppendProperties, LenProperties
<1>3. ToSet(u.packets) = {}
  BY <1>1, EmptySeq DEF ToSet
<1> HIDE DEF z, u, N
<1>4. \A m \in 1..(N + 1) : UnitSound(c, z[m]) /\ z[m].packets # <<>> /\ Ahead(z[m], u)
  <2> TAKE m \in 1..(N + 1)
  <2>1. Ahead(z[m], u)
    BY <1>3 DEF Ahead
  <2>2. CASE m \in 1..N
    BY <1>2, <2>1, <2>2 DEF Assembled
  <2>3. CASE m = N + 1
    BY <1>2, <2>1, <2>3 DEF Assembled
  <2>4. QED
    BY <1>2, <2>2, <2>3
<1>5. \A i \in DOMAIN c : c[i].type = H264Type => \E m \in 1..(N + 1) : i \in ToSet(z[m].packets)
  <2> SUFFICES ASSUME NEW i \in DOMAIN c, c[i].type = H264Type
               PROVE  \E m \in 1..(N + 1) : i \in ToSet(z[m].packets)
    OBVIOUS
  <2>1. CASE i \in ToSet(open.packets)
    <3>1. N + 1 \in 1..(N + 1)
      BY <1>2
    <3>2. QED
      BY <1>2, <2>1, <3>1
  <2>2. CASE \E m \in DOMAIN closed : i \in ToSet(closed[m].packets)
    <3>1. PICK m \in 1..N : i \in ToSet(closed[m].packets)
      BY <1>2, <2>2
    <3>2. m \in 1..(N + 1) /\ z[m] = closed[m]
      BY <1>2, <3>1
    <3>3. QED
      BY <3>1, <3>2
  <2>3. QED
    BY <2>1, <2>2 DEF Assembled
<1>6. \A m, n \in 1..(N + 1) : m < n => Ahead(z[m], z[n])
  <2> SUFFICES ASSUME NEW m \in 1..(N + 1), NEW n \in 1..(N + 1), m < n
               PROVE  Ahead(z[m], z[n])
    OBVIOUS
  <2>1. m \in 1..N /\ z[m] = closed[m]
    BY <1>2
  <2>2. CASE n \in 1..N
    BY <1>2, <2>1, <2>2 DEF Assembled
  <2>3. CASE n = N + 1
    BY <1>2, <2>1, <2>3 DEF Assembled
  <2>4. QED
    BY <1>2, <2>2, <2>3
<1>7. \A m \in 1..(N + 1) : z[m].ts # IF m = N + 1 THEN u.ts ELSE z[m + 1].ts
  <2> TAKE m \in 1..(N + 1)
  <2>1. CASE m = N + 1
    BY <1>1, <1>2, <2>1
  <2>2. CASE m = N /\ m \in 1..N
    <3>1. closed[m].ts # open.ts
      BY <1>2, <2>2 DEF Assembled, N
    <3>2. z[m] = closed[m] /\ z[m + 1] = open /\ m # N + 1
      BY <1>2, <2>2, SMTT(30)
    <3>3. QED
      BY <3>1, <3>2
  <2>3. CASE m \in 1..(N - 1)
    <3>1. m \in 1..N /\ m + 1 \in 1..N /\ m # N /\ m # N + 1
      BY <1>2, <2>3, SMTT(30)
    <3>2. closed[m].ts # closed[m + 1].ts
      BY <1>2, <3>1 DEF Assembled, N
    <3>3. QED
      BY <1>2, <3>1, <3>2, SMTT(30)
  <2>4. QED
    BY <1>2, <2>1, <2>2, <2>3
<1>8. Assembled(c, z, u)
  BY <1>1, <1>2, <1>4, <1>5, <1>6, <1>7 DEF Assembled
<1>9. QED
  BY <1>8 DEF z, u

(* A packet of another payload type is in no unit. *)
LEMMA OtherType ==
    ASSUME NEW c \in Seq(H264Packets), NEW p \in H264Packets, NEW closed \in Seq(AccessUnit),
           NEW open \in AccessUnit, Assembled(c, closed, open), p.type # H264Type
    PROVE  Assembled(Append(c, p), closed, open)
<1> DEFINE z == Append(c, p)
           L == Len(c)
<1>1. /\ L \in Nat /\ DOMAIN c = 1..L /\ DOMAIN z = 1..(L + 1) /\ z[L + 1] = p
      /\ \A i \in 1..L : z[i] = c[i]
  BY CaptureGrown
<1>2. UnitSound(z, open)
  BY UnitStays DEF Assembled
<1>3. \A m \in DOMAIN closed : UnitSound(z, closed[m])
  <2> TAKE m \in DOMAIN closed
  <2>1. closed[m] \in AccessUnit
    BY ElementOfSeq, LenProperties
  <2>2. QED
    BY <2>1, UnitStays DEF Assembled
<1> HIDE DEF z
<1>4. \A i \in DOMAIN z : z[i].type = H264Type => i \in DOMAIN c /\ c[i].type = H264Type
  BY <1>1
<1>5. Assembled(z, closed, open)
  BY <1>2, <1>3, <1>4 DEF Assembled
<1>6. QED
  BY <1>5 DEF z

(* The open unit takes a packet of the declared type. *)
LEMMA UnitTakes ==
    ASSUME NEW c \in Seq(H264Packets), NEW p \in H264Packets, NEW closed \in Seq(AccessUnit),
           NEW u \in AccessUnit, NEW nals \in Seq(AvcNal), NEW v,
           Assembled(c, closed, u), u.ts = p.ts, ~u.marked, p.type = H264Type,
           v = Taken(u, Len(c) + 1, nals, p.marker),
           \A nal \in ToSet(nals) : WhollyFrom(Append(c, p), v, nal)
    PROVE  v \in AccessUnit /\ v.packets # <<>> /\ Assembled(Append(c, p), closed, v)
<1> DEFINE z == Append(c, p)
           L == Len(c)
<1>1. /\ L \in Nat /\ DOMAIN c = 1..L /\ DOMAIN z = 1..(L + 1) /\ z[L + 1] = p
      /\ \A i \in 1..L : z[i] = c[i]
  BY CaptureGrown
<1>2. /\ UnitSound(c, u) /\ v.ts = u.ts /\ v.packets = Append(u.packets, L + 1)
      /\ v = [ts |-> p.ts, packets |-> Append(u.packets, L + 1), nals |-> u.nals \o nals,
              marked |-> p.marker]
  BY DEF Assembled, Taken
<1>3. v \in AccessUnit /\ UnitSound(z, v)
  BY <1>2, UnitGrows
<1>4. u.packets \in Seq(1..L)
  BY <1>1, <1>2 DEF UnitSound
<1>5. ToSet(v.packets) = ToSet(u.packets) \cup {L + 1} /\ v.packets # <<>>
  <2>1. u.packets \in Seq(Nat) /\ L + 1 \in Nat
    BY <1>1 DEF AccessUnit
  <2> DEFINE k2 == Append(u.packets, L + 1)
  <2>2. ToSet(k2) = ToSet(u.packets) \cup {L + 1} /\ k2 # <<>>
    BY <2>1, AppendedSet
  <2> HIDE DEF k2
  <2>3. QED
    BY <1>2, <2>2 DEF k2
<1>6. \A m \in DOMAIN closed : /\ UnitSound(z, closed[m])
                               /\ \A i \in ToSet(closed[m].packets) : i \in 1..L
  <2> TAKE m \in DOMAIN closed
  <2>1. closed[m] \in AccessUnit
    BY ElementOfSeq, LenProperties
  <2>2. UnitSound(c, closed[m])
    BY DEF Assembled
  <2>3. closed[m].packets \in Seq(1..L)
    BY <1>1, <2>2 DEF UnitSound
  <2>4. \A i \in ToSet(closed[m].packets) : i \in 1..L
    BY <2>3, ElementOfSeq, LenProperties DEF ToSet
  <2>5. QED
    BY <2>1, <2>2, <2>4, UnitStays
<1> HIDE DEF z, L
<1>7. \A m \in DOMAIN closed : Ahead(closed[m], v)
  <2> SUFFICES ASSUME NEW m \in DOMAIN closed, NEW i \in ToSet(closed[m].packets),
                      NEW j \in ToSet(v.packets)
               PROVE  i < j
    BY DEF Ahead
  <2>1. Ahead(closed[m], u) /\ i \in 1..L
    BY <1>6 DEF Assembled
  <2>2. CASE j \in ToSet(u.packets)
    BY <2>1, <2>2 DEF Ahead
  <2>3. CASE j = L + 1
    BY <1>1, <2>1, <2>3
  <2>4. QED
    BY <1>5, <2>2, <2>3
<1>8. \A i \in DOMAIN z : z[i].type = H264Type =>
          \/ i \in ToSet(v.packets)
          \/ \E m \in DOMAIN closed : i \in ToSet(closed[m].packets)
  <2> SUFFICES ASSUME NEW i \in DOMAIN z, z[i].type = H264Type, i \notin ToSet(v.packets)
               PROVE  \E m \in DOMAIN closed : i \in ToSet(closed[m].packets)
    OBVIOUS
  <2>1. i \in DOMAIN c /\ z[i] = c[i] /\ i \notin ToSet(u.packets)
    BY <1>1, <1>5
  <2>2. QED
    BY <2>1 DEF Assembled
<1>9. /\ \A m \in DOMAIN closed : closed[m].packets # <<>>
      /\ \A m, n \in DOMAIN closed : m < n => Ahead(closed[m], closed[n])
      /\ \A m \in DOMAIN closed :
            closed[m].ts # IF m = Len(closed) THEN v.ts ELSE closed[m + 1].ts
  BY <1>2 DEF Assembled
<1>10. Assembled(z, closed, v)
  BY <1>3, <1>6, <1>7, <1>8, <1>9 DEF Assembled
<1>11. QED
  BY <1>3, <1>5, <1>10 DEF z

(* The chain while packets of another payload type pass. *)
LEMMA ChainSkips ==
    ASSUME NEW c \in Seq(H264Packets), NEW p \in H264Packets, NEW u, NEW chain,
           ChainSound(c, u, chain), p.type # H264Type
    PROVE  ChainSound(Append(c, p), u, chain)
<1> DEFINE z == Append(c, p)
           L == Len(c)
<1>1. /\ L \in Nat /\ DOMAIN c = 1..L /\ Len(z) = L + 1 /\ DOMAIN z = 1..(L + 1)
      /\ z[L + 1] = p /\ \A i \in 1..L : z[i] = c[i]
  BY CaptureGrown
<1> HIDE DEF z
<1>2. chain \in Seq(1..L) /\ chain \in Seq(DOMAIN z)
  <2>1. 1..L \subseteq DOMAIN z /\ chain \in Seq(1..L)
    BY <1>1 DEF ChainSound
  <2>2. QED
    BY <2>1
<1>3. ASSUME chain # NoChain
      PROVE  /\ ToSet(chain) \subseteq ToSet(u.packets) /\ z[chain[1]].form = "start"
             /\ \A n \in DOMAIN chain : z[chain[n]].nals = z[chain[1]].nals
             /\ \A i \in chain[1]..Len(z) : z[i].type = H264Type => i \in ToSet(chain)
             /\ \A n \in 1..(Len(chain) - 1) : \E w \in 0..Len(z) :
                   chain[n + 1] = chain[n] + 1 + w * H264SeqMod
  <2>1. /\ ToSet(chain) \subseteq ToSet(u.packets) /\ c[chain[1]].form = "start"
        /\ \A n \in DOMAIN chain : c[chain[n]].nals = c[chain[1]].nals
        /\ \A i \in chain[1]..L : c[i].type = H264Type => i \in ToSet(chain)
        /\ \A n \in 1..(Len(chain) - 1) : \E w \in 0..L :
              chain[n + 1] = chain[n] + 1 + w * H264SeqMod
    BY <1>3 DEF ChainSound
  <2>2. 1 \in DOMAIN chain /\ \A n \in DOMAIN chain : chain[n] \in 1..L
    BY <1>2, <1>3, ElementOfSeq, LenProperties, EmptySeq DEF NoChain
  <2>3. \A n \in DOMAIN chain : z[chain[n]] = c[chain[n]]
    BY <1>1, <2>2
  <2>4. \A i \in chain[1]..Len(z) : z[i].type = H264Type =>
            i \in chain[1]..L /\ c[i].type = H264Type
    BY <1>1, <2>2
  <2>5. 0..L \subseteq 0..Len(z)
    BY <1>1
  <2>6. \A n \in 1..(Len(chain) - 1) : \E w \in 0..Len(z) :
              chain[n + 1] = chain[n] + 1 + w * H264SeqMod
    BY <2>1, <2>5
  <2>7. QED
    BY <2>1, <2>2, <2>3, <2>4, <2>6
<1>4. ChainSound(z, u, chain)
  BY <1>2, <1>3 DEF ChainSound
<1>5. QED
  BY <1>4 DEF z

(* A chain that starts. *)
LEMMA ChainStarts ==
    ASSUME NEW c \in Seq(H264Packets), NEW p \in H264Packets, NEW v,
           p.form = "start", Len(c) + 1 \in ToSet(v.packets)
    PROVE  ChainSound(Append(c, p), v, <<Len(c) + 1>>)
<1> DEFINE z == Append(c, p)
           L == Len(c)
           k == <<L + 1>>
<1>1. /\ L \in Nat /\ Len(z) = L + 1 /\ DOMAIN z = 1..(L + 1) /\ z[L + 1] = p
  BY CaptureGrown
<1>2. k \in Seq(1..(L + 1)) /\ Len(k) = 1 /\ DOMAIN k = {1} /\ k[1] = L + 1 /\ k # <<>>
  BY <1>1
<1> HIDE DEF z, L, k
<1>3. ToSet(k) = {L + 1}
  BY <1>2 DEF ToSet
<1>4. \A i \in k[1]..Len(z) : i = L + 1
  BY <1>1, <1>2
<1>5. 1..(Len(k) - 1) = {}
  BY <1>2
<1>6. ToSet(k) \subseteq ToSet(v.packets)
  BY <1>3 DEF L
<1>7. ChainSound(z, v, k)
  BY <1>1, <1>2, <1>3, <1>4, <1>5, <1>6 DEF ChainSound
<1>8. QED
  BY <1>7 DEF z, L, k

(* A chain that takes the packet with the next number. *)
LEMMA ChainLinks ==
    ASSUME NEW c \in Seq(H264Packets), NEW p \in H264Packets, NEW u, NEW v, NEW chain,
           ChainSound(c, u, chain), chain # NoChain, Numbered(c),
           p.nals = c[chain[1]].nals,
           p.seq = (c[Last(chain)].seq + 1) % H264SeqMod,
           p.seq = (Last(c).seq + 1) % H264SeqMod,
           ToSet(v.packets) = ToSet(u.packets) \cup {Len(c) + 1}
    PROVE  /\ ChainSound(Append(c, p), v, Append(chain, Len(c) + 1))
           /\ Len(Append(chain, Len(c) + 1)) > 1 /\ Append(chain, Len(c) + 1)[1] = chain[1]
           /\ Last(Append(chain, Len(c) + 1)) = Len(c) + 1
<1> DEFINE z == Append(c, p)
           L == Len(c)
           k == Append(chain, L + 1)
           K == Len(chain)
<1>1. /\ L \in Nat /\ DOMAIN c = 1..L /\ Len(z) = L + 1 /\ DOMAIN z = 1..(L + 1)
      /\ z[L + 1] = p /\ \A i \in 1..L : z[i] = c[i]
  BY CaptureGrown
<1>2. chain \in Seq(1..L)
  BY <1>1 DEF ChainSound
<1>3. chain \in Seq(DOMAIN z) /\ L + 1 \in DOMAIN z
  <2>1. 1..L \subseteq DOMAIN z /\ L + 1 \in DOMAIN z
    BY <1>1
  <2>2. QED
    BY <1>2, <2>1
<1>4. /\ K \in Nat /\ DOMAIN chain = 1..K /\ K >= 1 /\ Last(chain) = chain[K]
      /\ \A n \in 1..K : chain[n] \in 1..L
  BY <1>2, ElementOfSeq, LenProperties, EmptySeq DEF NoChain, Last
<1>5. /\ k \in Seq(DOMAIN z) /\ Len(k) = K + 1 /\ DOMAIN k = 1..(K + 1)
      /\ k[K + 1] = L + 1 /\ \A n \in 1..K : k[n] = chain[n]
  BY <1>3, <1>4, AppendProperties
<1>6. ToSet(k) = ToSet(chain) \cup {L + 1} /\ k # <<>>
  BY <1>3, AppendedSet
<1>7. PICK w \in 0..(L + 1) : L + 1 = chain[K] + 1 + w * H264SeqMod
  <2>1. chain[K] \in DOMAIN c
    BY <1>1, <1>4
  <2>2. p.seq = (c[chain[K]].seq + 1) % H264SeqMod
    BY <1>4
  <2>3. QED
    BY <2>1, <2>2, LinkStep
<1>8. /\ ToSet(chain) \subseteq ToSet(u.packets) /\ c[chain[1]].form = "start"
      /\ \A n \in DOMAIN chain : c[chain[n]].nals = c[chain[1]].nals
      /\ \A i \in chain[1]..L : c[i].type = H264Type => i \in ToSet(chain)
      /\ \A n \in 1..(K - 1) : \E x \in 0..L :
            chain[n + 1] = chain[n] + 1 + x * H264SeqMod
  BY DEF ChainSound
<1> HIDE DEF z, k, K, L
<1>9. k[1] = chain[1] /\ Last(k) = L + 1 /\ k[1] \in 1..L /\ Len(k) > 1
  BY <1>4, <1>5 DEF Last
<1>10. ToSet(k) \subseteq ToSet(v.packets)
  BY <1>6, <1>8 DEF L
<1>11. \A n \in DOMAIN k : z[k[n]].nals = z[k[1]].nals
  <2> TAKE n \in DOMAIN k
  <2>1. z[k[1]].nals = p.nals
    BY <1>1, <1>9
  <2>2. CASE n \in 1..K
    <3>1. z[k[n]] = c[chain[n]]
      BY <1>1, <1>4, <1>5, <2>2
    <3>2. QED
      BY <1>4, <1>8, <2>1, <2>2, <3>1
  <2>3. CASE n = K + 1
    BY <1>1, <1>5, <2>1, <2>3
  <2>4. QED
    BY <1>4, <1>5, <2>2, <2>3
<1>12. \A i \in k[1]..Len(z) : z[i].type = H264Type => i \in ToSet(k)
  <2> SUFFICES ASSUME NEW i \in k[1]..Len(z), z[i].type = H264Type PROVE i \in ToSet(k)
    OBVIOUS
  <2>1. CASE i = L + 1
    BY <1>6, <2>1
  <2>2. CASE i # L + 1
    <3>1. i \in chain[1]..L /\ z[i] = c[i]
      BY <1>1, <1>9, <2>2
    <3>2. QED
      BY <1>6, <1>8, <3>1
  <2>3. QED
    BY <2>1, <2>2
<1>13. \A n \in 1..(Len(k) - 1) : \E x \in 0..Len(z) : k[n + 1] = k[n] + 1 + x * H264SeqMod
  <2> TAKE n \in 1..(Len(k) - 1)
  <2>1. CASE n = K
    <3>1. k[n + 1] = k[n] + 1 + w * H264SeqMod /\ w \in 0..Len(z)
      BY <1>1, <1>4, <1>5, <1>7, <2>1
    <3>2. QED
      BY <3>1
  <2>2. CASE n \in 1..(K - 1)
    <3>1. PICK x \in 0..L : chain[n + 1] = chain[n] + 1 + x * H264SeqMod
      BY <1>8, <2>2
    <3>2. k[n + 1] = chain[n + 1] /\ k[n] = chain[n] /\ x \in 0..Len(z)
      BY <1>1, <1>4, <1>5, <2>2
    <3>3. k[n + 1] = k[n] + 1 + x * H264SeqMod
      BY <3>1, <3>2
    <3>4. QED
      BY <3>2, <3>3
  <2>3. QED
    BY <1>4, <1>5, <2>1, <2>2
<1>14. z[k[1]].form = "start"
  BY <1>1, <1>8, <1>9
<1>15. ChainSound(z, v, k)
  BY <1>5, <1>6, <1>10, <1>11, <1>12, <1>13, <1>14 DEF ChainSound
<1>16. QED
  BY <1>9, <1>15 DEF z, k, L

(* A chain that is complete carries its NAL unit whole. *)
LEMMA ChainIsWhole ==
    ASSUME NEW c \in Seq(H264Packets), NEW v, NEW k, NEW kind,
           ChainSound(c, v, k), k # NoChain, Len(k) > 1, Last(k) = Len(c),
           Last(c).form = "end", kind \in ToSet(c[k[1]].nals)
    PROVE  WhollyFrom(c, v, Whole(kind, k))
<1> DEFINE nal == Whole(kind, k)
<1>1. nal.from = k /\ nal.kind = kind
  BY DEF Whole
<1>2. k # <<>> /\ ToSet(k) \subseteq ToSet(v.packets)
  BY DEF ChainSound, NoChain
<1>3. \A i \in ToSet(k) : kind \in ToSet(c[i].nals)
  <2>1. \A n \in DOMAIN k : c[k[n]].nals = c[k[1]].nals
    BY DEF ChainSound
  <2>2. QED
    BY <2>1 DEF ToSet
<1>4. /\ c[k[1]].form = "start" /\ c[Last(k)].form = "end"
      /\ \A i \in k[1]..Last(k) : c[i].type = H264Type => i \in ToSet(k)
      /\ \A n \in 1..(Len(k) - 1) : \E w \in 0..Len(c) :
                k[n + 1] = k[n] + 1 + w * H264SeqMod
  <2>1. c[Last(k)] = Last(c)
    BY DEF Last
  <2>2. QED
    BY <2>1 DEF ChainSound
<1> HIDE DEF nal
<1>5. WhollyFrom(c, v, nal)
  BY <1>1, <1>2, <1>3, <1>4 DEF WhollyFrom
<1>6. QED
  BY <1>5 DEF nal

(* A capture without gaps, one packet longer. *)
LEMMA NoGapMore ==
    ASSUME NEW c \in Seq(H264Packets), NEW p \in H264Packets, NoGap(c), Numbered(c),
           c # <<>> => /\ p.source = Last(c).source
                       /\ p.seq = (Last(c).seq + 1) % H264SeqMod
    PROVE  NoGap(Append(c, p)) /\ Numbered(Append(c, p))
<1> DEFINE z == Append(c, p)
           L == Len(c)
<1>1. /\ L \in Nat /\ DOMAIN c = 1..L /\ Len(z) = L + 1 /\ z[L + 1] = p
      /\ \A i \in 1..L : z[i] = c[i]
  BY CaptureGrown
<1>2. L # 0 => c # <<>> /\ Last(c) = c[L]
  BY EmptySeq DEF Last
<1> HIDE DEF z, L
<1>3. \A i \in 1..(Len(z) - 1) : /\ z[i + 1].seq = (z[i].seq + 1) % H264SeqMod
                                 /\ z[i + 1].source = z[i].source
  <2> TAKE i \in 1..(Len(z) - 1)
  <2>1. CASE i = L
    BY <1>1, <1>2, <2>1
  <2>2. CASE i \in 1..(L - 1)
    <3>1. z[i] = c[i] /\ z[i + 1] = c[i + 1]
      BY <1>1, <2>2
    <3>2. QED
      BY <2>2, <3>1 DEF NoGap, L
  <2>3. QED
    BY <1>1, <2>1, <2>2
<1>4. QED
  BY <1>3, NumberedMore DEF NoGap, z

(* The access unit a packet joins, before it has the packet. *)
Base(p) == IF avcUnit = NoUnit \/ Closes(p) THEN NewUnit(p.ts) ELSE avcUnit

(* It is Joined(p) with the packet's timestamp. *)
LEMMA JoinedFields ==
    ASSUME NEW p
    PROVE  /\ Base(p).ts = p.ts /\ Base(p).packets = Joined(p).packets
           /\ Base(p).nals = Joined(p).nals /\ Base(p).marked = Joined(p).marked
<1>1. /\ NewUnit(p.ts).ts = p.ts /\ NewUnit(p.ts).packets = <<>> /\ NewUnit(p.ts).nals = <<>>
      /\ NewUnit(p.ts).marked = FALSE
  BY DEF NewUnit
<1>2. NoUnit.packets = <<>> /\ NoUnit.nals = <<>> /\ NoUnit.marked = FALSE
  BY DEF NoUnit
<1>3. CASE avcUnit = NoUnit \/ Closes(p)
  <2>1. Joined(p) = NoUnit /\ Base(p) = NewUnit(p.ts)
    BY <1>3 DEF Joined, Base
  <2>2. QED
    BY <1>1, <1>2, <2>1
<1>4. CASE ~(avcUnit = NoUnit \/ Closes(p))
  <2>1. Joined(p) = avcUnit /\ Base(p) = avcUnit /\ avcUnit.ts = p.ts
    BY <1>4 DEF Joined, Base, Closes
  <2>2. QED
    BY <2>1
<1>5. QED
  BY <1>3, <1>4

(* What a packet that fits finds: the units closed in front of it and the    *)
(* one it joins share out the capture so far.                                *)
LEMMA BaseSound ==
    ASSUME AvcInv, NEW p \in H264Packets, Fits(p), avcVerdict = "reading", NEW closed,
           closed = IF Closes(p) THEN Append(avcUnits, avcUnit) ELSE avcUnits
    PROVE  /\ Base(p) \in AccessUnit /\ Base(p).ts = p.ts /\ ~Base(p).marked
           /\ closed \in Seq(AccessUnit) /\ Assembled(avcCapture, closed, Base(p))
           /\ avcChain # NoChain => Base(p) = avcUnit
           /\ avcInitial => \A m \in DOMAIN closed : OneSPS(closed[m])
<1>1. /\ avcCapture \in Seq(H264Packets) /\ avcUnit \in AccessUnit /\ avcUnits \in Seq(AccessUnit)
      /\ Assembled(avcCapture, avcUnits, avcUnit) /\ p.ts \in Int
      /\ ChainSound(avcCapture, avcUnit, avcChain)
      /\ avcUnit = NoUnit \/ avcUnit.packets # <<>>
      /\ avcUnit = NoUnit => avcUnits = <<>>
      /\ avcInitial => \A m \in DOMAIN avcUnits : OneSPS(avcUnits[m])
  BY H264Windows DEF AvcInv
<1>2. NoUnit.packets = <<>>
  BY DEF NoUnit
<1>3. ~Base(p).marked
  BY JoinedFields DEF Fits
<1>4. avcChain # NoChain => avcUnit # NoUnit
  <2> SUFFICES ASSUME avcChain # NoChain, avcUnit = NoUnit PROVE FALSE
    OBVIOUS
  <2>1. 1 \in DOMAIN avcChain
    BY <1>1, EmptySeq, LenProperties DEF ChainSound, NoChain
  <2>2. avcChain[1] \in ToSet(avcChain)
    BY <2>1 DEF ToSet
  <2>3. ToSet(avcUnit.packets) = {}
    BY <1>2, EmptySeq DEF ToSet
  <2>4. QED
    BY <1>1, <2>2, <2>3 DEF ChainSound
<1>5. CASE Closes(p)
  <2>1. avcUnit # NoUnit /\ p.ts # avcUnit.ts /\ Closable(avcUnit) /\ Base(p) = NewUnit(p.ts)
        /\ closed = Append(avcUnits, avcUnit)
    BY <1>5 DEF Closes, Fits, Base
  <2>2. Assembled(avcCapture, closed, NewUnit(p.ts))
    BY <1>1, <2>1, CloseUnit
  <2>3. NewUnit(p.ts) \in AccessUnit /\ NewUnit(p.ts).ts = p.ts
    BY <1>1, NothingTaken
  <2>4. closed \in Seq(AccessUnit)
    BY <1>1, <2>1, AppendProperties
  <2>5. avcInitial => \A m \in DOMAIN closed : OneSPS(closed[m])
    <3> SUFFICES ASSUME avcInitial, NEW m \in DOMAIN closed PROVE OneSPS(closed[m])
      OBVIOUS
    <3>1. \/ m \in DOMAIN avcUnits /\ closed[m] = avcUnits[m]
          \/ closed[m] = avcUnit
      BY <1>1, <2>1, AppendProperties, LenProperties
    <3>2. OneSPS(avcUnit)
      BY <2>1 DEF Closable, OneSPS
    <3>3. QED
      BY <1>1, <3>1, <3>2
  <2>6. avcChain = NoChain
    BY <2>1 DEF Closable
  <2>7. QED
    BY <1>3, <2>1, <2>2, <2>3, <2>4, <2>5, <2>6
<1>6. CASE ~Closes(p) /\ avcUnit = NoUnit
  <2>1. closed = avcUnits /\ avcUnits = <<>> /\ Base(p) = NewUnit(p.ts) /\ avcUnit.packets = <<>>
    BY <1>1, <1>2, <1>6 DEF Base
  <2>2. Assembled(avcCapture, closed, NewUnit(p.ts))
    BY <1>1, <2>1, OpenUnit
  <2>3. NewUnit(p.ts) \in AccessUnit /\ NewUnit(p.ts).ts = p.ts
    BY <1>1, NothingTaken
  <2>4. QED
    BY <1>1, <1>3, <1>4, <1>6, <2>1, <2>2, <2>3
<1>7. CASE ~Closes(p) /\ avcUnit # NoUnit
  <2>1. closed = avcUnits /\ Base(p) = avcUnit /\ p.ts = avcUnit.ts
    BY <1>7 DEF Closes, Base
  <2>2. QED
    BY <1>1, <1>3, <2>1
<1>8. QED
  BY <1>5, <1>6, <1>7

(* The step that takes a packet, as the lemmas above speak of it. *)
LEMMA TakenPacket ==
    ASSUME AvcInv, NEW p \in H264Packets, Fits(p), NEW nals \in Seq(AvcNal), NEW chain,
           Take(p, nals, chain)
    PROVE  /\ avcVerdict = "reading" /\ Position = Len(avcCapture) + 1 /\ Position \in Nat
           /\ avcCapture' = Append(avcCapture, p)
           /\ avcUnit' = Taken(Base(p), Position, nals, p.marker)
           /\ ToSet(avcUnit'.packets) = ToSet(Base(p).packets) \cup {Position}
           /\ NoGap(avcCapture') /\ Numbered(avcCapture')
<1>1. /\ avcVerdict = "reading" /\ Position = Len(avcCapture) + 1 /\ Position \in Nat
      /\ avcCapture' = Append(avcCapture, p)
  BY LenProperties DEF AvcInv, Take, Position
<1>2. avcUnit' = [ts |-> p.ts, packets |-> Append(Joined(p).packets, Position),
                  nals |-> Joined(p).nals \o nals, marked |-> p.marker]
  BY DEF Take
<1>3. avcUnit' = Taken(Base(p), Position, nals, p.marker)
  BY <1>2, JoinedFields DEF Taken
<1>4. Base(p) \in AccessUnit
  BY <1>1, BaseSound
<1>5. ToSet(avcUnit'.packets) = ToSet(Base(p).packets) \cup {Position}
  <2>1. Base(p).packets \in Seq(Nat)
    BY <1>4 DEF AccessUnit
  <2>2. avcUnit'.packets = Append(Base(p).packets, Position)
    BY <1>3 DEF Taken
  <2>3. ToSet(Append(Base(p).packets, Position)) = ToSet(Base(p).packets) \cup {Position}
    BY <1>1, <2>1, AppendedSet
  <2>4. QED
    BY <2>2, <2>3
<1>6. NoGap(avcCapture') /\ Numbered(avcCapture')
  <2>1. /\ avcCapture \in Seq(H264Packets) /\ NoGap(avcCapture) /\ Numbered(avcCapture)
        /\ avcCapture # <<>> => /\ p.source = Last(avcCapture).source
                                /\ p.seq = (Last(avcCapture).seq + 1) % H264SeqMod
    BY DEF AvcInv, Fits, Continues
  <2>2. QED
    BY <1>1, <2>1, NoGapMore
<1>7. QED
  BY <1>1, <1>3, <1>5, <1>6

(* A packet keeps the invariant if what it completes is whole and the chain *)
(* it leaves is sound.                                                      *)
LEMMA TakeInv ==
    ASSUME AvcInv, NEW p \in H264Packets, Fits(p), NEW nals \in Seq(AvcNal), NEW chain,
           Take(p, nals, chain),
           \A nal \in ToSet(nals) : WhollyFrom(avcCapture', avcUnit', nal),
           ChainSound(avcCapture', avcUnit', chain)
    PROVE  AvcInv'
<1>1. /\ avcVerdict = "reading" /\ Position = Len(avcCapture) + 1
      /\ avcCapture' = Append(avcCapture, p)
      /\ avcUnit' = Taken(Base(p), Position, nals, p.marker)
      /\ NoGap(avcCapture') /\ Numbered(avcCapture')
  BY TakenPacket
<1>2. /\ avcUnits' = IF Closes(p) THEN Append(avcUnits, avcUnit) ELSE avcUnits
      /\ avcChain' = chain /\ avcInitial' = avcInitial /\ avcVerdict' = "reading"
  BY DEF Take
<1>3. /\ Base(p) \in AccessUnit /\ Base(p).ts = p.ts /\ ~Base(p).marked
      /\ avcUnits' \in Seq(AccessUnit) /\ Assembled(avcCapture, avcUnits', Base(p))
      /\ avcInitial => \A m \in DOMAIN avcUnits' : OneSPS(avcUnits'[m])
  BY <1>1, <1>2, BaseSound
<1>4. avcCapture \in Seq(H264Packets) /\ avcInitial \in BOOLEAN
  BY DEF AvcInv
<1>5. /\ avcUnit' \in AccessUnit /\ avcUnit'.packets # <<>>
      /\ Assembled(avcCapture', avcUnits', avcUnit')
  <2>1. p.type = H264Type
    BY DEF Fits
  <2>2. \A nal \in ToSet(nals) : WhollyFrom(Append(avcCapture, p), avcUnit', nal)
    BY <1>1
  <2> HIDE DEF Position
  <2>3. QED
    BY <1>1, <1>3, <1>4, <2>1, <2>2, UnitTakes
<1>6. avcCapture' \in Seq(H264Packets)
  BY <1>1, <1>4, AppendProperties
<1>7. avcUnit' # NoUnit
  BY <1>5 DEF NoUnit
<1>8. ChainSound(avcCapture', avcUnit', avcChain')
  BY <1>2
<1>9. QED
  BY <1>1, <1>2, <1>3, <1>4, <1>5, <1>6, <1>7, <1>8 DEF AvcInv

(* Packets that carry whole NAL units. *)
LEMMA CompleteInv == ASSUME AvcInv, NEW p \in H264Packets, Complete(p) PROVE AvcInv'
<1> DEFINE nals == [i \in DOMAIN p.nals |-> Whole(p.nals[i], <<Position>>)]
<1>1. Fits(p) /\ Take(p, nals, NoChain)
  BY DEF Complete
<1>2. Position \in Nat /\ p.nals \in Seq(STRING)
  BY H264Windows, LenProperties DEF AvcInv, Position
<1>3. nals \in Seq(AvcNal)
  <2>1. /\ Len(p.nals) \in Nat /\ DOMAIN p.nals = 1..Len(p.nals)
        /\ \A i \in DOMAIN p.nals : p.nals[i] \in STRING
    BY <1>2, LenProperties, ElementOfSeq
  <2>2. \A i \in DOMAIN p.nals : Whole(p.nals[i], <<Position>>) \in AvcNal
    BY <1>2, <2>1 DEF Whole, AvcNal
  <2>3. QED
    BY <2>1, <2>2, SeqDef
<1> HIDE DEF nals
<1>4. /\ Position = Len(avcCapture) + 1 /\ avcCapture' = Append(avcCapture, p)
      /\ ToSet(avcUnit'.packets) = ToSet(Base(p).packets) \cup {Position}
  BY <1>1, <1>3, TakenPacket
<1>5. avcCapture'[Position] = p
  BY <1>4, CaptureGrown DEF AvcInv
<1>6. \A nal \in ToSet(nals) : WhollyFrom(avcCapture', avcUnit', nal)
  <2> SUFFICES ASSUME NEW nal \in ToSet(nals) PROVE WhollyFrom(avcCapture', avcUnit', nal)
    OBVIOUS
  <2>1. PICK i \in DOMAIN p.nals : nal = Whole(p.nals[i], <<Position>>)
    BY DEF ToSet, nals
  <2>2. nal.from = <<Position>> /\ nal.kind = p.nals[i]
    BY <2>1 DEF Whole
  <2>3. nal.kind \in ToSet(p.nals)
    BY <2>2 DEF ToSet
  <2>4. nal.from # <<>> /\ Len(nal.from) = 1 /\ ToSet(nal.from) = {Position}
    BY <2>2 DEF ToSet
  <2>5. \A j \in ToSet(nal.from) : nal.kind \in ToSet(avcCapture'[j].nals)
    BY <1>5, <2>3, <2>4
  <2>6. ToSet(nal.from) \subseteq ToSet(avcUnit'.packets)
    BY <1>4, <2>4
  <2>7. QED
    BY <2>4, <2>5, <2>6 DEF WhollyFrom
<1>7. ChainSound(avcCapture', avcUnit', NoChain)
  BY EmptySeq DEF ChainSound, NoChain
<1>8. QED
  BY <1>1, <1>3, <1>6, <1>7, TakeInv

(* A packet that starts a chain. *)
LEMMA StartInv == ASSUME AvcInv, NEW p \in H264Packets, StartChain(p) PROVE AvcInv'
<1>1. Fits(p) /\ Take(p, <<>>, <<Position>>) /\ p.form = "start"
  BY DEF StartChain
<1>2. <<>> \in Seq(AvcNal) /\ ToSet(<<>>) = {}
  BY EmptySeq DEF ToSet
<1>3. /\ Position = Len(avcCapture) + 1 /\ avcCapture' = Append(avcCapture, p)
      /\ ToSet(avcUnit'.packets) = ToSet(Base(p).packets) \cup {Position}
  BY <1>1, <1>2, TakenPacket
<1>4. ChainSound(avcCapture', avcUnit', <<Position>>)
  BY <1>1, <1>3, ChainStarts DEF AvcInv
<1>5. QED
  BY <1>1, <1>2, <1>4, TakeInv

(* The chain with the packet that extends or ends it. *)
LEMMA LongerChain ==
    ASSUME AvcInv, NEW p \in H264Packets, Fits(p), Extends(p), NEW nals \in Seq(AvcNal), NEW chain,
           Take(p, nals, chain)
    PROVE  /\ ChainSound(avcCapture', avcUnit', Append(avcChain, Position))
           /\ Len(Append(avcChain, Position)) > 1
           /\ Append(avcChain, Position)[1] = avcChain[1]
           /\ Last(Append(avcChain, Position)) = Position /\ Position = Len(avcCapture')
           /\ avcCapture'[Position] = p /\ avcCapture'[avcChain[1]].nals = p.nals
<1>1. /\ Position = Len(avcCapture) + 1 /\ avcCapture' = Append(avcCapture, p)
      /\ avcVerdict = "reading"
      /\ ToSet(avcUnit'.packets) = ToSet(Base(p).packets) \cup {Position}
  BY TakenPacket
<1>2. avcCapture \in Seq(H264Packets) /\ ChainSound(avcCapture, avcUnit, avcChain)
      /\ Numbered(avcCapture)
  BY DEF AvcInv
<1>3. avcChain # NoChain /\ avcCapture[avcChain[1]].nals = p.nals
      /\ p.seq = (avcCapture[Last(avcChain)].seq + 1) % H264SeqMod
  BY DEF Extends
<1>4. Base(p) = avcUnit
  BY <1>1, <1>3, BaseSound
<1>5. avcChain[1] \in DOMAIN avcCapture
  <2>1. avcChain \in Seq(DOMAIN avcCapture)
    BY <1>2 DEF ChainSound
  <2>2. 1 \in DOMAIN avcChain
    BY <1>3, <2>1, LenProperties, EmptySeq DEF NoChain
  <2>3. QED
    BY <2>1, <2>2, ElementOfSeq, LenProperties
<1>6. p.seq = (Last(avcCapture).seq + 1) % H264SeqMod
  <2>1. avcCapture # <<>>
    BY <1>5, EmptySeq
  <2>2. QED
    BY <2>1 DEF Fits, Continues
<1>7. /\ Len(avcCapture') = Position /\ avcCapture'[Position] = p
      /\ avcCapture'[avcChain[1]] = avcCapture[avcChain[1]]
  BY <1>1, <1>2, <1>5, CaptureGrown
<1>8. /\ ChainSound(avcCapture', avcUnit', Append(avcChain, Position))
      /\ Len(Append(avcChain, Position)) > 1 /\ Append(avcChain, Position)[1] = avcChain[1]
      /\ Last(Append(avcChain, Position)) = Position
  <2> DEFINE n == Len(avcCapture) + 1
  <2>1. ToSet(avcUnit'.packets) = ToSet(avcUnit.packets) \cup {n}
    BY <1>1, <1>4
  <2>2. /\ ChainSound(Append(avcCapture, p), avcUnit', Append(avcChain, n))
        /\ Len(Append(avcChain, n)) > 1 /\ Append(avcChain, n)[1] = avcChain[1]
        /\ Last(Append(avcChain, n)) = n
    BY <1>2, <1>3, <1>6, <2>1, ChainLinks
  <2>3. QED
    BY <1>1, <2>2
<1>9. QED
  BY <1>3, <1>7, <1>8

(* A packet in the middle of a chain. *)
LEMMA ExtendInv == ASSUME AvcInv, NEW p \in H264Packets, ExtendChain(p) PROVE AvcInv'
<1>1. Fits(p) /\ Extends(p) /\ Take(p, <<>>, Append(avcChain, Position))
  BY DEF ExtendChain
<1>2. <<>> \in Seq(AvcNal) /\ ToSet(<<>>) = {}
  BY EmptySeq DEF ToSet
<1>3. ChainSound(avcCapture', avcUnit', Append(avcChain, Position))
  BY <1>1, <1>2, LongerChain
<1>4. QED
  BY <1>1, <1>2, <1>3, TakeInv

(* A packet that ends a chain and completes its NAL unit. *)
LEMMA FinishInv == ASSUME AvcInv, NEW p \in H264Packets, EndChain(p) PROVE AvcInv'
<1> DEFINE k    == Append(avcChain, Position)
           nals == <<Whole(p.nals[1], k)>>
<1>1. Fits(p) /\ Extends(p) /\ Take(p, nals, NoChain) /\ p.form = "end"
  BY DEF EndChain
<1>2. p.nals \in Seq(STRING) /\ 1 \in DOMAIN p.nals /\ p.nals[1] \in STRING
  <2>1. p.nals \in Seq(STRING) /\ p.nals # <<>>
    BY <1>1, H264Windows
  <2>2. QED
    BY <2>1, LenProperties, ElementOfSeq, EmptySeq
<1>3. k \in Seq(Nat)
  <2>1. avcChain \in Seq(DOMAIN avcCapture) /\ DOMAIN avcCapture \subseteq Nat /\ Position \in Nat
    BY LenProperties DEF AvcInv, ChainSound, Position
  <2>2. avcChain \in Seq(Nat)
    BY <2>1
  <2>3. QED
    BY <2>1, <2>2, AppendProperties
<1> HIDE DEF k
<1>4. Whole(p.nals[1], k) \in AvcNal
  BY <1>2, <1>3 DEF Whole, AvcNal
<1>5. nals \in Seq(AvcNal) /\ ToSet(nals) = {Whole(p.nals[1], k)}
  BY <1>4 DEF ToSet
<1> HIDE DEF nals
<1>6. /\ ChainSound(avcCapture', avcUnit', k) /\ Len(k) > 1 /\ k[1] = avcChain[1]
      /\ Last(k) = Len(avcCapture') /\ avcCapture'[Len(avcCapture')] = p
      /\ avcCapture'[avcChain[1]].nals = p.nals
  BY <1>1, <1>5, LongerChain DEF k
<1>7. WhollyFrom(avcCapture', avcUnit', Whole(p.nals[1], k))
  <2>1. avcCapture' \in Seq(H264Packets)
    <3>1. avcCapture' = Append(avcCapture, p)
      BY <1>1, <1>5, TakenPacket
    <3>2. QED
      BY <3>1, AppendProperties DEF AvcInv
  <2>2. k # NoChain
    BY <1>3, <1>6, EmptySeq DEF NoChain
  <2>3. Last(avcCapture').form = "end"
    BY <1>1, <1>6 DEF Last
  <2>4. p.nals[1] \in ToSet(avcCapture'[k[1]].nals)
    BY <1>2, <1>6 DEF ToSet
  <2>5. QED
    BY <1>6, <2>1, <2>2, <2>3, <2>4, ChainIsWhole
<1>8. ChainSound(avcCapture', avcUnit', NoChain)
  BY EmptySeq DEF ChainSound, NoChain
<1>9. QED
  BY <1>1, <1>5, <1>7, <1>8, TakeInv

(* The step that defines the elapsed axis, and a function that follows it. *)
AxisStep(units, f, i) ==
    IF i = 1 THEN 0
    ELSE IF f[i - 1] < 0 \/ Forward(units, i) > MaxForwardTicks THEN -1
    ELSE f[i - 1] + Forward(units, i)

Axis(units, f, n) == f = [i \in 1..n |-> AxisStep(units, f, i)]

(* However many access units, their axis exists. *)
LEMMA AxisExists == ASSUME NEW units, NEW n \in Nat PROVE \E f : Axis(units, f, n)
<1> SUFFICES ASSUME ~\E f : Axis(units, f, n) PROVE FALSE
  OBVIOUS
<1> DEFINE S == {m \in 1..(n + 1) : ~\E f : Axis(units, f, m - 1)}
<1>1. PICK m \in S : \A i \in S : m <= i
  <2>1. n + 1 \in S
    OBVIOUS
  <2> HIDE DEF S
  <2>2. n + 1 \in Nat /\ S \subseteq 1..(n + 1)
    BY DEF S
  <2>3. QED
    BY <2>1, <2>2, LeastMember
<1>2. m # 1
  <2> DEFINE f == [k \in {} |-> 0]
  <2>1. 1..(1 - 1) = {}
    OBVIOUS
  <2>2. f = [k \in {} |-> AxisStep(units, f, k)]
    OBVIOUS
  <2> HIDE DEF f
  <2>3. Axis(units, f, 1 - 1)
    BY <2>1, <2>2 DEF Axis
  <2>4. QED
    BY <2>3
<1>3. PICK f : Axis(units, f, m - 2)
  BY <1>1, <1>2
<1> DEFINE g == [k \in 1..(m - 1) |-> IF k = m - 1 THEN AxisStep(units, f, k) ELSE f[k]]
<1>4. \A k \in 1..(m - 1) : AxisStep(units, g, k) = AxisStep(units, f, k)
  <2> TAKE k \in 1..(m - 1)
  <2>1. CASE k = 1
    BY <2>1 DEF AxisStep
  <2>2. CASE k # 1
    <3>1. k - 1 \in 1..(m - 1) /\ k - 1 # m - 1
      BY <1>1, <2>2
    <3>2. g[k - 1] = f[k - 1]
      BY <3>1
    <3> HIDE DEF g, S
    <3>3. QED
      BY <3>2 DEF AxisStep
  <2>3. QED
    BY <2>1, <2>2
<1>5. \A k \in 1..(m - 2) : f[k] = AxisStep(units, f, k)
  <2> HIDE DEF S
  <2>1. f = [k \in 1..(m - 2) |-> AxisStep(units, f, k)]
    BY <1>3 DEF Axis
  <2>2. QED
    BY <2>1, Zenon
<1>6. g = [k \in 1..(m - 1) |-> AxisStep(units, g, k)]
  <2>1. \A k \in 1..(m - 1) : g[k] = AxisStep(units, g, k)
    <3> TAKE k \in 1..(m - 1)
    <3>1. CASE k = m - 1
      BY <3>1, <1>4
    <3>2. CASE k # m - 1
      <4>1. k \in 1..(m - 2)
        BY <3>2
      <4>2. g[k] = f[k]
        BY <3>2
      <4>3. QED
        BY <4>1, <4>2, <1>4, <1>5
    <3>3. QED
      BY <3>1, <3>2
  <2>2. DOMAIN g = 1..(m - 1) /\ g = [k \in DOMAIN g |-> g[k]]
    OBVIOUS
  <2> HIDE DEF g, S
  <2>3. QED
    BY <2>1, <2>2
<1>7. Axis(units, g, m - 1)
  BY <1>6 DEF Axis
<1>8. QED
  BY <1>1, <1>7

(* The recursion of Elapsed holds. *)
LEMMA ElapsedStep ==
    ASSUME NEW units, NEW n \in Nat, DOMAIN units = 1..n
    PROVE  \A i \in 1..n : Elapsed(units)[i] = AxisStep(units, Elapsed(units), i)
<1> DEFINE e == Elapsed(units)
<1>1. Elapsed(units) = CHOOSE f : Axis(units, f, n)
  BY DEF Elapsed, Axis, AxisStep
<1>2. Axis(units, e, n)
  <2>1. \E f : Axis(units, f, n)
    BY AxisExists
  <2>2. Axis(units, CHOOSE f : Axis(units, f, n), n)
    BY <2>1, Zenon
  <2>3. QED
    BY <1>1, <2>2
<1> HIDE DEF e
<1>3. e = [i \in 1..n |-> AxisStep(units, e, i)]
  BY <1>2 DEF Axis
<1>4. \A i \in 1..n : e[i] = AxisStep(units, e, i)
  BY <1>3, Zenon
<1>5. QED
  BY <1>4 DEF e

(* Whole wraps do not show in a remainder. *)
LEMMA WrapsVanish ==
    ASSUME NEW M \in Nat \ {0}, NEW d \in Int, NEW q \in Int
    PROVE  (d + M * q) % M = d % M
<1> DEFINE b == d \div M
           r == d % M
<1>1. b \in Int /\ r \in 0..(M - 1) /\ d = M * b + r
  OBVIOUS
<1> HIDE DEF b, r
<1>2. d + M * q = M * (b + q) + r
  <2>1. M * (b + q) = M * b + M * q /\ M * b \in Int /\ M * q \in Int
    BY <1>1
  <2>2. QED
    BY <1>1, <2>1
<1>3. b + q \in Int
  BY <1>1
<1>4. (M * (b + q) + r) % M = r
  BY <1>1, <1>3
<1>5. QED
  BY <1>2, <1>4 DEF r

(* A forward step is a number of ticks below one wrap, not zero between      *)
(* different stamps, and what it adds up to is right up to whole wraps.      *)
LEMMA ForwardTicks ==
    ASSUME NEW units, NEW i, units[i].ts \in 0..(H264TsMod - 1),
           units[i - 1].ts \in 0..(H264TsMod - 1), units[i].ts # units[i - 1].ts
    PROVE  /\ Forward(units, i) \in Nat \ {0}
           /\ \E q \in Int : Forward(units, i) = (units[i].ts - units[i - 1].ts) + H264TsMod * q
<1> DEFINE a == units[i].ts
           b == units[i - 1].ts
           M == H264TsMod
<1>1. M \in Nat \ {0} /\ a \in 0..(M - 1) /\ b \in 0..(M - 1) /\ a # b
  BY H264Windows
<1>2. Forward(units, i) = (a - b) % M
  BY DEF Forward
<1> HIDE DEF a, b, M
<1>3. (a - b) % M = IF a >= b THEN a - b ELSE (a - b) + M
  BY <1>1
<1>4. CASE a >= b
  <2>1. (a - b) % M = (a - b) + M * 0
    BY <1>1, <1>3, <1>4
  <2>2. (a - b) % M \in Nat \ {0}
    BY <1>1, <1>3, <1>4
  <2>3. QED
    BY <1>2, <2>1, <2>2 DEF a, b, M
<1>5. CASE ~(a >= b)
  <2>1. (a - b) % M = (a - b) + M * 1
    BY <1>1, <1>3, <1>5
  <2>2. (a - b) % M \in Nat \ {0}
    BY <1>1, <1>3, <1>5
  <2>3. QED
    BY <1>2, <2>1, <2>2 DEF a, b, M
<1>6. QED
  BY <1>4, <1>5

(* Stamps of units that follow each other differ. *)
Stamps(units) ==
    /\ \A i \in DOMAIN units : units[i].ts \in 0..(H264TsMod - 1)
    /\ \A i \in 1..(Len(units) - 1) : units[i].ts # units[i + 1].ts

(* Along the axis nothing follows a step nobody can size, and what is there *)
(* rises by the ticks between the stamps, up to whole wraps.                *)
LEMMA AxisRises ==
    ASSUME NEW units \in Seq(AccessUnit), Stamps(units)
    PROVE  \A i, j \in DOMAIN units : i < j /\ Elapsed(units)[j] >= 0 =>
              /\ Elapsed(units)[i] >= 0 /\ Elapsed(units)[i] < Elapsed(units)[j]
              /\ (Elapsed(units)[j] - Elapsed(units)[i]) % H264TsMod
                    = (units[j].ts - units[i].ts) % H264TsMod
<1> DEFINE e == Elapsed(units)
           n == Len(units)
           M == H264TsMod
           t(i) == units[i].ts
           F(i) == Forward(units, i)
<1>1. n \in Nat /\ DOMAIN units = 1..n
  BY LenProperties
<1>2. \A i \in 1..n : e[i] = AxisStep(units, e, i)
  BY <1>1, ElapsedStep
<1>3. M \in Nat \ {0} /\ MaxForwardTicks \in Nat /\ \A i \in 1..n : t(i) \in 0..(M - 1)
  BY <1>1, H264Windows DEF Stamps
<1>4. \A i \in 2..n : F(i) \in Nat \ {0} /\ \E q \in Int : F(i) = (t(i) - t(i - 1)) + M * q
  <2> TAKE i \in 2..n
  <2>1. i \in 1..n /\ i - 1 \in 1..n /\ i - 1 \in 1..(n - 1) /\ (i - 1) + 1 = i
    BY <1>1
  <2>2. units[i].ts \in 0..(H264TsMod - 1) /\ units[i - 1].ts \in 0..(H264TsMod - 1)
        /\ units[i].ts # units[i - 1].ts
    BY <1>1, <2>1 DEF Stamps
  <2>3. QED
    BY <2>2, ForwardTicks
<1> HIDE DEF e, n, M, t, F
<1>5. /\ 1 \in 1..n => e[1] = 0
      /\ \A i \in 2..n : e[i] = IF e[i - 1] < 0 \/ F(i) > MaxForwardTicks THEN -1
                                ELSE e[i - 1] + F(i)
  <2>1. \A i \in 2..n : i \in 1..n /\ i # 1
    BY <1>1
  <2>2. QED
    BY <1>2, <2>1 DEF AxisStep, F
<1>6. \A i \in 1..n : e[i] \in Int
  <2> SUFFICES ASSUME ~\A i \in 1..n : e[i] \in Int PROVE FALSE
    OBVIOUS
  <2> DEFINE S == {i \in 1..n : e[i] \notin Int}
  <2>1. S # {} /\ S \subseteq 1..n
    OBVIOUS
  <2> HIDE DEF S
  <2>2. PICK i \in S : \A k \in S : i <= k
    BY <1>1, <2>1, LeastMember
  <2>3. i \in 1..n /\ e[i] \notin Int
    BY DEF S
  <2>4. i # 1
    BY <1>5, <2>3
  <2>5. i \in 2..n /\ i - 1 \in 1..n /\ ~(i <= i - 1)
    BY <1>1, <2>3, <2>4
  <2>6. e[i - 1] \in Int
    BY <2>2, <2>5 DEF S
  <2>7. e[i] = -1 \/ e[i] = e[i - 1] + F(i)
    BY <1>5, <2>5
  <2>8. F(i) \in Int
    BY <1>4, <2>5
  <2>9. QED
    BY <2>3, <2>6, <2>7, <2>8
<1>7. \A i \in 2..n : e[i] >= 0 => e[i - 1] >= 0 /\ e[i] = e[i - 1] + F(i)
  <2> SUFFICES ASSUME NEW i \in 2..n, e[i] >= 0 PROVE e[i - 1] >= 0 /\ e[i] = e[i - 1] + F(i)
    OBVIOUS
  <2>1. i - 1 \in 1..n
    BY <1>1
  <2>2. e[i - 1] \in Int
    BY <1>6, <2>1
  <2>3. QED
    BY <1>5, <2>2
<1> DEFINE Fine(i, j) ==
              /\ e[i] >= 0 /\ e[i] < e[j]
              /\ \E q \in Int : e[j] - e[i] = (t(j) - t(i)) + M * q
<1>8. ASSUME NEW i \in 1..n, NEW j \in 1..n, i < j, e[j] >= 0 PROVE Fine(i, j)
  <2> SUFFICES ASSUME ~Fine(i, j) PROVE FALSE
    OBVIOUS
  <2> DEFINE S == {k \in 1..n : i < k /\ e[k] >= 0 /\ ~Fine(i, k)}
  <2>1. S # {} /\ S \subseteq 1..n
    BY <1>8
  <2> HIDE DEF S
  <2>2. PICK k \in S : \A l \in S : k <= l
    BY <1>1, <2>1, LeastMember
  <2>3. k \in 1..n /\ i < k /\ e[k] >= 0 /\ ~Fine(i, k)
    BY DEF S
  <2>4. k \in 2..n /\ k - 1 \in 1..n /\ i <= k - 1 /\ ~(k <= k - 1)
    BY <1>1, <2>3
  <2>5. e[k - 1] >= 0 /\ e[k] = e[k - 1] + F(k) /\ F(k) \in Nat \ {0}
    BY <1>4, <1>7, <2>3, <2>4
  <2>6. PICK q \in Int : F(k) = (t(k) - t(k - 1)) + M * q
    BY <1>4, <2>4
  <2>7. /\ e[k] \in Int /\ e[k - 1] \in Int /\ e[i] \in Int /\ M * q \in Int
        /\ t(k) \in Int /\ t(k - 1) \in Int /\ t(i) \in Int
    <3>1. \A l \in 1..n : t(l) \in Int
      BY <1>3
    <3>2. QED
      BY <1>3, <1>6, <2>3, <2>4, <3>1
  <2>8. CASE i = k - 1
    <3>1. e[k] - e[i] = (t(k) - t(i)) + M * q
      BY <2>5, <2>6, <2>7, <2>8
    <3>2. e[i] >= 0 /\ e[i] < e[k]
      BY <2>5, <2>7, <2>8
    <3>3. QED
      BY <2>3, <3>1, <3>2
  <2>9. CASE i # k - 1
    <3>1. i < k - 1
      BY <2>4, <2>9
    <3>2. Fine(i, k - 1)
      <4>1. k - 1 \notin S
        BY <2>2, <2>4
      <4>2. QED
        BY <2>4, <2>5, <3>1, <4>1 DEF S
    <3>3. PICK r \in Int : e[k - 1] - e[i] = (t(k - 1) - t(i)) + M * r
      BY <3>2
    <3>4. M * r \in Int /\ M * (q + r) = M * q + M * r
      BY <1>3
    <3> DEFINE x == M * q
               y == M * r
    <3>11. x \in Int /\ y \in Int
      BY <2>7, <3>4
    <3>8. x \in Int /\ y \in Int /\ M * (q + r) = x + y
      BY <2>7, <3>4
    <3>9. F(k) = (t(k) - t(k - 1)) + x /\ e[k - 1] - e[i] = (t(k - 1) - t(i)) + y
      BY <2>6, <3>3
    <3> HIDE DEF x, y
    <3>10. e[k] - e[i] = (t(k) - t(i)) + (x + y)
      <4> DEFINE tk == t(k)
                 tj == t(k - 1)
                 ti == t(i)
                 f  == F(k)
      <4>1. /\ tk \in Int /\ tj \in Int /\ ti \in Int /\ f \in Int
            /\ e[k] \in Int /\ e[k - 1] \in Int /\ e[i] \in Int
            /\ e[k] = e[k - 1] + f /\ f = (tk - tj) + x /\ e[k - 1] - e[i] = (tj - ti) + y
        BY <2>5, <2>7, <3>9
      <4> HIDE DEF tk, tj, ti, f
      <4>2. e[k] - e[i] = (tk - ti) + (x + y)
        BY <3>11, <4>1
      <4>3. QED
        BY <4>2 DEF tk, ti
    <3>5. e[k] - e[i] = (t(k) - t(i)) + M * (q + r)
      BY <3>8, <3>10
    <3>6. e[i] >= 0 /\ e[i] < e[k]
      BY <2>5, <2>7, <3>2
    <3>7. QED
      BY <2>3, <3>5, <3>6
  <2>10. QED
    BY <2>8, <2>9
<1>9. ASSUME NEW i \in 1..n, NEW j \in 1..n, i < j, e[j] >= 0
      PROVE  /\ e[i] >= 0 /\ e[i] < e[j]
             /\ (e[j] - e[i]) % M = (t(j) - t(i)) % M
  <2>1. Fine(i, j)
    BY <1>8, <1>9
  <2>2. PICK q \in Int : e[j] - e[i] = (t(j) - t(i)) + M * q
    BY <2>1
  <2>3. t(j) - t(i) \in Int
    BY <1>3
  <2>4. ((t(j) - t(i)) + M * q) % M = (t(j) - t(i)) % M
    BY <1>3, <2>3, WrapsVanish
  <2>5. QED
    BY <2>1, <2>2, <2>4
<1>10. QED
  BY <1>1, <1>9 DEF e, M, t

(* A packet of another payload type. *)
LEMMA UnsupportedInv == ASSUME AvcInv, NEW p \in H264Packets, Unsupported(p) PROVE AvcInv'
<1>1. /\ avcVerdict = "reading" /\ p.type # H264Type /\ avcCapture' = Append(avcCapture, p)
      /\ avcInitial' = avcInitial /\ avcUnit' = avcUnit /\ avcChain' = avcChain
      /\ avcUnits' = avcUnits /\ avcVerdict' = avcVerdict
      /\ avcCapture # <<>> => /\ p.source = Last(avcCapture).source
                              /\ p.seq = (Last(avcCapture).seq + 1) % H264SeqMod
  BY DEF Unsupported, Continues
<1>2. /\ avcCapture \in Seq(H264Packets) /\ NoGap(avcCapture) /\ Numbered(avcCapture)
      /\ avcUnit \in AccessUnit /\ avcUnits \in Seq(AccessUnit)
      /\ Assembled(avcCapture, avcUnits, avcUnit) /\ ChainSound(avcCapture, avcUnit, avcChain)
  BY DEF AvcInv
<1>3. avcCapture' \in Seq(H264Packets) /\ NoGap(avcCapture') /\ Numbered(avcCapture')
  BY <1>1, <1>2, NoGapMore, AppendProperties
<1>4. Assembled(avcCapture', avcUnits', avcUnit') /\ ChainSound(avcCapture', avcUnit', avcChain')
  <2>1. Assembled(Append(avcCapture, p), avcUnits, avcUnit)
    BY <1>1, <1>2, OtherType
  <2>2. ChainSound(Append(avcCapture, p), avcUnit, avcChain)
    BY <1>1, <1>2, ChainSkips
  <2>3. QED
    BY <1>1, <2>1, <2>2
<1>5. QED
  BY <1>1, <1>3, <1>4 DEF AvcInv

(* The end of the capture: the open unit is closed like the others. *)
LEMMA EndAvcInv == AvcInv /\ EndOfH264 => AvcInv'
<1> SUFFICES ASSUME AvcInv, EndOfH264 PROVE AvcInv'
  OBVIOUS
<1> DEFINE units == IF avcUnit = NoUnit THEN avcUnits ELSE Append(avcUnits, avcUnit)
           whole == avcChain = NoChain /\ (avcUnit # NoUnit => Closable(avcUnit))
<1>1. /\ avcVerdict = "reading" /\ avcInitial' = avcInitial /\ avcCapture' = avcCapture
      /\ avcChain' = avcChain
      /\ \/ avcVerdict' = "rebuilt" /\ whole /\ Decodable(units)
            /\ avcUnits' = units /\ avcUnit' = NoUnit
         \/ avcVerdict' = "refused" /\ avcUnits' = avcUnits /\ avcUnit' = avcUnit
  BY DEF EndOfH264
<1> HIDE DEF units
<1>2. CASE avcVerdict' = "refused" /\ avcUnits' = avcUnits /\ avcUnit' = avcUnit
  BY <1>1, <1>2 DEF AvcInv
<1>3. CASE /\ avcVerdict' = "rebuilt" /\ whole /\ Decodable(units)
           /\ avcUnits' = units /\ avcUnit' = NoUnit
  <2>1. /\ avcCapture \in Seq(H264Packets) /\ avcUnit \in AccessUnit
        /\ avcUnits \in Seq(AccessUnit) /\ Assembled(avcCapture, avcUnits, avcUnit)
        /\ avcUnit = NoUnit \/ avcUnit.packets # <<>>
        /\ avcUnit = NoUnit => avcUnits = <<>>
        /\ avcInitial => \A m \in DOMAIN avcUnits : OneSPS(avcUnits[m])
    BY <1>1 DEF AvcInv
  <2>2. NoUnit = NewUnit(-1) /\ NoUnit.packets = <<>>
    BY DEF NoUnit, NewUnit
  <2>3. NoUnit \in AccessUnit
    BY <2>1, <2>2, NothingTaken
  <2>4. CASE avcUnit = NoUnit
    <3>1. units = avcUnits
      BY <2>4 DEF units
    <3>2. Assembled(avcCapture', avcUnits', avcUnit')
      BY <1>1, <1>3, <2>1, <2>4, <3>1
    <3>3. ChainSound(avcCapture', avcUnit', avcChain')
      BY <1>1, <1>3, <2>4 DEF AvcInv
    <3>4. Decodable(avcUnits)'
      BY <1>1, <1>3 DEF Decodable, Sets
    <3>5. QED
      BY <1>1, <1>3, <2>1, <2>3, <3>1, <3>2, <3>3, <3>4 DEF AvcInv
  <2>5. CASE avcUnit # NoUnit
    <3>1. units = Append(avcUnits, avcUnit) /\ avcChain = NoChain /\ Closable(avcUnit)
      BY <1>3, <2>5 DEF units
    <3>2. avcUnit.ts # -1
      <4>1. UnitSound(avcCapture, avcUnit) /\ avcUnit.packets # <<>>
        BY <2>1, <2>5 DEF Assembled
      <4>2. 1 \in DOMAIN avcUnit.packets /\ avcUnit.packets[1] \in DOMAIN avcCapture
        BY <4>1, LenProperties, ElementOfSeq, EmptySeq DEF UnitSound
      <4>3. avcCapture[avcUnit.packets[1]] \in H264Packets
        BY <2>1, <4>2, ElementOfSeq, LenProperties
      <4>4. avcCapture[avcUnit.packets[1]].ts = avcUnit.ts
        BY <4>1, <4>2 DEF UnitSound, OneInstant
      <4>5. avcUnit.ts \in 0..(H264TsMod - 1)
        BY <4>3, <4>4, H264Windows
      <4>6. QED
        BY <4>5
    <3>3. Assembled(avcCapture, units, NoUnit)
      <4>1. -1 \in Int
        OBVIOUS
      <4>2. Assembled(avcCapture, Append(avcUnits, avcUnit), NewUnit(-1))
        BY <2>1, <2>5, <3>2, <4>1, CloseUnit
      <4>3. QED
        BY <2>2, <3>1, <4>2
    <3>4. units \in Seq(AccessUnit)
      BY <2>1, <3>1, AppendProperties
    <3>5. ChainSound(avcCapture, NoUnit, NoChain)
      BY EmptySeq DEF ChainSound, NoChain
    <3>6. avcInitial => \A m \in DOMAIN units : OneSPS(units[m])
      <4> SUFFICES ASSUME avcInitial, NEW m \in DOMAIN units PROVE OneSPS(units[m])
        OBVIOUS
      <4>1. \/ m \in DOMAIN avcUnits /\ units[m] = avcUnits[m]
            \/ units[m] = avcUnit
        BY <2>1, <3>1, AppendProperties, LenProperties
      <4>2. OneSPS(avcUnit)
        BY <3>1 DEF Closable, OneSPS
      <4>3. QED
        BY <2>1, <4>1, <4>2
    <3>7. Decodable(avcUnits)'
      BY <1>1, <1>3 DEF Decodable, Sets
    <3>8. /\ avcUnit' = NoUnit /\ avcUnits' = units /\ avcChain' = NoChain
          /\ avcCapture' = avcCapture /\ avcInitial' = avcInitial /\ avcVerdict' = "rebuilt"
      BY <1>1, <1>3, <3>1
    <3>9. /\ Assembled(avcCapture', avcUnits', avcUnit')
          /\ ChainSound(avcCapture', avcUnit', avcChain')
      BY <3>3, <3>5, <3>8
    <3>10. QED
      BY <2>1, <2>3, <3>4, <3>6, <3>7, <3>8, <3>9 DEF AvcInv
  <2>6. QED
    BY <2>4, <2>5
<1>4. QED
  BY <1>1, <1>2, <1>3

(* Every step of the reader keeps the invariant. *)
LEMMA NextAvcInv == AvcInv /\ [AvcNext]_avcVars => AvcInv'
<1> SUFFICES ASSUME AvcInv, [AvcNext]_avcVars PROVE AvcInv'
  OBVIOUS
<1>1. CASE UNCHANGED avcVars
  BY <1>1 DEF avcVars, AvcInv, Decodable, Sets
<1>2. ASSUME NEW p \in H264Packets,
             \/ Unsupported(p) \/ Complete(p) \/ StartChain(p) \/ ExtendChain(p) \/ EndChain(p)
      PROVE  AvcInv'
  BY <1>2, UnsupportedInv, CompleteInv, StartInv, ExtendInv, FinishInv
<1>3. ASSUME NEW p \in H264Packets, RefuseH264(p) PROVE AvcInv'
  BY <1>3 DEF RefuseH264, AvcInv
<1>4. CASE EndOfH264
  BY <1>4, EndAvcInv
<1>5. QED
  BY <1>1, <1>2, <1>3, <1>4 DEF AvcNext

(* The reader starts in it. *)
LEMMA InitAvcInv == AvcInit => AvcInv
<1> SUFFICES ASSUME AvcInit PROVE AvcInv
  OBVIOUS
<1>1. /\ avcInitial \in BOOLEAN /\ avcCapture = <<>> /\ avcUnit = NoUnit /\ avcChain = <<>>
      /\ avcUnits = <<>> /\ avcVerdict = "reading"
  BY DEF AvcInit, NoChain
<1>2. /\ <<>> \in Seq(H264Packets) /\ <<>> \in Seq(AccessUnit) /\ <<>> \in Seq(DOMAIN <<>>)
      /\ DOMAIN <<>> = {} /\ Len(<<>>) = 0
  BY EmptySeq
<1>3. NoUnit = NewUnit(-1)
  BY DEF NoUnit, NewUnit
<1>4. NoUnit \in AccessUnit /\ UnitSound(<<>>, NoUnit)
  <2>1. -1 \in Int
    OBVIOUS
  <2>2. NewUnit(-1) \in AccessUnit /\ UnitSound(<<>>, NewUnit(-1))
    BY <1>2, <2>1, NothingTaken
  <2>3. QED
    BY <1>3, <2>2
<1>5. NoGap(<<>>) /\ Numbered(<<>>)
  BY <1>2 DEF NoGap, Numbered
<1>6. Assembled(<<>>, <<>>, NoUnit) /\ ChainSound(<<>>, NoUnit, <<>>)
  BY <1>2, <1>4 DEF Assembled, ChainSound, NoChain
<1>7. QED
  BY <1>1, <1>2, <1>4, <1>5, <1>6 DEF AvcInv

(* Nothing is spliced: what the units of a rebuilt stream share out is the   *)
(* capture.                                                                 *)
LEMMA NoSplice == AvcInv => NothingIsSpliced
<1> SUFFICES ASSUME AvcInv, avcVerdict = "rebuilt" PROVE NothingIsSpliced
  BY DEF NothingIsSpliced
<1>1. /\ avcUnit = NoUnit /\ NoGap(avcCapture) /\ Assembled(avcCapture, avcUnits, avcUnit)
      /\ avcCapture \in Seq(H264Packets)
  BY DEF AvcInv
<1>2. ToSet(avcUnit.packets) = {}
  BY <1>1, EmptySeq DEF NoUnit, ToSet
<1>3. \A m \in DOMAIN avcUnits : UnitSound(avcCapture, avcUnits[m])
  BY <1>1 DEF Assembled
<1>4. \A i \in DOMAIN avcCapture :
          avcCapture[i].type = H264Type
              <=> \E m \in DOMAIN avcUnits : i \in ToSet(avcUnits[m].packets)
  <2> TAKE i \in DOMAIN avcCapture
  <2>1. ASSUME avcCapture[i].type = H264Type
        PROVE  \E m \in DOMAIN avcUnits : i \in ToSet(avcUnits[m].packets)
    BY <1>1, <1>2, <2>1 DEF Assembled
  <2>2. ASSUME NEW m \in DOMAIN avcUnits, i \in ToSet(avcUnits[m].packets)
        PROVE  avcCapture[i].type = H264Type
    <3>1. PICK n \in DOMAIN avcUnits[m].packets : i = avcUnits[m].packets[n]
      BY <2>2 DEF ToSet
    <3>2. QED
      BY <1>3, <3>1 DEF UnitSound
  <2>3. QED
    BY <2>1, <2>2
<1>5. \A m, n \in DOMAIN avcUnits : m < n =>
          \A i \in ToSet(avcUnits[m].packets), j \in ToSet(avcUnits[n].packets) : i < j
  BY <1>1 DEF Assembled, Ahead
<1>6. \A m \in DOMAIN avcUnits :
          /\ OneInstant(avcCapture, avcUnits[m])
          /\ \A nal \in ToSet(avcUnits[m].nals) : WhollyFrom(avcCapture, avcUnits[m], nal)
  BY <1>3 DEF UnitSound
<1>7. QED
  BY <1>1, <1>4, <1>5, <1>6 DEF NothingIsSpliced, NoGap

(* The first coded slice has the parameter sets in front of it. *)
LEMMA FirstSlice == AvcInv => RebuiltIsDecodable
<1> SUFFICES ASSUME AvcInv, avcVerdict = "rebuilt" PROVE RebuiltIsDecodable
  BY DEF RebuiltIsDecodable
<1> DEFINE units  == avcUnits
           slices == Slices(units)
           places == Places(units)
           all    == {a \in places : \A b \in slices : Precedes(a, b)}
<1>1. /\ slices # {} /\ Sets(Kinds(units, all)) /\ units \in Seq(AccessUnit)
      /\ avcInitial => \A m \in DOMAIN units : OneSPS(units[m])
  BY DEF AvcInv, Decodable
<1>2. \A a : a \in places <=> \E m \in DOMAIN units : a \in {m} \X DOMAIN units[m].nals
  BY DEF Places
<1>3. \A m, n : <<m, n>> \in places <=> m \in DOMAIN units /\ n \in DOMAIN units[m].nals
  BY <1>2
<1>4. \A a \in places : a = <<a[1], a[2]>>
  BY <1>2
<1>5. /\ Len(units) \in Nat /\ DOMAIN units = 1..Len(units)
      /\ \A m \in DOMAIN units : /\ Len(units[m].nals) \in Nat
                                 /\ DOMAIN units[m].nals = 1..Len(units[m].nals)
  <2>1. \A m \in DOMAIN units : units[m] \in AccessUnit
    BY <1>1, ElementOfSeq, LenProperties
  <2>2. \A m \in DOMAIN units : units[m].nals \in Seq(AvcNal)
    BY <2>1 DEF AccessUnit
  <2>3. QED
    BY <1>1, <2>2, LenProperties
<1> HIDE DEF units, places, slices
<1>6. \A a : a \in slices <=> a \in places /\ Kind(units, a) = "SLICE"
  BY DEF slices, Slices, places
<1> DEFINE M    == {m \in 1..Len(units) : \E n \in DOMAIN units[m].nals : <<m, n>> \in slices}
           N(m) == {n \in 1..Len(units[m].nals) : <<m, n>> \in slices}
<1>7. PICK m \in M : \A k \in M : m <= k
  <2>1. PICK a : a \in slices
    BY <1>1
  <2>2. a[1] \in M
    <3>1. a \in places /\ a = <<a[1], a[2]>>
      BY <1>4, <1>6, <2>1
    <3>2. a[1] \in DOMAIN units /\ a[2] \in DOMAIN units[a[1]].nals
      BY <1>3, <3>1
    <3>3. QED
      BY <1>5, <2>1, <3>1, <3>2
  <2>3. M \subseteq 1..Len(units)
    OBVIOUS
  <2> HIDE DEF M
  <2>4. QED
    BY <1>5, <2>2, <2>3, LeastMember
<1>8. m \in DOMAIN units /\ \E n \in DOMAIN units[m].nals : <<m, n>> \in slices
  BY <1>5
<1>9. PICK n \in N(m) : \A k \in N(m) : n <= k
  <2> DEFINE S == N(m)
  <2>1. S # {} /\ S \subseteq 1..Len(units[m].nals) /\ Len(units[m].nals) \in Nat
    BY <1>5, <1>8
  <2> HIDE DEF S
  <2>2. \E n \in S : \A k \in S : n <= k
    BY <2>1, LeastMember
  <2>3. QED
    BY <2>2 DEF S
<1> DEFINE s == <<m, n>>
           before == {a \in places : Precedes(a, s)}
<1>10. s \in slices /\ s[1] = m /\ s[2] = n
  OBVIOUS
<1>11. before \cap slices = {}
  <2> SUFFICES ASSUME NEW a \in slices, Precedes(a, s) PROVE FALSE
    OBVIOUS
  <2>1. a \in places /\ a = <<a[1], a[2]>>
    BY <1>4, <1>6
  <2>2. a[1] \in DOMAIN units /\ a[2] \in DOMAIN units[a[1]].nals
    BY <1>3, <2>1
  <2>3. a[1] \in M
    BY <1>5, <2>1, <2>2
  <2>4. m \in Int /\ n \in Int /\ a[1] \in Int /\ a[2] \in Int /\ m <= a[1]
    <3>1. m \in Int /\ a[1] \in Int
      BY <1>5, <1>8, <2>2
    <3>2. n \in Int
      BY <1>9
    <3>3. a[2] \in 1..Len(units[a[1]].nals)
      BY <1>5, <2>2
    <3>4. a[2] \in Int
      BY <3>3
    <3>5. m <= a[1]
      BY <1>7, <2>3
    <3>6. QED
      BY <3>1, <3>2, <3>4, <3>5
  <2>5. a[1] = m /\ a[2] < n
    BY <1>10, <2>4 DEF Precedes
  <2>6. a[2] \in N(m)
    BY <1>5, <2>1, <2>2, <2>5
  <2>7. QED
    BY <1>9, <2>4, <2>5, <2>6
<1>12. Sets(Kinds(units, before))
  <2>1. all \subseteq before
    BY <1>10
  <2>2. Kinds(units, all) \subseteq Kinds(units, before)
    BY <2>1 DEF Kinds
  <2>3. QED
    BY <1>1, <2>2 DEF Sets
<1>13. avcInitial => "SPS2" \notin Kinds(units, places)
  <2> SUFFICES ASSUME avcInitial, NEW a \in places, Kind(units, a) = "SPS2" PROVE FALSE
    BY DEF Kinds
  <2>1. a = <<a[1], a[2]>>
    BY <1>4
  <2>2. a[1] \in DOMAIN units /\ a[2] \in DOMAIN units[a[1]].nals
    BY <1>3, <2>1
  <2>3. OneSPS(units[a[1]])
    BY <1>1, <2>2
  <2>4. QED
    BY <2>2, <2>3 DEF OneSPS, Kind
<1>14. \E b \in slices :
          LET before_b == {a \in places : Precedes(a, b)}
          IN before_b \cap slices = {} /\ Sets(Kinds(units, before_b))
  BY <1>10, <1>11, <1>12
<1>15. QED
  BY <1>13, <1>14 DEF RebuiltIsDecodable, units, places, slices

(* The units of any capture have stamps of the wire, and neighbours differ. *)
LEMMA AxisIsSound == AvcInv => AxisNeverResumes
<1> SUFFICES ASSUME AvcInv PROVE AxisNeverResumes
  OBVIOUS
<1>1. /\ avcCapture \in Seq(H264Packets) /\ avcUnits \in Seq(AccessUnit)
      /\ Assembled(avcCapture, avcUnits, avcUnit)
  BY DEF AvcInv
<1>2. \A m \in DOMAIN avcUnits : avcUnits[m].ts \in 0..(H264TsMod - 1)
  <2> TAKE m \in DOMAIN avcUnits
  <2>1. UnitSound(avcCapture, avcUnits[m]) /\ avcUnits[m].packets # <<>>
    BY <1>1 DEF Assembled
  <2> DEFINE k == avcUnits[m].packets
  <2>2. 1 \in DOMAIN k /\ k[1] \in DOMAIN avcCapture
    BY <2>1, LenProperties, ElementOfSeq, EmptySeq DEF UnitSound
  <2>3. avcCapture[k[1]] \in H264Packets
    BY <1>1, <2>2, ElementOfSeq, LenProperties
  <2>4. avcCapture[k[1]].ts = avcUnits[m].ts
    BY <2>1, <2>2 DEF UnitSound, OneInstant
  <2>5. QED
    BY <2>3, <2>4, H264Windows
<1>3. \A m \in 1..(Len(avcUnits) - 1) : avcUnits[m].ts # avcUnits[m + 1].ts
  <2> TAKE m \in 1..(Len(avcUnits) - 1)
  <2>1. m \in DOMAIN avcUnits /\ m # Len(avcUnits)
    BY <1>1, LenProperties
  <2>2. QED
    BY <1>1, <2>1 DEF Assembled
<1>4. Stamps(avcUnits)
  BY <1>2, <1>3 DEF Stamps
<1>5. QED
  BY <1>1, <1>4, AxisRises DEF AxisNeverResumes

(* A rebuilt H.264 stream holds every packet of the declared type once and   *)
(* in capture order, each NAL unit from the packets that carry it, starts    *)
(* with the parameter sets it needs, and has an axis that never resumes      *)
(* after a step nobody can size (depacketize, _prerequisites, _timing).      *)
THEOREM StreamsAreFaithful == AvcSpec => []RebuiltIsFaithful
<1>1. AvcInv => RebuiltIsFaithful
  BY NoSplice, FirstSlice, AxisIsSound DEF RebuiltIsFaithful
<1>2. QED
  BY <1>1, InitAvcInv, NextAvcInv, PTL DEF AvcSpec

-----------------------------------------------------------------------------
(* Conclusions: what the converters of SavedEvents have in common. *)

(* What follows the loop is done once. *)
LEMMA EventsEndOnce == EventEnd => Ending
  BY DEF EventEnd, ElectricalEnd, TransitionsEnd, DetectorEnd, UniquenessEnd, VersionEnd, EndCarried

(* The records read are a file of the script that runs, with its arguments. *)
EventFile ==
    /\ fed \in Seq(EventRecords[converter]) /\ declared \in EventDeclarations[converter]
    /\ Len(fed) \in Nat /\ DOMAIN fed = 1..Len(fed) /\ 0 \notin DOMAIN fed
    /\ \A i \in DOMAIN fed : fed[i] \in EventRecords[converter]

(* One record more has been read. *)
EventRead(r) ==
    /\ r \in EventRecords[converter] /\ verdict = "reading" /\ verdict' = "reading"
    /\ Len(fed) \in Nat /\ Here = Len(fed) + 1 /\ Len(fed') = Here
    /\ DOMAIN fed = 1..Len(fed) /\ DOMAIN fed' = 1..Here
    /\ DOMAIN fed' = DOMAIN fed \cup {Here} /\ Here \notin DOMAIN fed
    /\ \A i \in DOMAIN fed : fed'[i] = fed[i]
    /\ fed'[Here] = r
    /\ converter' = converter /\ declared' = declared

(* Reading a record puts it behind the others. *)
LEMMA EventIsRead ==
    ASSUME EventFile, NEW r \in EventRecords[converter], Taking(r)
    PROVE  EventRead(r) /\ EventFile'
<1> DEFINE n == Len(fed)
           f == Append(fed, r)
<1>1. /\ f \in Seq(EventRecords[converter])
      /\ Len(f) = n + 1
      /\ \A i \in 1..n : f[i] = fed[i]
      /\ f[n + 1] = r
  BY AppendProperties DEF EventFile
<1>2. n \in Nat /\ DOMAIN fed = 1..n /\ DOMAIN f = 1..(n + 1)
  BY <1>1, LenProperties DEF EventFile
<1>3. fed' = f /\ verdict = "reading" /\ verdict' = verdict
      /\ converter' = converter /\ declared' = declared
  BY DEF Taking
<1>4. 1..(n + 1) = 1..n \cup {n + 1} /\ n + 1 \notin 1..n /\ 0 \notin 1..(n + 1)
  BY <1>2
<1>5. \A i \in 1..(n + 1) : f[i] \in EventRecords[converter]
  BY <1>1, <1>2, <1>4 DEF EventFile
<1>6. EventRead(r)
  BY <1>1, <1>2, <1>3, <1>4 DEF EventRead, Here
<1>7. EventFile'
  <2> HIDE DEF f, n
  <2>1. declared' \in EventDeclarations[converter']
    BY <1>3 DEF EventFile
  <2>2. QED
    BY <1>1, <1>2, <1>3, <1>4, <1>5, <2>1 DEF EventFile
<1>8. QED
  BY <1>6, <1>7

(* The file stays one of the script that runs. *)
LEMMA EventFileStays ==
    ASSUME EventFile, [EventNext]_linesVars
    PROVE  EventFile' /\ converter' = converter /\ declared' = declared
<1>1. ASSUME NEW r \in EventRecords[converter], Taking(r) PROVE EventFile'
  BY <1>1, EventIsRead
<1>2. ASSUME Ending \/ Refuse \/ UNCHANGED linesVars PROVE EventFile'
  <2>1. UNCHANGED <<fed, converter, declared>>
    BY <1>2 DEF Ending, Refuse, linesVars
  <2>2. QED
    BY <2>1 DEF EventFile
<1>3. converter' = converter /\ declared' = declared
  BY EventsEndOnce DEF EventNext, Taking, Ending, Refuse, linesVars
<1>4. QED
  BY <1>1, <1>2, <1>3, EventsEndOnce DEF EventNext

(* No record is a file. *)
LEMMA EventsBegin == EventInit => EventFile
<1>1. <<>> \in Seq(EventRecords[converter]) /\ DOMAIN <<>> = {} /\ Len(<<>>) = 0
  BY FewRows
<1>2. QED
  BY <1>1 DEF EventInit, Starting, EventFile

-----------------------------------------------------------------------------
(* The intervals of the video detectors. *)

DetectorRuns == converter = "detector intervals"

(* An interval has ends in the file, in their order. *)
IntervalIsSo(l, n) ==
    /\ l = [detector |-> l.detector, status |-> l.status, start |-> l.start, tag |-> l.tag, end |-> l.end]
    /\ l.start \in 1..n \cup {Absent} /\ l.end \in 1..n \cup {Absent}
    /\ l.start # Absent /\ l.end # Absent => l.start <= l.end

(* What IntervalsAreDisjoint says of two intervals of a detector. *)
Apart(a, b) ==
    /\ a.status # "OPEN"
    /\ a.end # Absent /\ b.start # Absent => a.end <= b.start

IntervalsAreSo(s, n) ==
    /\ IsRows(s)
    /\ \A i \in DOMAIN s : IntervalIsSo(s[i], n)
    /\ \A i, j \in DOMAIN s : i < j /\ s[i].detector = s[j].detector => Apart(s[i], s[j])

(* The open interval of a detector, if there is one, is its last; the others *)
(* have ended by then. *)
OpenAt(s, detector, at, floor) ==
    /\ \A i \in DOMAIN s : s[i].detector = detector =>
          /\ s[i].end # Absent => s[i].end <= floor
          /\ s[i].status = "OPEN" => i = at
    /\ at # 0 =>
          /\ at \in DOMAIN s /\ s[at].detector = detector /\ s[at].status = "OPEN" /\ s[at].end = Absent
          /\ \A i \in DOMAIN s : s[i].detector = detector => i <= at

(* An interval of some frames is one of more. *)
LEMMA IntervalLasts ==
    ASSUME NEW l, NEW n \in Nat, IntervalIsSo(l, n)
    PROVE  IntervalIsSo(l, n + 1)
<1>1. 1..n \subseteq 1..(n + 1)
  OBVIOUS
<1>2. QED
  BY <1>1 DEF IntervalIsSo

(* The fields of a new interval. *)
LEMMA FreshInterval ==
    ASSUME NEW d, NEW start, NEW tag
    PROVE  LET l == NewInterval(d, start, tag) IN
           /\ l.detector = d /\ l.status = "OPEN" /\ l.start = start /\ l.tag = tag /\ l.end = Absent
           /\ l = [detector |-> l.detector, status |-> l.status, start |-> l.start, tag |-> l.tag, end |-> l.end]
  BY DEF NewInterval

(* A start is unknown, or a frame that is read and not before a floor. *)
StartsFrom(start, n, floor) == start = Absent \/ (start \in 1..n /\ floor <= start)

IntervalBegun(s, d, start, tag) == Append(s, NewInterval(d, start, tag))

(* An interval that begins does so where no other of its detector is open. *)
LEMMA IntervalBegins ==
    ASSUME NEW s, NEW n \in Nat, IntervalsAreSo(s, n), NEW d, NEW floor \in Nat, OpenAt(s, d, 0, floor),
           NEW start, StartsFrom(start, n, floor), NEW tag,
           NEW t, t = IntervalBegun(s, d, start, tag), Absent \notin Int
    PROVE  /\ IntervalsAreSo(t, n) /\ OpenAt(t, d, Len(t), floor) /\ Len(t) = Len(s) + 1 /\ Len(s) \in Nat
           /\ \A e, at, f : e # d /\ OpenAt(s, e, at, f) => OpenAt(t, e, at, f)
<1> DEFINE l == NewInterval(d, start, tag)
           m == Len(s)
<1>1. /\ l.detector = d /\ l.status = "OPEN" /\ l.start = start /\ l.end = Absent
      /\ l = [detector |-> l.detector, status |-> l.status, start |-> l.start, tag |-> l.tag, end |-> l.end]
  BY FreshInterval
<1> HIDE DEF l
<1>2. /\ IsRows(t) /\ m \in Nat /\ DOMAIN s = 1..m /\ DOMAIN t = 1..(m + 1)
      /\ \A i \in DOMAIN s : t[i] = s[i]
      /\ t[m + 1] = l
  BY AppendedRow DEF l, IntervalsAreSo, IntervalBegun
<1>3. Len(t) = m + 1
  <2>1. Len(t) \in Nat /\ DOMAIN t = 1..Len(t)
    <3>1. PICK S : t \in Seq(S)
      BY <1>2 DEF IsRows
    <3>2. QED
      BY <3>1, LenProperties
  <2>2. QED
    BY <1>2, <2>1
<1> HIDE DEF m
<1>4. /\ \A i : i \in DOMAIN t <=> i \in DOMAIN s \/ i = m + 1
      /\ m + 1 \notin DOMAIN s /\ m + 1 \in DOMAIN t
      /\ \A i \in DOMAIN s : i < m + 1 /\ i <= m + 1 /\ ~(m + 1 < i) /\ i # 0
      /\ ~(m + 1 < m + 1) /\ m + 1 # 0 /\ m + 1 <= m + 1
  BY <1>2
<1>5. IntervalIsSo(l, n)
  BY <1>1 DEF IntervalIsSo, StartsFrom
<1>6. ASSUME NEW i \in DOMAIN s, s[i].detector = d PROVE Apart(s[i], l)
  <2>1. s[i].status # "OPEN" /\ (s[i].end # Absent => s[i].end <= floor)
    BY <1>4, <1>6 DEF OpenAt
  <2>2. s[i].end \in 1..n \cup {Absent}
    BY DEF IntervalsAreSo, IntervalIsSo
  <2>3. QED
    BY <1>1, <2>1, <2>2 DEF Apart, StartsFrom
<1>7. IntervalsAreSo(t, n)
  <2>1. \A i \in DOMAIN t : IntervalIsSo(t[i], n)
    BY <1>2, <1>4, <1>5 DEF IntervalsAreSo
  <2>2. ASSUME NEW i \in DOMAIN t, NEW j \in DOMAIN t, i < j, t[i].detector = t[j].detector
        PROVE  Apart(t[i], t[j])
    <3>1. CASE j \in DOMAIN s
      <4>1. i \in DOMAIN s
        BY <1>4, <2>2, <3>1
      <4>2. QED
        BY <1>2, <2>2, <3>1, <4>1 DEF IntervalsAreSo
    <3>2. CASE j = m + 1
      <4>1. i \in DOMAIN s
        BY <1>4, <2>2, <3>2
      <4>2. QED
        BY <1>1, <1>2, <1>6, <2>2, <3>2, <4>1
    <3>3. QED
      BY <1>4, <3>1, <3>2
  <2>3. QED
    BY <1>2, <2>1, <2>2 DEF IntervalsAreSo
<1>8. OpenAt(t, d, m + 1, floor)
  <2>1. ASSUME NEW i \in DOMAIN t, t[i].detector = d
        PROVE  /\ t[i].end # Absent => t[i].end <= floor
               /\ t[i].status = "OPEN" => i = m + 1
               /\ i <= m + 1
    BY <1>1, <1>2, <1>4, <2>1 DEF OpenAt
  <2>2. m + 1 \in DOMAIN t /\ t[m + 1].detector = d /\ t[m + 1].status = "OPEN" /\ t[m + 1].end = Absent
    BY <1>1, <1>2, <1>4
  <2>3. QED
    BY <2>1, <2>2 DEF OpenAt
<1>9. ASSUME NEW e, NEW at, NEW f, e # d, OpenAt(s, e, at, f) PROVE OpenAt(t, e, at, f)
  BY <1>1, <1>2, <1>4, <1>9 DEF OpenAt
<1>10. QED
  BY <1>2, <1>3, <1>7, <1>8, <1>9 DEF m

(* Closing an interval gives it its end and a status that is not open. *)
LEMMA ClosedInterval ==
    ASSUME NEW l, l = [detector |-> l.detector, status |-> l.status, start |-> l.start, tag |-> l.tag, end |-> l.end]
    PROVE  /\ Closed(l).detector = l.detector /\ Closed(l).start = l.start /\ Closed(l).end = Here
           /\ Closed(l).status # "OPEN"
           /\ Closed(l) = [detector |-> Closed(l).detector, status |-> Closed(l).status,
                            start |-> Closed(l).start, tag |-> Closed(l).tag, end |-> Closed(l).end]
<1> DEFINE x == IF l.status = "OPEN" THEN "CLOSED" ELSE "END_WITHOUT_START"
           a == [l EXCEPT !.end = Here]
<1>1. x # "OPEN"
  OBVIOUS
<1>2. Closed(l) = [l EXCEPT !.end = Here, !.status = x]
  <2>1. a.status = l.status
    OBVIOUS
  <2>2. QED
    BY DEF Closed
<1> HIDE DEF x
<1>3. QED
  BY <1>1, <1>2

(* An interval that ends, as its open line or as a line of its own. *)
LEMMA IntervalEnds ==
    ASSUME NEW s, NEW n \in Nat, n >= 1, IntervalsAreSo(s, n), NEW d, NEW at, NEW floor \in Nat,
           floor <= n, OpenAt(s, d, at, floor), Here = n,
           NEW t, t = ReplaceOrAppend(s, at, Unstarted(d)), Absent \notin Int
    PROVE  /\ IntervalsAreSo(t, n) /\ OpenAt(t, d, 0, n)
           /\ \A e, a, f : e # d /\ OpenAt(s, e, a, f) => OpenAt(t, e, a, f)
<1> DEFINE l == IF at = 0 THEN Unstarted(d) ELSE s[at]
           c == Closed(l)
           m == Len(s)
<1>1. n \in 1..n
  OBVIOUS
<1>2. /\ l.detector = d /\ l.start \in 1..n \cup {Absent}
      /\ l = [detector |-> l.detector, status |-> l.status, start |-> l.start, tag |-> l.tag, end |-> l.end]
  <2>1. CASE at = 0
    <3> DEFINE u == NewInterval(d, Absent, Absent)
               w == Unstarted(d)
    <3>1. u.detector = d /\ u.start = Absent
          /\ u = [detector |-> u.detector, status |-> u.status, start |-> u.start, tag |-> u.tag, end |-> u.end]
      BY FreshInterval
    <3>2. w = [u EXCEPT !.status = "NOT_STARTED"]
      BY DEF Unstarted
    <3> HIDE DEF u, w
    <3>3. w.detector = d /\ w.start = Absent
          /\ w = [detector |-> w.detector, status |-> w.status, start |-> w.start, tag |-> w.tag, end |-> w.end]
      BY <3>1, <3>2
    <3>4. l = w
      BY <2>1 DEF w
    <3>5. QED
      BY <3>3, <3>4
  <2>2. CASE at # 0
    <3>1. at \in DOMAIN s /\ s[at].detector = d /\ IntervalIsSo(s[at], n)
      BY <2>2 DEF OpenAt, IntervalsAreSo
    <3>2. QED
      BY <2>2, <3>1 DEF IntervalIsSo
  <2>3. QED
    BY <2>1, <2>2
<1> HIDE DEF l
<1>3. /\ c.detector = d /\ c.start = l.start /\ c.end = n /\ c.status # "OPEN"
      /\ c = [detector |-> c.detector, status |-> c.status, start |-> c.start, tag |-> c.tag, end |-> c.end]
  BY <1>2, ClosedInterval
<1> HIDE DEF c
<1>4. IntervalIsSo(c, n)
  BY <1>1, <1>2, <1>3 DEF IntervalIsSo
<1>5. CASE at = 0
  <2>1. t = Append(s, c)
    BY <1>5 DEF ReplaceOrAppend, c, l
  <2>2. /\ IsRows(t) /\ m \in Nat /\ DOMAIN s = 1..m /\ DOMAIN t = 1..(m + 1)
        /\ \A i \in DOMAIN s : t[i] = s[i]
        /\ t[m + 1] = c
    BY <2>1, AppendedRow DEF IntervalsAreSo
  <2> HIDE DEF m
  <2>3. /\ \A i : i \in DOMAIN t <=> i \in DOMAIN s \/ i = m + 1
        /\ m + 1 \notin DOMAIN s /\ m + 1 \in DOMAIN t
        /\ \A i \in DOMAIN s : i < m + 1 /\ ~(m + 1 < i) /\ i # 0
        /\ ~(m + 1 < m + 1) /\ m + 1 # 0
    BY <2>2
  <2>4. l.start = Absent
    BY <1>5, FreshInterval DEF l, Unstarted, NewInterval
  <2>5. ASSUME NEW i \in DOMAIN s, s[i].detector = d
        PROVE  /\ Apart(s[i], c) /\ s[i].status # "OPEN"
               /\ s[i].end # Absent => s[i].end <= n
    <3>1. s[i].status # "OPEN" /\ (s[i].end # Absent => s[i].end <= floor)
      BY <1>5, <2>3, <2>5 DEF OpenAt
    <3>2. s[i].end \in 1..n \cup {Absent}
      BY DEF IntervalsAreSo, IntervalIsSo
    <3>3. QED
      BY <1>3, <2>4, <3>1, <3>2 DEF Apart
  <2>6. IntervalsAreSo(t, n)
    <3>1. \A i \in DOMAIN t : IntervalIsSo(t[i], n)
      BY <1>4, <2>2, <2>3 DEF IntervalsAreSo
    <3>2. ASSUME NEW i \in DOMAIN t, NEW j \in DOMAIN t, i < j, t[i].detector = t[j].detector
          PROVE  Apart(t[i], t[j])
      <4>1. i \in DOMAIN s
        BY <2>3, <3>2
      <4>2. CASE j \in DOMAIN s
        BY <2>2, <3>2, <4>1, <4>2 DEF IntervalsAreSo
      <4>3. CASE j = m + 1
        BY <1>3, <2>2, <2>5, <3>2, <4>1, <4>3
      <4>4. QED
        BY <2>3, <4>2, <4>3
    <3>3. QED
      BY <2>2, <3>1, <3>2 DEF IntervalsAreSo
  <2>7. OpenAt(t, d, 0, n)
    <3>1. n <= n
      OBVIOUS
    <3>2. QED
      BY <1>3, <2>2, <2>3, <2>5, <3>1 DEF OpenAt
  <2>8. ASSUME NEW e, NEW a, NEW f, e # d, OpenAt(s, e, a, f) PROVE OpenAt(t, e, a, f)
    BY <1>3, <2>2, <2>3, <2>8 DEF OpenAt
  <2>9. QED
    BY <2>6, <2>7, <2>8
<1>6. CASE at # 0
  <2>1. t = [s EXCEPT ![at] = c] /\ at \in DOMAIN s /\ s[at].detector = d /\ l = s[at]
    BY <1>6 DEF ReplaceOrAppend, c, l, OpenAt
  <2>2. /\ IsRows(t) /\ DOMAIN t = DOMAIN s /\ t[at] = c /\ DOMAIN s = 1..m /\ m \in Nat
        /\ \A i \in DOMAIN s : i # at => t[i] = s[i]
    <3>1. IsRows(s)
      BY DEF IntervalsAreSo
    <3>2. at \in DOMAIN s /\ t = [s EXCEPT ![at] = c]
      BY <2>1
    <3>3. /\ IsRows(t) /\ DOMAIN t = DOMAIN s /\ t[at] = c
          /\ \A i \in DOMAIN s : i # at => t[i] = s[i]
          /\ Len(s) \in Nat /\ DOMAIN s = 1..Len(s)
      BY <3>1, <3>2, ReplacedRow, Zenon
    <3>4. QED
      BY <3>3
  <2> HIDE DEF m
  <2>3. ASSUME NEW i \in DOMAIN t PROVE t[i].detector = s[i].detector /\ t[i].start = s[i].start
    BY <1>3, <2>1, <2>2
  <2>4. IntervalsAreSo(t, n)
    <3>1. \A i \in DOMAIN t : IntervalIsSo(t[i], n)
      BY <1>4, <2>2 DEF IntervalsAreSo
    <3>2. ASSUME NEW i \in DOMAIN t, NEW j \in DOMAIN t, i < j, t[i].detector = t[j].detector
          PROVE  Apart(t[i], t[j])
      <4>1. Apart(s[i], s[j])
        BY <2>2, <2>3, <3>2 DEF IntervalsAreSo
      <4>2. i # at
        <5>1. SUFFICES ASSUME i = at PROVE FALSE
          OBVIOUS
        <5>2. s[j].detector = d
          BY <2>1, <2>2, <2>3, <3>2, <5>1
        <5>3. j <= at
          BY <1>6, <2>2, <5>2 DEF OpenAt
        <5>4. QED
          BY <2>2, <3>2, <5>1, <5>3
      <4>3. t[i] = s[i]
        BY <2>2, <4>2
      <4>4. QED
        BY <2>2, <2>3, <4>1, <4>3 DEF Apart
    <3>3. QED
      BY <2>2, <3>1, <3>2 DEF IntervalsAreSo
  <2>5. OpenAt(t, d, 0, n)
    <3>1. ASSUME NEW i \in DOMAIN t, t[i].detector = d
          PROVE  (t[i].end # Absent => t[i].end <= n) /\ t[i].status # "OPEN"
      <4>1. CASE i = at
        BY <1>3, <2>2, <4>1
      <4>2. CASE i # at
        <5>1. t[i] = s[i]
          BY <2>2, <4>2
        <5>2. s[i].end \in 1..n \cup {Absent}
          BY <2>2 DEF IntervalsAreSo, IntervalIsSo
        <5>3. s[i].end # Absent => s[i].end <= floor
          BY <2>2, <3>1, <5>1 DEF OpenAt
        <5>4. s[i].status # "OPEN"
          BY <2>2, <3>1, <4>2, <5>1 DEF OpenAt
        <5>5. QED
          BY <5>1, <5>2, <5>3, <5>4
      <4>3. QED
        BY <4>1, <4>2
    <3>2. QED
      BY <3>1 DEF OpenAt
  <2>6. ASSUME NEW e, NEW a, NEW f, e # d, OpenAt(s, e, a, f) PROVE OpenAt(t, e, a, f)
    <3>1. ASSUME NEW i \in DOMAIN t, t[i].detector = e PROVE t[i] = s[i] /\ s[i].detector = e
      BY <2>1, <2>2, <2>3, <2>6, <3>1
    <3>2. a # 0 => a \in DOMAIN t /\ t[a] = s[a]
      BY <2>1, <2>2, <2>6 DEF OpenAt
    <3>3. QED
      BY <2>2, <2>6, <3>1, <3>2 DEF OpenAt
  <2>7. QED
    BY <2>4, <2>5, <2>6
<1>7. QED
  BY <1>5, <1>6

(* The detectors start with nothing open. *)
LEMMA DetectorStarts == DetectorRuns => EventStart = DetectorStart
  BY Zenon DEF DetectorRuns, EventStart

(* A round of this loop, and what follows it. *)
LEMMA DetectorSteps ==
    /\ \A r : DetectorRuns /\ EventStep(r) => DetectorFrame(r)
    /\ DetectorRuns /\ EventEnd => DetectorEnd
<1>1. ASSUME NEW r, DetectorRuns, EventStep(r) PROVE DetectorFrame(r)
  BY <1>1, Zenon DEF EventStep, DetectorRuns
<1>2. DetectorRuns /\ EventEnd => DetectorEnd
  BY Zenon DEF EventEnd, DetectorRuns
<1>3. QED
  BY <1>1, <1>2

(* Which detectors may be declared. *)
LEMMA DetectorsAreKnown ==
    ASSUME DetectorRuns, EventFile
    PROVE  declared \subseteq {"black", "freeze"} /\ Absent \notin Int
  BY Zenon, EventAssumption DEF DetectorRuns, EventFile

(* The lines are intervals of the frames read, and what is held says which of *)
(* them are open and when the last freeze ended. *)
DetectorHolds(h, s, n) ==
    /\ IntervalsAreSo(s, n)
    /\ OpenAt(s, "black", h.black, n) /\ OpenAt(s, "freeze", h.freeze, h.floor)
    /\ h.floor \in Nat \ {0} /\ h.floor <= (IF n = 0 THEN 1 ELSE n)

(* While the loop runs and after it. *)
DetectorInv ==
    DetectorRuns =>
        IF verdict = "reading" THEN DetectorHolds(held, lines, Len(fed)) ELSE IntervalsAreSo(lines, Len(fed))

(* A later frame does not disturb what is held. *)
LEMMA OpenLater ==
    ASSUME NEW s, NEW n \in Nat, IntervalsAreSo(s, n), NEW d, NEW at, NEW f \in Nat, OpenAt(s, d, at, f),
           NEW g \in Nat, f <= g, Absent \notin Int
    PROVE  OpenAt(s, d, at, g) /\ IntervalsAreSo(s, n + 1)
<1>1. ASSUME NEW i \in DOMAIN s, s[i].end # Absent, s[i].end <= f PROVE s[i].end <= g
  <2>1. s[i].end \in 1..n
    BY <1>1 DEF IntervalsAreSo, IntervalIsSo
  <2>2. QED
    BY <1>1, <2>1
<1>2. OpenAt(s, d, at, g)
  BY <1>1 DEF OpenAt
<1>3. IntervalsAreSo(s, n + 1)
  BY IntervalLasts DEF IntervalsAreSo
<1>4. QED
  BY <1>2, <1>3

(* What a black tag does to the lines. *)
LEMMA BlackIsTagged ==
    ASSUME NEW r, NEW n \in Nat, n >= 1, Here = n, IntervalsAreSo(lines, n), Absent \notin Int,
           OpenAt(lines, "black", held.black, n), r.black = "start" => held.black = 0,
           NEW b, b = CASE r.black = "start" -> Len(BlackTag(r, lines)) [] r.black = "end" -> 0
                        [] OTHER -> held.black
    PROVE  /\ IntervalsAreSo(BlackTag(r, lines), n)
           /\ OpenAt(BlackTag(r, lines), "black", b, n)
           /\ \A a, f : OpenAt(lines, "freeze", a, f) => OpenAt(BlackTag(r, lines), "freeze", a, f)
<1> DEFINE t == BlackTag(r, lines)
<1>0. n \in 1..n /\ n <= n /\ "freeze" # "black"
  OBVIOUS
<1>1. CASE r.black = "start"
  <2>1. t = IntervalBegun(lines, "black", n, n) /\ b = Len(t) /\ held.black = 0
    BY <1>1 DEF BlackTag, IntervalBegun
  <2>2. OpenAt(lines, "black", 0, n)
    BY <2>1
  <2> HIDE DEF t
  <2>3. StartsFrom(n, n, n)
    BY <1>0 DEF StartsFrom
  <2>4. /\ IntervalsAreSo(t, n) /\ OpenAt(t, "black", Len(t), n)
        /\ \A e, at, f : e # "black" /\ OpenAt(lines, e, at, f) => OpenAt(t, e, at, f)
    BY <2>1, <2>2, <2>3, IntervalBegins
  <2>5. QED
    BY <1>0, <2>1, <2>4 DEF t
<1>2. CASE r.black = "end"
  <2>1. t = ReplaceOrAppend(lines, held.black, Unstarted("black")) /\ b = 0
    BY <1>2 DEF BlackTag
  <2> HIDE DEF t
  <2>2. QED
    BY <1>0, <2>1, IntervalEnds DEF t
<1>3. CASE r.black # "start" /\ r.black # "end"
  <2>1. t = lines /\ b = held.black
    BY <1>3 DEF BlackTag
  <2>2. QED
    BY <2>1
<1>4. QED
  BY <1>1, <1>2, <1>3

(* What a freeze told does to the lines. *)
LEMMA FreezeIsTold ==
    ASSUME NEW s, NEW n \in Nat, n >= 1, Here = n, IntervalsAreSo(s, n), Absent \notin Int,
           held.floor \in 1..n, NEW time,
           OpenAt(s, "freeze", 0, held.floor),
           NEW t, t = IntervalBegun(s, "freeze", FrozenSince(time), n)
    PROVE  /\ IntervalsAreSo(t, n) /\ OpenAt(t, "freeze", Len(t), held.floor)
           /\ \A a, f : OpenAt(s, "black", a, f) => OpenAt(t, "black", a, f)
<1> DEFINE start == FrozenSince(time)
           found == {i \in held.floor..(n - 1) : fed[i].selected /\ fed[i].pts = time /\ time # Absent}
<1>1. StartsFrom(start, n, held.floor)
  <2>1. start = IF Cardinality(found) = 1 THEN CHOOSE i \in found : TRUE ELSE Absent
    BY DEF FrozenSince
  <2>2. CASE Cardinality(found) = 1
    <3>1. \A i \in found : i \in 1..n /\ held.floor <= i
      OBVIOUS
    <3> HIDE DEF found
    <3>2. Cardinality({}) = 0
      BY FS_EmptySet
    <3>3. found # {}
      <4>1. found = {} => Cardinality(found) = Cardinality({})
        BY Zenon
      <4>2. QED
        BY <2>2, <3>2, <4>1
    <3>4. start \in found
      BY <2>1, <2>2, <3>3
    <3>5. QED
      BY <3>1, <3>4 DEF StartsFrom
  <2>3. QED
    BY <2>1, <2>2 DEF StartsFrom
<1>2. "black" # "freeze"
  OBVIOUS
<1>3. t = IntervalBegun(s, "freeze", start, n) /\ held.floor \in Nat
  OBVIOUS
<1> HIDE DEF start
<1>4. /\ IntervalsAreSo(t, n) /\ OpenAt(t, "freeze", Len(t), held.floor)
      /\ \A e, at, f : e # "freeze" /\ OpenAt(s, e, at, f) => OpenAt(t, e, at, f)
  BY <1>1, <1>3, IntervalBegins
<1>5. QED
  BY <1>2, <1>4
(* A selected frame. *)
LEMMA DetectorFrameHolds ==
    ASSUME NEW n \in Nat, DetectorHolds(held, lines, n), Here = n + 1, NEW r, DetectorFrame(r),
           Absent \notin Int
    PROVE  DetectorHolds(held', lines', n + 1)
<1> DEFINE p == n + 1
           black == BlackTag(r, lines)
           frozen == IF r.frozen = Absent THEN black
                     ELSE Append(black, NewInterval("freeze", FrozenSince(r.frozen), Here))
           open == IF r.frozen = Absent THEN held.freeze ELSE Len(frozen)
           b == CASE r.black = "start" -> Len(black) [] r.black = "end" -> 0 [] OTHER -> held.black
<1>1. /\ p \in Nat /\ p >= 1 /\ Here = p /\ n <= p /\ p <= p
      /\ held.floor \in Nat /\ held.floor \in 1..p /\ held.floor <= p
  BY DEF DetectorHolds
<1>2. /\ IntervalsAreSo(lines, p) /\ OpenAt(lines, "black", held.black, p)
      /\ OpenAt(lines, "freeze", held.freeze, held.floor)
  BY <1>1, OpenLater DEF DetectorHolds
<1>3. CASE UNCHANGED <<lines, held>>
  <2>1. held' = held /\ lines' = lines
    BY <1>3
  <2>2. p # 0
    BY <1>1
  <2>3. QED
    BY <1>1, <1>2, <2>1, <2>2 DEF DetectorHolds
<1>4. CASE r.selected
  <2>1. /\ r.black = "start" => held.black = 0
        /\ r.frozen # Absent => held.freeze = 0
        /\ lines' = IF r.thawed THEN ReplaceOrAppend(frozen, open, Unstarted("freeze")) ELSE frozen
        /\ held' = [black |-> b, freeze |-> IF r.thawed THEN 0 ELSE open,
                    floor |-> IF r.thawed THEN Here ELSE held.floor]
    BY <1>4 DEF DetectorFrame, Hold
  <2>2. /\ IntervalsAreSo(black, p) /\ OpenAt(black, "black", b, p)
        /\ OpenAt(black, "freeze", held.freeze, held.floor)
    <3> HIDE DEF p
    <3>1. QED
      BY <1>1, <1>2, <2>1, BlackIsTagged
  <2> HIDE DEF black, b, p
  <2>3. /\ IntervalsAreSo(frozen, p) /\ OpenAt(frozen, "black", b, p)
        /\ OpenAt(frozen, "freeze", open, held.floor)
    <3>1. CASE r.frozen = Absent
      BY <2>2, <3>1
    <3>2. CASE r.frozen # Absent
      <4>1. frozen = IntervalBegun(black, "freeze", FrozenSince(r.frozen), p) /\ open = Len(frozen)
        BY <1>1, <3>2 DEF IntervalBegun
      <4> HIDE DEF frozen, open
      <4>2. OpenAt(black, "freeze", 0, held.floor)
        BY <2>1, <2>2, <3>2
      <4>3. QED
        BY <1>1, <2>2, <4>1, <4>2, FreezeIsTold
    <3>3. QED
      BY <3>1, <3>2
  <2> HIDE DEF frozen, open
  <2>4. CASE r.thawed
    <3>1. /\ lines' = ReplaceOrAppend(frozen, open, Unstarted("freeze"))
          /\ held'.black = b /\ held'.freeze = 0 /\ held'.floor = p
      BY <1>1, <2>1, <2>4
    <3>2. /\ IntervalsAreSo(lines', p) /\ OpenAt(lines', "freeze", 0, p)
          /\ \A e, a, f : e # "freeze" /\ OpenAt(frozen, e, a, f) => OpenAt(lines', e, a, f)
      BY <1>1, <2>3, <3>1, IntervalEnds
    <3>3. "black" # "freeze"
      OBVIOUS
    <3>4. DetectorHolds(held', lines', p)
      BY <1>1, <2>3, <3>1, <3>2, <3>3 DEF DetectorHolds
    <3>5. QED
      BY <3>4 DEF p
  <2>5. CASE ~r.thawed
    <3>1. lines' = frozen /\ held'.black = b /\ held'.freeze = open /\ held'.floor = held.floor
      BY <2>1, <2>5
    <3>2. DetectorHolds(held', lines', p)
      BY <1>1, <2>3, <3>1 DEF DetectorHolds
    <3>3. QED
      BY <3>2 DEF p
  <2>6. QED
    BY <2>4, <2>5
<1>5. QED
  BY <1>3, <1>4 DEF DetectorFrame, PassOver

(* Detectors that told nothing get a line of their own. *)
LEMMA DetectorEndHolds ==
    ASSUME NEW n \in Nat, IntervalsAreSo(lines, n), declared \subseteq {"black", "freeze"}, DetectorEnd
    PROVE  IntervalsAreSo(lines', n)
<1> DEFINE silent == {d \in declared : \A i \in DOMAIN lines : lines[i].detector # d}
           row(d) == [NewInterval(d, Absent, Absent) EXCEPT !.status = "NO_INTERVAL_REPORTED"]
<1>1. PICK order \in SetToSeqs(silent) : lines' = lines \o [i \in DOMAIN order |-> row(order[i])]
  BY DEF DetectorEnd, CarryAll
<1> DEFINE rows == [i \in DOMAIN order |-> row(order[i])]
           k == Cardinality(silent)
<1>2. /\ k \in Nat /\ DOMAIN order = 1..k /\ \A i \in 1..k : order[i] \in silent
      /\ \A i, j \in 1..k : i # j => order[i] # order[j]
  <2>1. IsFiniteSet({"black", "freeze"})
    <3>1. IsFiniteSet({"black"})
      BY FS_Singleton
    <3>2. {"black", "freeze"} = {"black"} \cup {"freeze"}
      OBVIOUS
    <3>3. QED
      BY <3>1, <3>2, FS_AddElement
  <2>2. IsFiniteSet(silent) /\ k \in Nat
    BY <2>1, FS_Subset, FS_CardinalityType
  <2>3. order \in [1..k -> silent] /\ \A i, j \in 1..k : i # j => order[i] # order[j]
    BY DEF SetToSeqs
  <2> HIDE DEF silent, k
  <2>4. QED
    BY <2>2, <2>3
<1>3. ASSUME NEW i \in 1..k
      PROVE  /\ rows[i].detector = order[i] /\ IntervalIsSo(rows[i], n)
             /\ \A m \in DOMAIN lines : lines[m].detector # rows[i].detector
  <2> DEFINE u == NewInterval(order[i], Absent, Absent)
             w == row(order[i])
  <2>1. /\ u.detector = order[i] /\ u.start = Absent /\ u.end = Absent
        /\ u = [detector |-> u.detector, status |-> u.status, start |-> u.start, tag |-> u.tag, end |-> u.end]
    BY FreshInterval
  <2>2. order[i] \in silent
    BY <1>2
  <2>3. rows[i] = w /\ w = [u EXCEPT !.status = "NO_INTERVAL_REPORTED"]
    BY <1>2
  <2> HIDE DEF u, w, rows
  <2>4. /\ w.detector = order[i] /\ w.start = Absent /\ w.end = Absent
        /\ w = [detector |-> w.detector, status |-> w.status, start |-> w.start, tag |-> w.tag, end |-> w.end]
    BY <2>1, <2>3
  <2>5. IntervalIsSo(w, n)
    BY <2>4 DEF IntervalIsSo
  <2>6. \A m \in DOMAIN lines : lines[m].detector # order[i]
    BY <2>2
  <2>7. QED
    BY <2>3, <2>4, <2>5, <2>6
<1>4. DOMAIN rows = 1..k /\ IsRows(rows)
  <2>1. DOMAIN rows = 1..k
    BY <1>2
  <2> DEFINE S == {rows[i] : i \in 1..k}
  <2> HIDE DEF rows, k
  <2>2. rows = [i \in 1..k |-> rows[i]]
    BY <1>2 DEF rows
  <2>3. rows \in [1..k -> S]
    BY <2>2
  <2>4. k \in Nat
    BY <1>2
  <2>5. rows \in Seq(S)
    BY <2>3, <2>4, SeqDef
  <2>6. QED
    BY <2>1, <2>5 DEF IsRows
<1> HIDE DEF rows, k, silent
<1>5. IsRows(lines) /\ lines' = lines \o rows
  BY <1>1 DEF IntervalsAreSo, rows
<1>6. /\ IsRows(lines')
      /\ \A i \in DOMAIN lines : i \in DOMAIN lines' /\ lines'[i] = lines[i]
      /\ \A j \in DOMAIN rows : Len(lines) + j \in DOMAIN lines' /\ lines'[Len(lines) + j] = rows[j]
      /\ \A m \in DOMAIN lines' : m \in DOMAIN lines \/ \E j \in DOMAIN rows : m = Len(lines) + j
      /\ Len(lines) \in Nat /\ DOMAIN lines = 1..Len(lines)
  <2>1. /\ IsRows(lines \o rows)
        /\ \A i \in DOMAIN lines : i \in DOMAIN (lines \o rows) /\ (lines \o rows)[i] = lines[i]
        /\ \A j \in DOMAIN rows :
              Len(lines) + j \in DOMAIN (lines \o rows) /\ (lines \o rows)[Len(lines) + j] = rows[j]
        /\ \A m \in DOMAIN (lines \o rows) : m \in DOMAIN lines \/ \E j \in DOMAIN rows : m = Len(lines) + j
        /\ Len(lines) \in Nat /\ DOMAIN lines = 1..Len(lines)
    BY <1>4, <1>5, ConcatRows
  <2> DEFINE all == lines \o rows
  <2>2. lines' = all
    BY <1>5
  <2> HIDE DEF all
  <2>3. QED
    BY <2>1, <2>2 DEF all
<1>7. \A i \in DOMAIN lines' : IntervalIsSo(lines'[i], n)
  BY <1>3, <1>4, <1>6 DEF IntervalsAreSo
<1>8. ASSUME NEW i \in DOMAIN lines', NEW j \in DOMAIN lines', i < j, lines'[i].detector = lines'[j].detector
      PROVE  Apart(lines'[i], lines'[j])
  <2>1. CASE j \in DOMAIN lines
    <3>1. i \in DOMAIN lines
      BY <1>4, <1>6, <1>8, <2>1
    <3>2. QED
      BY <1>6, <1>8, <2>1, <3>1 DEF IntervalsAreSo
  <2>2. CASE \E y \in DOMAIN rows : j = Len(lines) + y
    <3>1. PICK y \in DOMAIN rows : j = Len(lines) + y
      BY <2>2
    <3>2. lines'[j] = rows[y] /\ y \in 1..k
      BY <1>4, <1>6, <3>1
    <3>3. i \notin DOMAIN lines
      BY <1>3, <1>6, <1>8, <3>2
    <3>4. PICK x \in DOMAIN rows : i = Len(lines) + x
      BY <1>6, <3>3
    <3>5. lines'[i] = rows[x] /\ x \in 1..k /\ x # y
      BY <1>4, <1>6, <1>8, <3>1, <3>4
    <3>6. QED
      BY <1>2, <1>3, <1>8, <3>2, <3>5
  <2>3. QED
    BY <1>6, <2>1, <2>2
<1>9. QED
  BY <1>6, <1>7, <1>8 DEF IntervalsAreSo

(* Intervals of a detector never overlap, whatever the frames tell. *)
LEMMA IntervalsHold == EventSpec => []IntervalsAreDisjoint
<1>1. EventInit => EventFile /\ DetectorInv
  <2>1. EventInit => EventFile
    BY EventsBegin
  <2>2. ASSUME EventInit, DetectorRuns PROVE DetectorInv
    <3>1. held = DetectorStart /\ lines = <<>> /\ fed = <<>> /\ verdict = "reading"
      BY <2>2, DetectorStarts DEF EventInit, Starting
    <3>2. Len(fed) = 0
      BY <3>1
    <3>3. held.black = 0 /\ held.freeze = 0 /\ held.floor = 1
      BY <3>1 DEF DetectorStart
    <3>4. IsRows(lines) /\ DOMAIN lines = {}
      BY <3>1, FewRows
    <3>5. DetectorHolds(held, lines, 0)
      BY <3>3, <3>4 DEF DetectorHolds, IntervalsAreSo, OpenAt
    <3>6. QED
      BY <3>1, <3>2, <3>5 DEF DetectorInv
  <2>3. QED
    BY <2>1, <2>2 DEF DetectorInv
<1>2. EventFile /\ DetectorInv /\ [EventNext]_linesVars => EventFile' /\ DetectorInv'
  <2> SUFFICES ASSUME EventFile, DetectorInv, [EventNext]_linesVars, DetectorRuns' PROVE DetectorInv'
    BY EventFileStays DEF DetectorInv
  <2>0. DetectorRuns /\ Absent \notin Int /\ declared \subseteq {"black", "freeze"} /\ Len(fed) \in Nat
    <3>1. DetectorRuns
      BY EventFileStays, Zenon DEF DetectorRuns
    <3>2. Len(fed) \in Nat
      BY DEF EventFile
    <3>3. QED
      BY <3>1, <3>2, DetectorsAreKnown
  <2>1. ASSUME NEW r \in EventRecords[converter], Taking(r), EventStep(r) PROVE DetectorInv'
    <3>1. EventRead(r)
      BY <2>1, EventIsRead
    <3>2. verdict = "reading" /\ verdict' = "reading" /\ Here = Len(fed) + 1 /\ Len(fed') = Len(fed) + 1
      BY <3>1 DEF EventRead
    <3>3. DetectorFrame(r)
      BY <2>0, <2>1, DetectorSteps
    <3>4. DetectorHolds(held, lines, Len(fed))
      BY <2>0, <3>2 DEF DetectorInv
    <3>5. DetectorHolds(held', lines', Len(fed) + 1)
      BY <2>0, <3>2, <3>3, <3>4, DetectorFrameHolds
    <3>6. QED
      BY <3>2, <3>5 DEF DetectorInv
  <2>2. ASSUME EventEnd PROVE DetectorInv'
    <3>1. DetectorEnd
      BY <2>0, <2>2, DetectorSteps
    <3>2. verdict = "reading" /\ verdict' = "converted" /\ fed' = fed
      BY <3>1 DEF DetectorEnd, Ending
    <3>3. IntervalsAreSo(lines, Len(fed))
      BY <2>0, <3>2 DEF DetectorInv, DetectorHolds
    <3>4. IntervalsAreSo(lines', Len(fed))
      BY <2>0, <3>1, <3>3, DetectorEndHolds
    <3>5. QED
      BY <3>2, <3>4 DEF DetectorInv
  <2>3. ASSUME Refuse \/ UNCHANGED linesVars PROVE DetectorInv'
    <3>1. lines' = lines /\ held' = held /\ fed' = fed
          /\ (verdict' = verdict \/ (verdict = "reading" /\ verdict' = "refused"))
      BY <2>3 DEF Refuse, linesVars
    <3>2. IntervalsAreSo(lines, Len(fed))
      BY <2>0 DEF DetectorInv, DetectorHolds
    <3>3. QED
      BY <2>0, <3>1, <3>2 DEF DetectorInv
  <2>4. QED
    BY <2>1, <2>2, <2>3 DEF EventNext
<1>3. EventFile /\ DetectorInv => IntervalsAreDisjoint
  <2> SUFFICES ASSUME EventFile, DetectorInv, DetectorRuns PROVE IntervalsAreDisjoint
    BY Zenon DEF IntervalsAreDisjoint, DetectorRuns
  <2>1. IntervalsAreSo(lines, Len(fed))
    BY DEF DetectorInv, DetectorHolds
  <2>2. ASSUME NEW i \in DOMAIN lines, NEW j \in DOMAIN lines, i < j /\ lines[i].detector = lines[j].detector
        PROVE  /\ lines[i].status # "OPEN"
               /\ lines[i].end # Absent /\ lines[j].start # Absent => lines[i].end <= lines[j].start
               /\ lines[j].start # Absent /\ lines[j].end # Absent => lines[j].start <= lines[j].end
    <3>1. Apart(lines[i], lines[j]) /\ IntervalIsSo(lines[j], Len(fed))
      BY <2>1, <2>2 DEF IntervalsAreSo
    <3>2. QED
      BY <3>1 DEF Apart, IntervalIsSo
  <2>3. QED
    BY <2>2, Zenon DEF IntervalsAreDisjoint
<1>4. QED
  BY <1>1, <1>2, <1>3, PTL DEF EventSpec

-----------------------------------------------------------------------------
(* The runs of convert_electrical_events. *)

SamplesRun == converter = "electrical events"

(* The samples are numbers where they are reported. *)
SamplesAre ==
    /\ Absent \notin Int
    /\ declared.window \in Int /\ declared.maxGap \in Int \cup {Absent}
    /\ \A i \in DOMAIN fed : fed[i].time \in Int

(* The samples of a file are numbers where they are reported. *)
LEMMA SamplesAreKnown == ASSUME SamplesRun, EventFile PROVE SamplesAre
<1>1. Absent \notin Int
  BY EventAssumption
<1>2. {declared.limit, declared.window} \subseteq Int /\ {declared.release, declared.maxGap} \subseteq Int \cup {Absent}
  BY Zenon, EventAssumption DEF SamplesRun, EventFile
<1>3. \A i \in DOMAIN fed : fed[i].time \in Nat
  BY Zenon, EventAssumption DEF SamplesRun, EventFile
<1>4. QED
  BY <1>1, <1>2, <1>3 DEF SamplesAre

(* A run is a chain of samples with none that begins earlier. *)
Run(k, i) == Chain(k, i) /\ \A m \in 1..(k - 1) : ~Chain(m, i)

(* Runs are the pairs of samples that are one. *)
LEMMA RunsArePairs ==
    ASSUME NEW k \in DOMAIN fed, NEW i \in DOMAIN fed
    PROVE  <<k, i>> \in Runs <=> k <= i /\ Run(k, i)
  BY DEF Runs, Run

(* What a sample more means for the chains. *)
ChainsGrow(n) ==
    /\ \A k, i \in 1..n : Chain(k, i)' <=> Chain(k, i)
    /\ \A k \in 1..n : Chain(k, n + 1)' <=> Chain(k, n) /\ Linked(n + 1)' /\ Inside(n + 1)'
    /\ Chain(n + 1, n + 1)' <=> Usable(n + 1)' /\ Crosses(fed[n + 1].value)'
    /\ \A i \in 1..n : Linked(i)' <=> Linked(i)
    /\ \A k, i \in 1..n : Measure(<<k, i>>)' = Measure(<<k, i>>)

(* A sample linked to the last one and inside continues its chains. *)
LEMMA ChainsAreExtended ==
    ASSUME NEW n \in Nat, DOMAIN fed = 1..n, DOMAIN fed' = 1..(n + 1), \A i \in 1..n : fed'[i] = fed[i],
           declared' = declared
    PROVE  ChainsGrow(n)
<1>1. ASSUME NEW i \in 1..n
      PROVE  /\ Usable(i)' <=> Usable(i)
             /\ Crosses(fed[i].value)' <=> Crosses(fed[i].value)
             /\ Linked(i)' <=> Linked(i)
             /\ Inside(i)' <=> Inside(i)
  <2>1. fed'[i] = fed[i] /\ (i > 1 => fed'[i - 1] = fed[i - 1])
    OBVIOUS
  <2>2. (Usable(i)' <=> Usable(i)) /\ (Crosses(fed[i].value)' <=> Crosses(fed[i].value))
    BY <2>1 DEF Usable, Crosses
  <2>3. Inside(i)' <=> Inside(i)
    BY <2>1, <2>2 DEF Inside, Released
  <2>4. Linked(i)' <=> Linked(i)
    BY <2>1, <2>2 DEF Linked, Usable
  <2>5. QED
    BY <2>2, <2>3, <2>4
<1>2. ASSUME NEW k \in 1..n, NEW i \in 1..n PROVE Chain(k, i)' <=> Chain(k, i)
  <2>1. \A m \in (k + 1)..i : m \in 1..n
    OBVIOUS
  <2>2. QED
    BY <1>1, <2>1 DEF Chain
<1>3. ASSUME NEW k \in 1..n PROVE Chain(k, n + 1)' <=> Chain(k, n) /\ Linked(n + 1)' /\ Inside(n + 1)'
  <2>1. \A m : m \in (k + 1)..(n + 1) <=> m \in (k + 1)..n \/ m = n + 1
    OBVIOUS
  <2>2. \A m \in (k + 1)..n : m \in 1..n
    OBVIOUS
  <2>3. QED
    BY <1>1, <2>1, <2>2 DEF Chain
<1>4. Chain(n + 1, n + 1)' <=> Usable(n + 1)' /\ Crosses(fed[n + 1].value)'
  <2>1. (n + 1 + 1)..(n + 1) = {}
    OBVIOUS
  <2>2. QED
    BY <2>1 DEF Chain
<1>5. ASSUME NEW k \in 1..n, NEW i \in 1..n PROVE Measure(<<k, i>>)' = Measure(<<k, i>>)
  BY DEF Measure
<1>6. QED
  BY <1>1, <1>2, <1>3, <1>4, <1>5 DEF ChainsGrow

(* b is the best of the runs of S: M gives their measures, L those that follow *)
(* a sample. *)
BestOf(b, S, M, L) ==
    \/ b.count = 0 /\ S = {}
    \/ /\ b.count \in Nat \ {0}
       /\ \E x \in S : b.measure = M[x] /\ (b.after <=> x \in L)
       /\ \A y \in S : M[y] <= b.measure

MeasuredAs(S, M, L, N, K) == \A x \in S : M[x] = N[x] /\ M[x] \in Int /\ (x \in L <=> x \in K)

(* The best of the same runs is the best. *)
LEMMA BestRemains ==
    ASSUME NEW b, NEW S, NEW M, NEW L, BestOf(b, S, M, L), NEW N, NEW K, MeasuredAs(S, M, L, N, K)
    PROVE  BestOf(b, S, N, K)
  BY DEF BestOf, MeasuredAs

(* The better of the best and a new run is the best of both. *)
LEMMA BetterIsBest ==
    ASSUME NEW b, NEW S, NEW M, NEW L, BestOf(b, S, M, L), NEW N, NEW K, MeasuredAs(S, M, L, N, K),
           NEW x, N[x] \in Int, NEW c, c.count \in Nat \ {0}, c.measure = N[x], c.after <=> x \in K
    PROVE  BestOf(Better(c, b), S \cup {x}, N, K)
<1> DEFINE d == Better(c, b)
<1>0. \A y \in S : N[y] = M[y] /\ N[y] \in Int /\ (y \in L <=> y \in K)
  BY DEF MeasuredAs
<1>1. CASE b.count = 0
  <2>1. S = {} /\ d = c
    BY <1>1 DEF BestOf, Better
  <2> HIDE DEF d
  <2>2. QED
    BY <2>1 DEF BestOf, d
<1>2. CASE b.count # 0 /\ c.measure > b.measure
  <2>1. d = c
    BY <1>2 DEF Better
  <2>2. \A y \in S : N[y] <= c.measure
    <3>1. PICK z \in S : b.measure = M[z]
      BY <1>2 DEF BestOf
    <3>2. \A y \in S : M[y] <= b.measure
      BY <1>2 DEF BestOf
    <3>3. QED
      BY <1>0, <1>2, <3>1, <3>2
  <2> HIDE DEF d
  <2>3. QED
    BY <2>1, <2>2 DEF BestOf, d
<1>3. CASE b.count # 0 /\ ~(c.measure > b.measure)
  <2>1. d = b
    BY <1>3 DEF Better
  <2>2. PICK z \in S : b.measure = M[z] /\ (b.after <=> z \in L)
    BY <1>3 DEF BestOf
  <2>3. \A y \in S : M[y] <= b.measure
    BY <1>3 DEF BestOf
  <2>4. b.measure = N[z] /\ (b.after <=> z \in K)
    BY <1>0, <2>2
  <2>5. \A y \in S \cup {x} : N[y] <= b.measure
    BY <1>0, <1>3, <2>2, <2>3
  <2> HIDE DEF d
  <2>6. BestOf(b, S \cup {x}, N, K)
    BY <1>3, <2>4, <2>5 DEF BestOf
  <2>7. QED
    BY <2>1, <2>6 DEF d
<1>4. QED
  BY <1>1, <1>2, <1>3

(* The samples up to a run, when the next one is in no run and when it is. *)
Measures == [x \in Runs |-> Measure(x)]

SameRuns == MeasuredAs(Runs, Measures, After, Measures', After')

(* A run has a length or a duration. *)
LEMMA MeasuresAreNumbers ==
    ASSUME NEW n \in Nat, DOMAIN fed = 1..n, SamplesAre, NEW x \in Runs
    PROVE  Measure(x) \in Int /\ x[1] \in 1..n /\ x[2] \in 1..n /\ x = <<x[1], x[2]>>
<1>1. x[1] \in 1..n /\ x[2] \in 1..n /\ x = <<x[1], x[2]>>
  BY DEF Runs
<1>2. fed[x[1]].time \in Int /\ fed[x[2]].time \in Int
  BY <1>1 DEF SamplesAre
<1>3. QED
  BY <1>1, <1>2 DEF Measure

(* A sample in a run adds that run. *)
LEMMA RunsGrow ==
    ASSUME NEW n \in Nat, DOMAIN fed = 1..n, DOMAIN fed' = 1..(n + 1), \A i \in 1..n : fed'[i] = fed[i],
           declared' = declared, SamplesAre
    PROVE  /\ Runs \subseteq Runs' /\ SameRuns
           /\ \A x \in Runs' : x \in Runs \/ (x[1] \in 1..(n + 1) /\ x = <<x[1], n + 1>> /\ Run(x[1], n + 1)')
           /\ \A x \in Runs : (x \in Long' <=> x \in Long) /\ (x \in After' <=> x \in After)
           /\ \A k \in 1..(n + 1) : Run(k, n + 1)' => <<k, n + 1>> \in Runs' /\ <<k, n + 1>> \notin Runs
<1>1. ChainsGrow(n)
  BY ChainsAreExtended
<1>2. ASSUME NEW k \in 1..n, NEW i \in 1..n PROVE Run(k, i)' <=> Run(k, i)
  <2>1. \A m \in 1..(k - 1) : m \in 1..n
    OBVIOUS
  <2>2. QED
    BY <1>1, <2>1 DEF Run, ChainsGrow
<1>3. \A k, i \in 1..(n + 1) : <<k, i>> \in Runs' <=> k <= i /\ Run(k, i)'
  BY DEF Runs, Run
<1>4. \A k, i \in 1..n : <<k, i>> \in Runs <=> k <= i /\ Run(k, i)
  BY RunsArePairs
<1>5. \A x \in Runs : x[1] \in 1..n /\ x[2] \in 1..n /\ x = <<x[1], x[2]>> /\ Measure(x) \in Int
  BY MeasuresAreNumbers
<1>6. \A x \in Runs' : x[1] \in 1..(n + 1) /\ x[2] \in 1..(n + 1) /\ x = <<x[1], x[2]>>
  BY DEF Runs
<1>7. ASSUME NEW x \in Runs
      PROVE  /\ x \in Runs' /\ Measure(x)' = Measure(x)
             /\ (x \in Long' <=> x \in Long) /\ (x \in After' <=> x \in After)
  <2>1. x[1] \in 1..n /\ x[2] \in 1..n /\ x[1] \in 1..(n + 1) /\ x[2] \in 1..(n + 1) /\ x = <<x[1], x[2]>>
    BY <1>5
  <2>2. x \in Runs'
    BY <1>2, <1>3, <1>4, <2>1
  <2>3. Measure(x)' = Measure(x) /\ (Linked(x[1])' <=> Linked(x[1]))
    BY <1>1, <2>1 DEF ChainsGrow
  <2>4. QED
    BY <2>2, <2>3 DEF Long, After
<1>8. ASSUME NEW x \in Runs', x \notin Runs
      PROVE  x[1] \in 1..(n + 1) /\ x = <<x[1], n + 1>> /\ Run(x[1], n + 1)'
  <2>1. x[1] \in 1..(n + 1) /\ x[2] \in 1..(n + 1) /\ x = <<x[1], x[2]>>
    BY <1>6
  <2>2. x[1] <= x[2] /\ Run(x[1], x[2])'
    BY <1>3, <2>1
  <2>3. x[2] = n + 1
    <3>1. SUFFICES ASSUME x[2] \in 1..n PROVE FALSE
      BY <2>1
    <3>2. x[1] \in 1..n
      BY <2>1, <2>2, <3>1
    <3>3. QED
      BY <1>2, <1>4, <1>8, <2>1, <2>2, <3>1, <3>2
  <2>4. QED
    BY <2>1, <2>2, <2>3
<1>9. SameRuns
  <2>1. \A x \in Runs : Measures[x] = Measure(x) /\ Measures'[x] = Measure(x)'
    BY <1>7 DEF Measures
  <2>2. QED
    BY <1>5, <1>7, <2>1 DEF SameRuns, MeasuredAs
<1>10. ASSUME NEW k \in 1..(n + 1), Run(k, n + 1)' PROVE <<k, n + 1>> \in Runs' /\ <<k, n + 1>> \notin Runs
  <2>1. <<k, n + 1>> \in Runs'
    BY <1>3, <1>10
  <2>2. n + 1 \notin 1..n /\ <<k, n + 1>>[2] = n + 1
    OBVIOUS
  <2>3. QED
    BY <1>5, <2>1, <2>2
<1>11. QED
  BY <1>7, <1>8, <1>9, <1>10

(* What the loop knows of the last of n samples: when it was, whether it did *)
(* not cross, and the run it ends. *)
LastSample(h, n) ==
    /\ h.previous = IF n > 0 /\ Usable(n) THEN fed[n].time ELSE Absent
    /\ h.crossed = "no" <=> n > 0 /\ Usable(n) /\ ~Crosses(fed[n].value)

LastRun(c, n) ==
    \/ c.count = 0 /\ \A k \in 1..n : ~Chain(k, n)
    \/ /\ c.count \in Nat \ {0}
       /\ \E k \in 1..n : /\ Run(k, n) /\ c.start = fed[k].time /\ c.count = n - k + 1
                          /\ c.after <=> Linked(k)

BestRuns(h) ==
    /\ BestOf(h.any, Runs, Measures, After)
    /\ BestOf(h.transition, After, Measures, After)
    /\ BestOf(h.met, Long \cap After, Measures, After)

(* A sample that ends no run leaves the best runs. *)
LEMMA RunsStay ==
    ASSUME NEW n \in Nat, DOMAIN fed = 1..n, DOMAIN fed' = 1..(n + 1), \A i \in 1..n : fed'[i] = fed[i],
           declared' = declared, SamplesAre, BestRuns(held),
           \A k \in 1..(n + 1) : ~Chain(k, n + 1)',
           held'.any = held.any, held'.transition = held.transition, held'.met = held.met
    PROVE  BestRuns(held)' /\ \A c : c.count = 0 => LastRun(c, n + 1)'
<1>1. /\ Runs \subseteq Runs' /\ SameRuns
      /\ \A x \in Runs' : x \in Runs \/ (x[1] \in 1..(n + 1) /\ Run(x[1], n + 1)')
      /\ \A x \in Runs : (x \in Long' <=> x \in Long) /\ (x \in After' <=> x \in After)
  BY RunsGrow
<1>2. Runs' = Runs
  BY <1>1 DEF Run
<1>3. After' = After /\ Long' = Long
  <2>1. After \subseteq Runs /\ Long \subseteq Runs /\ After' \subseteq Runs' /\ Long' \subseteq Runs'
    BY DEF After, Long
  <2>2. QED
    BY <1>1, <1>2, <2>1
<1> DEFINE M == Measures
           N == Measures'
           R == Runs
           A == After
           L == Long \cap After
<1>4. MeasuredAs(R, M, A, N, A) /\ MeasuredAs(A, M, A, N, A) /\ MeasuredAs(L, M, A, N, A)
  <2>1. A \subseteq R
    BY DEF After
  <2>2. MeasuredAs(R, M, A, N, A)
    BY <1>1, <1>3 DEF SameRuns
  <2> HIDE DEF R, A, M, N
  <2>3. QED
    BY <2>1, <2>2 DEF MeasuredAs, A
<1>5. BestOf(held.any, R, N, A) /\ BestOf(held.transition, A, N, A) /\ BestOf(held.met, L, N, A)
  <2>1. BestOf(held.any, R, M, A) /\ BestOf(held.transition, A, M, A) /\ BestOf(held.met, L, M, A)
    BY DEF BestRuns
  <2> HIDE DEF R, A, M, N, L
  <2>2. QED
    BY <1>4, <2>1, BestRemains
<1>6. BestRuns(held)'
  <2>1. Runs' = R /\ After' = A /\ (Long \cap After)' = L /\ Measures' = N
    BY <1>2, <1>3
  <2> HIDE DEF R, A, M, N, L
  <2>2. QED
    BY <1>5, <2>1 DEF BestRuns
<1>7. QED
  BY <1>6 DEF LastRun

(* The best runs, with the run a sample adds. *)
LEMMA RunsCome ==
    ASSUME NEW n \in Nat, DOMAIN fed = 1..n, DOMAIN fed' = 1..(n + 1), \A i \in 1..n : fed'[i] = fed[i],
           declared' = declared, SamplesAre, SamplesAre', BestRuns(held),
           NEW k \in 1..(n + 1), Run(k, n + 1)',
           NEW c, c.count \in Nat \ {0}, c.measure = Measure(<<k, n + 1>>)', c.after <=> Linked(k)',
           held'.any = Better(c, held.any),
           held'.transition = IF c.after THEN Better(c, held.transition) ELSE held.transition,
           held'.met = IF c.after /\ c.measure >= declared.window THEN Better(c, held.met) ELSE held.met
    PROVE  BestRuns(held)'
<1> DEFINE x == <<k, n + 1>>
<1>1. /\ Runs \subseteq Runs' /\ SameRuns
      /\ \A y \in Runs' : y \in Runs \/ (y[1] \in 1..(n + 1) /\ y = <<y[1], n + 1>> /\ Run(y[1], n + 1)')
      /\ \A y \in Runs : (y \in Long' <=> y \in Long) /\ (y \in After' <=> y \in After)
      /\ x \in Runs' /\ x \notin Runs
  BY RunsGrow
<1>2. ASSUME NEW m \in 1..(n + 1), Run(m, n + 1)' PROVE m = k
  <2>1. (k < m => k \in 1..(m - 1)) /\ (m < k => m \in 1..(k - 1))
    OBVIOUS
  <2>2. ~(k < m) /\ ~(m < k)
    BY <1>2, <2>1 DEF Run
  <2>3. QED
    BY <2>2
<1>3. \A y : y \in Runs' <=> y \in Runs \/ y = x
  BY <1>1, <1>2
<1>4. Measure(x)' \in Int
  <2>1. k \in DOMAIN fed' /\ n + 1 \in DOMAIN fed'
    OBVIOUS
  <2>2. fed'[k].time \in Int /\ fed'[n + 1].time \in Int
    BY <2>1 DEF SamplesAre
  <2>3. QED
    BY <2>2 DEF Measure
<1>5. (x \in After' <=> c.after) /\ (x \in Long' <=> c.measure >= declared.window)
  BY <1>1 DEF After, Long
<1>6. After \subseteq Runs /\ Long \subseteq Runs /\ After' \subseteq Runs' /\ Long' \subseteq Runs'
  BY DEF After, Long
<1> DEFINE M == Measures
           N == Measures'
           R == Runs
           A == After
           L == Long \cap After
           K == After'
<1>7. /\ Runs' = R \cup {x} /\ After' = K
      /\ K = (IF c.after THEN A \cup {x} ELSE A)
      /\ (Long \cap After)' = IF c.after /\ c.measure >= declared.window THEN L \cup {x} ELSE L
  <2>1. Runs' = R \cup {x}
    BY <1>3
  <2>2. \A y : y \in K <=> y \in A \/ (y = x /\ c.after)
    BY <1>1, <1>3, <1>5, <1>6
  <2>3. \A y : y \in (Long \cap After)' <=> y \in L \/ (y = x /\ c.after /\ c.measure >= declared.window)
    BY <1>1, <1>3, <1>5, <1>6
  <2>4. K = (IF c.after THEN A \cup {x} ELSE A)
    <3> HIDE DEF K, A, x
    <3>1. QED
      BY <2>2
  <2>5. (Long \cap After)' = IF c.after /\ c.measure >= declared.window THEN L \cup {x} ELSE L
    <3> DEFINE P == (Long \cap After)'
    <3>1. \A y : y \in P <=> y \in L \/ (y = x /\ c.after /\ c.measure >= declared.window)
      BY <2>3
    <3> HIDE DEF P, L, x
    <3>2. P = IF c.after /\ c.measure >= declared.window THEN L \cup {x} ELSE L
      BY <3>1
    <3>3. QED
      BY <3>2 DEF P
  <2>6. QED
    BY <2>1, <2>4, <2>5
<1>8. MeasuredAs(R, M, A, N, K) /\ MeasuredAs(A, M, A, N, K) /\ MeasuredAs(L, M, A, N, K)
  <2>1. A \subseteq R /\ L \subseteq R
    BY <1>6
  <2>2. MeasuredAs(R, M, A, N, K)
    BY <1>1 DEF SameRuns
  <2> HIDE DEF R, A, M, N, K, L
  <2>3. QED
    BY <2>1, <2>2 DEF MeasuredAs
<1>9. N[x] = Measure(x)' /\ N[x] \in Int
  BY <1>1, <1>4 DEF Measures
<1>10. BestOf(held.any, R, M, A) /\ BestOf(held.transition, A, M, A) /\ BestOf(held.met, L, M, A)
  BY DEF BestRuns
<1>11. c.after <=> x \in K
  BY <1>5
<1>12. held'.any = Better(c, held.any) /\ c.measure = N[x]
  BY <1>9
<1> HIDE DEF R, A, M, N, K, L, x
<1>13. BestOf(held'.any, R \cup {x}, N, K)
  <2>1. N[x] \in Int /\ c.measure = N[x] /\ BestOf(held.any, R, M, A) /\ MeasuredAs(R, M, A, N, K)
    BY <1>8, <1>9, <1>10, <1>12
  <2>2. BestOf(Better(c, held.any), R \cup {x}, N, K)
    BY <1>11, <2>1, BetterIsBest
  <2>3. QED
    BY <2>2
<1>14. BestOf(held'.transition, IF c.after THEN A \cup {x} ELSE A, N, K)
  <2>1. CASE c.after
    BY <1>8, <1>9, <1>10, <1>11, <1>12, <2>1, BetterIsBest
  <2>2. CASE ~c.after
    BY <1>8, <1>10, <2>2, BestRemains
  <2>3. QED
    BY <2>1, <2>2
<1>15. BestOf(held'.met, IF c.after /\ c.measure >= declared.window THEN L \cup {x} ELSE L, N, K)
  <2>1. CASE c.after /\ c.measure >= declared.window
    BY <1>8, <1>9, <1>10, <1>11, <1>12, <2>1, BetterIsBest
  <2>2. CASE ~(c.after /\ c.measure >= declared.window)
    BY <1>8, <1>10, <2>2, BestRemains
  <2>3. QED
    BY <2>1, <2>2
<1>16. Measures' = N
  BY DEF N
<1>17. QED
  <2>1. Runs' = R \cup {x} /\ After' = K
    BY <1>7
  <2>2. BestOf(held'.any, Runs', Measures', After')
    BY <1>13, <1>16, <2>1
  <2>3. BestOf(held'.transition, After', Measures', After')
    BY <1>7, <1>14, <1>16, <2>1
  <2>4. BestOf(held'.met, (Long \cap After)', Measures', After')
    BY <1>7, <1>15, <1>16, <2>1
  <2>5. QED
    BY <2>2, <2>3, <2>4 DEF BestRuns

SampleRecord(h) ==
    h = [current |-> h.current, any |-> h.any, transition |-> h.transition, met |-> h.met,
         previous |-> h.previous, crossed |-> h.crossed]

SamplesHold(h, n) == SampleRecord(h) /\ BestRuns(h) /\ LastSample(h, n) /\ LastRun(h.current, n)

(* The samples of a chain are reported. *)
LEMMA ChainsAreUsable ==
    ASSUME NEW n \in Nat, NEW k \in 1..n
    PROVE  /\ Chain(k, n) => Usable(n)
           /\ Chain(n, n) <=> Usable(n) /\ Crosses(fed[n].value)
<1>1. k = n \/ n \in (k + 1)..n
  OBVIOUS
<1>2. (n + 1)..n = {}
  OBVIOUS
<1>3. QED
  BY <1>1, <1>2 DEF Chain, Linked

(* What one sample more does. *)
SampleRead(r, n) ==
    /\ n \in Nat /\ DOMAIN fed = 1..n /\ DOMAIN fed' = 1..(n + 1)
    /\ \A i \in 1..n : fed'[i] = fed[i]
    /\ fed'[n + 1] = r /\ declared' = declared /\ SamplesAre /\ SamplesAre'

(* A sample follows the last one unless a hole or a gap is between. *)
LEMMA SampleIsLinked ==
    ASSUME NEW r, NEW n, SampleRead(r, n), LastSample(held, n)
    PROVE  /\ Linked(n + 1)' <=> n > 0 /\ Usable(n) /\ r.value # Absent /\ ~Broken(r)
           /\ Usable(n + 1)' <=> r.value # Absent
           /\ Crosses(fed[n + 1].value)' <=> Crosses(r.value)
           /\ Inside(n + 1)' <=> Crosses(r.value) \/ (declared.release # Absent /\ ~Released(r.value))
           /\ r.time \in Int
<1>1. n \in Nat /\ fed'[n + 1] = r /\ (n > 0 => n \in DOMAIN fed /\ fed'[n] = fed[n]) /\ n + 1 - 1 = n
  BY DEF SampleRead
<1>2. /\ Absent \notin Int /\ r.time \in Int /\ (n > 0 => fed[n].time \in Int)
      /\ declared.maxGap \in Int \cup {Absent} /\ declared' = declared
  <2>1. n + 1 \in DOMAIN fed'
    BY DEF SampleRead
  <2>2. QED
    BY <1>1, <2>1 DEF SampleRead, SamplesAre
<1>3. (Usable(n + 1)' <=> r.value # Absent) /\ (Crosses(fed[n + 1].value)' <=> Crosses(r.value))
  BY <1>1, <1>2 DEF Usable, Crosses
<1>4. Inside(n + 1)' <=> Crosses(r.value) \/ (declared.release # Absent /\ ~Released(r.value))
  BY <1>1, <1>2, <1>3 DEF Inside, Released
<1>5. Linked(n + 1)' <=> n > 0 /\ Usable(n) /\ r.value # Absent /\ ~Broken(r)
  <2>1. CASE n > 0 /\ Usable(n)
    <3>1. held.previous = fed[n].time
      BY <2>1 DEF LastSample
    <3>2. n + 1 > 1 /\ (Usable(n)' <=> Usable(n))
      BY <1>1, <2>1 DEF Usable
    <3>3. QED
      BY <1>1, <1>2, <1>3, <2>1, <3>1, <3>2 DEF Linked, Broken
  <2>2. CASE n > 0 /\ ~Usable(n)
    <3>1. ~Usable(n)'
      BY <1>1, <2>2 DEF Usable
    <3>2. QED
      BY <1>1, <2>2, <3>1 DEF Linked
  <2>3. CASE ~(n > 0)
    BY <1>1, <2>3 DEF Linked
  <2>4. QED
    BY <2>1, <2>2, <2>3
<1>6. QED
  BY <1>2, <1>3, <1>4, <1>5

(* One round of best_run. *)
LEMMA SampleHolds ==
    ASSUME NEW r, NEW n, SampleRead(r, n), SamplesHold(held, n), held' = BestRun(r)
    PROVE  SampleRecord(held') /\ BestRuns(held)' /\ LastSample(held, n + 1)' /\ LastRun(held.current, n + 1)'
<1> DEFINE current == IF Broken(r) THEN NoRun ELSE held.current
           before  == IF Broken(r) THEN "unknown" ELSE held.crossed
           inside  == Crosses(r.value) \/ (current.count > 0 /\ declared.release # Absent
                                           /\ ~Released(r.value))
           start   == IF current.count = 0 THEN r.time ELSE current.start
           run     == [count |-> current.count + 1, start |-> start, end |-> r.time,
                       after |-> IF current.count = 0 THEN before = "no" ELSE current.after,
                       measure |-> IF declared.duration THEN r.time - start ELSE current.count + 1]
<1>1. /\ n \in Nat /\ DOMAIN fed = 1..n /\ DOMAIN fed' = 1..(n + 1)
      /\ \A i \in 1..n : fed'[i] = fed[i]
      /\ fed'[n + 1] = r /\ declared' = declared /\ SamplesAre /\ SamplesAre'
  BY DEF SampleRead
<1>2. /\ SampleRecord(held) /\ BestRuns(held) /\ LastSample(held, n) /\ LastRun(held.current, n)
  BY DEF SamplesHold
<1>3. /\ Linked(n + 1)' <=> n > 0 /\ Usable(n) /\ r.value # Absent /\ ~Broken(r)
      /\ Usable(n + 1)' <=> r.value # Absent
      /\ Crosses(fed[n + 1].value)' <=> Crosses(r.value)
      /\ Inside(n + 1)' <=> Crosses(r.value) \/ (declared.release # Absent /\ ~Released(r.value))
      /\ r.time \in Int
  BY <1>2, SampleIsLinked
<1>4. ChainsGrow(n)
  BY <1>1, ChainsAreExtended
<1>5. ASSUME ~(r.value # Absent /\ inside) PROVE \A k \in 1..(n + 1) : ~Chain(k, n + 1)'
  <2>1. ~Chain(n + 1, n + 1)'
    BY <1>3, <1>4, <1>5 DEF ChainsGrow
  <2>2. ASSUME NEW k \in 1..n, Chain(k, n + 1)' PROVE FALSE
    <3>1. Chain(k, n) /\ Linked(n + 1)' /\ Inside(n + 1)'
      BY <1>4, <2>2 DEF ChainsGrow
    <3>2. current = held.current
      BY <1>3, <3>1
    <3>3. held.current.count \in Nat \ {0}
      BY <1>2, <3>1 DEF LastRun
    <3>4. QED
      BY <1>3, <1>5, <3>1, <3>2, <3>3
  <2>3. \A k \in 1..(n + 1) : k \in 1..n \/ k = n + 1
    BY <1>1
  <2>4. QED
    BY <2>1, <2>2, <2>3
<1>6. CASE r.value = Absent
  <2>1. held' = [held EXCEPT !.current = NoRun, !.previous = Absent, !.crossed = "unknown"]
    BY <1>6 DEF BestRun
  <2>2. /\ SampleRecord(held') /\ held'.any = held.any /\ held'.transition = held.transition /\ held'.met = held.met
        /\ held'.current = NoRun /\ held'.previous = Absent /\ held'.crossed = "unknown"
    BY <1>2, <2>1 DEF SampleRecord
  <2>3. BestRuns(held)' /\ \A c : c.count = 0 => LastRun(c, n + 1)'
    BY <1>1, <1>2, <1>5, <1>6, <2>2, RunsStay
  <2>4. held'.current.count = 0
    BY <2>2 DEF NoRun
  <2>5. LastRun(held.current, n + 1)'
    BY <1>5, <1>6, <2>4 DEF LastRun
  <2>6. LastSample(held, n + 1)'
    BY <1>3, <1>6, <2>2 DEF LastSample
  <2>7. QED
    BY <2>2, <2>3, <2>5, <2>6
<1>7. CASE r.value # Absent
  <2>1. held' = [current    |-> IF inside THEN run ELSE NoRun,
                 any        |-> IF inside THEN Better(run, held.any) ELSE held.any,
                 transition |-> IF inside /\ run.after THEN Better(run, held.transition)
                                ELSE held.transition,
                 met        |-> IF inside /\ run.after /\ run.measure >= declared.window
                                THEN Better(run, held.met) ELSE held.met,
                 previous   |-> r.time,
                 crossed    |-> IF Crosses(r.value) THEN "yes" ELSE "no"]
    BY <1>7 DEF BestRun
  <2>2. /\ SampleRecord(held')
        /\ held'.current = (IF inside THEN run ELSE NoRun)
        /\ held'.any = (IF inside THEN Better(run, held.any) ELSE held.any)
        /\ held'.transition = (IF inside /\ run.after THEN Better(run, held.transition) ELSE held.transition)
        /\ held'.met = (IF inside /\ run.after /\ run.measure >= declared.window
                        THEN Better(run, held.met) ELSE held.met)
        /\ held'.previous = r.time /\ held'.crossed = IF Crosses(r.value) THEN "yes" ELSE "no"
    <3> HIDE DEF run, inside
    <3>1. QED
      BY <2>1 DEF SampleRecord
  <2>3. LastSample(held, n + 1)'
    <3>1. fed'[n + 1] = r /\ n + 1 > 0
      BY <1>1
    <3>2. (Usable(n + 1)' <=> TRUE) /\ (Crosses(fed[n + 1].value)' <=> Crosses(r.value))
      BY <1>3, <1>7
    <3>3. held'.previous = fed'[n + 1].time
      BY <2>2, <3>1
    <3>4. held'.crossed = "no" <=> ~Crosses(r.value)
      BY <2>2
    <3>5. QED
      BY <3>1, <3>2, <3>3, <3>4 DEF LastSample
  <2>4. CASE ~inside
    <3>1. /\ held'.any = held.any /\ held'.transition = held.transition /\ held'.met = held.met
          /\ held'.current = NoRun
      BY <2>2, <2>4
    <3>2. BestRuns(held)'
      BY <1>1, <1>2, <1>5, <2>4, <3>1, RunsStay
    <3>3. held'.current.count = 0
      BY <3>1 DEF NoRun
    <3>4. LastRun(held.current, n + 1)'
      BY <1>5, <2>4, <3>3 DEF LastRun
    <3>5. QED
      BY <2>2, <2>3, <3>2, <3>4
  <2>5. CASE inside
    <3>1. \E k \in 1..(n + 1) :
             /\ Run(k, n + 1)' /\ run.start = fed'[k].time /\ run.count = (n + 1) - k + 1
             /\ (run.after <=> Linked(k)') /\ run.count \in Nat \ {0}
             /\ run.measure = Measure(<<k, n + 1>>)'
      <4>1. CASE current.count = 0
        <5>1. Crosses(r.value) /\ run.count = 1 /\ run.start = r.time
              /\ (run.after <=> before = "no")
              /\ run.measure = (IF declared.duration THEN r.time - r.time ELSE 1)
          <6> HIDE DEF current, before
          <6>1. Crosses(r.value) /\ start = r.time /\ current.count + 1 = 1
            BY <2>5, <4>1
          <6> DEFINE a == IF current.count = 0 THEN before = "no" ELSE current.after
                     m == IF declared.duration THEN r.time - start ELSE current.count + 1
          <6>2. (a <=> before = "no") /\ m = (IF declared.duration THEN r.time - r.time ELSE 1)
            BY <4>1, <6>1
          <6>3. run = [count |-> 1, start |-> r.time, end |-> r.time, after |-> a, measure |-> m]
            BY <6>1
          <6> HIDE DEF run, a, m, start
          <6>4. run.count = 1 /\ run.start = r.time /\ run.after = a /\ run.measure = m
            BY <6>3
          <6>5. QED
            BY <6>1, <6>2, <6>4
        <5>2. ~Broken(r) => \A k \in 1..n : ~Chain(k, n)
          BY <1>2, <4>1 DEF LastRun
        <5>3. Run(n + 1, n + 1)'
          <6>1. Chain(n + 1, n + 1)'
            BY <1>3, <1>4, <1>7, <5>1 DEF ChainsGrow
          <6>2. ASSUME NEW m \in 1..n PROVE ~Chain(m, n + 1)'
            BY <1>3, <1>4, <5>2 DEF ChainsGrow
          <6>3. (n + 1) - 1 = n
            BY <1>1
          <6>4. QED
            BY <6>1, <6>2, <6>3 DEF Run
        <5>4. run.after <=> Linked(n + 1)'
          <6>1. before = "no" <=> ~Broken(r) /\ n > 0 /\ Usable(n) /\ ~Crosses(fed[n].value)
            BY <1>2 DEF LastSample
          <6>2. ~Broken(r) /\ n > 0 /\ Usable(n) => ~Crosses(fed[n].value)
            <7>1. SUFFICES ASSUME ~Broken(r), n > 0, Usable(n) PROVE ~Crosses(fed[n].value)
              OBVIOUS
            <7>2. n \in 1..n
              BY <1>1, <7>1
            <7>3. QED
              BY <1>1, <5>2, <7>1, <7>2, ChainsAreUsable
          <6>3. QED
            BY <1>3, <1>7, <5>1, <6>1, <6>2
        <5>5. run.measure = Measure(<<n + 1, n + 1>>)'
          <6>1. Measure(<<n + 1, n + 1>>)' = IF declared.duration THEN r.time - r.time ELSE (n + 1) - (n + 1) + 1
            BY <1>1 DEF Measure
          <6>2. (n + 1) - (n + 1) + 1 = 1
            BY <1>1
          <6>3. QED
            BY <5>1, <6>1, <6>2
        <5>6. n + 1 \in 1..(n + 1) /\ (n + 1) - (n + 1) + 1 = 1 /\ fed'[n + 1].time = r.time
          BY <1>1
        <5> HIDE DEF run
        <5>7. QED
          BY <5>1, <5>3, <5>4, <5>5, <5>6
      <4>2. CASE current.count # 0
        <5>1. ~Broken(r) /\ current = held.current
          BY <4>2 DEF NoRun
        <5>2. PICK k \in 1..n : /\ Run(k, n) /\ held.current.start = fed[k].time
                                /\ held.current.count = n - k + 1 /\ (held.current.after <=> Linked(k))
          BY <1>2, <4>2, <5>1 DEF LastRun
        <5>3. /\ run.count = n - k + 1 + 1 /\ run.start = fed[k].time /\ (run.after <=> Linked(k))
              /\ run.measure = (IF declared.duration THEN r.time - fed[k].time ELSE n - k + 1 + 1)
          BY <4>2, <5>1, <5>2
        <5>4. Linked(n + 1)' /\ Inside(n + 1)'
          <6>1. n > 0 /\ Usable(n)
            BY <1>1, <5>2, ChainsAreUsable DEF Run
          <6>2. QED
            BY <1>3, <1>7, <2>5, <5>1, <6>1
        <5>5. Run(k, n + 1)'
          <6>1. Chain(k, n + 1)'
            BY <1>4, <5>2, <5>4 DEF ChainsGrow, Run
          <6>2. ASSUME NEW m \in 1..(k - 1) PROVE ~Chain(m, n + 1)'
            <7>1. m \in 1..n
              BY <1>1
            <7>2. QED
              BY <1>4, <5>2, <7>1 DEF ChainsGrow, Run
          <6>3. QED
            BY <6>1, <6>2 DEF Run
        <5>6. (Linked(k)' <=> Linked(k)) /\ fed'[k] = fed[k]
          BY <1>1, <1>4 DEF ChainsGrow
        <5>7. Measure(<<k, n + 1>>)' = IF declared.duration THEN r.time - fed[k].time ELSE (n + 1) - k + 1
          BY <1>1, <5>6 DEF Measure
        <5>8. k \in 1..(n + 1) /\ (n + 1) - k + 1 = n - k + 1 + 1 /\ n - k + 1 + 1 \in Nat \ {0}
          BY <1>1
        <5> HIDE DEF run
        <5>9. QED
          BY <5>3, <5>5, <5>6, <5>7, <5>8
      <4>3. QED
        BY <4>1, <4>2
    <3>2. /\ held'.current = run /\ held'.any = Better(run, held.any)
          /\ held'.transition = (IF run.after THEN Better(run, held.transition) ELSE held.transition)
          /\ held'.met = (IF run.after /\ run.measure >= declared.window THEN Better(run, held.met) ELSE held.met)
      BY <2>2, <2>5
    <3> HIDE DEF run, inside
    <3>3. PICK k \in 1..(n + 1) :
             /\ Run(k, n + 1)' /\ run.start = fed'[k].time /\ run.count = (n + 1) - k + 1
             /\ (run.after <=> Linked(k)') /\ run.count \in Nat \ {0}
             /\ run.measure = Measure(<<k, n + 1>>)'
      BY <3>1
    <3>4. BestRuns(held)'
      BY <1>1, <1>2, <3>2, <3>3, RunsCome
    <3>5. LastRun(held.current, n + 1)'
      BY <3>2, <3>3 DEF LastRun
    <3>6. QED
      BY <2>2, <2>3, <3>4, <3>5
  <2>6. QED
    BY <2>4, <2>5
<1>8. QED
  BY <1>6, <1>7

(* What the best runs tell of all of them. *)
LEMMA BestRunsTell ==
    ASSUME NEW n \in Nat, DOMAIN fed = 1..n, SamplesAre, BestRuns(held)
    PROVE  /\ held.any.count = 0 <=> Runs = {}
           /\ held.transition.count = 0 <=> After = {}
           /\ held.met.count = 0 <=> Long \cap After = {}
           /\ held.any.count # 0 => (held.any.measure >= declared.window <=> Long # {})
           /\ held.any.count # 0 /\ After = {} => ~held.any.after
           /\ held.transition.count # 0 =>
                 held.transition.after /\ (held.transition.measure >= declared.window <=> Long \cap After # {})
           /\ held.met.count # 0 => held.met.after /\ held.met.measure >= declared.window
           /\ {held.any.count, held.transition.count, held.met.count} \subseteq Nat
<1> DEFINE M == Measures
<1>1. \A x \in Runs : M[x] \in Int /\ (x \in Long <=> M[x] >= declared.window)
  <2>1. \A x \in Runs : M[x] = Measure(x) /\ Measure(x) \in Int
    BY MeasuresAreNumbers DEF Measures
  <2>2. QED
    BY <2>1 DEF Long
<1>2. After \subseteq Runs /\ Long \subseteq Runs /\ declared.window \in Int
  BY DEF After, Long, SamplesAre
<1>3. BestOf(held.any, Runs, M, After) /\ BestOf(held.transition, After, M, After)
      /\ BestOf(held.met, Long \cap After, M, After)
  BY DEF BestRuns
<1> HIDE DEF M
<1>4. held.any.count = 0 <=> Runs = {}
  BY <1>3 DEF BestOf
<1>5. held.transition.count = 0 <=> After = {}
  BY <1>3 DEF BestOf
<1>6. held.met.count = 0 <=> Long \cap After = {}
  BY <1>3 DEF BestOf
<1>7. ASSUME held.any.count # 0
      PROVE  (held.any.measure >= declared.window <=> Long # {}) /\ (After = {} => ~held.any.after)
  <2>1. PICK x \in Runs : held.any.measure = M[x] /\ (held.any.after <=> x \in After)
    BY <1>3, <1>7 DEF BestOf
  <2>2. \A y \in Runs : M[y] <= held.any.measure
    BY <1>3, <1>7 DEF BestOf
  <2>3. QED
    BY <1>1, <1>2, <2>1, <2>2
<1>8. ASSUME held.transition.count # 0
      PROVE  held.transition.after /\ (held.transition.measure >= declared.window <=> Long \cap After # {})
  <2>1. PICK x \in After : held.transition.measure = M[x] /\ (held.transition.after <=> x \in After)
    BY <1>3, <1>8 DEF BestOf
  <2>2. \A y \in After : M[y] <= held.transition.measure
    BY <1>3, <1>8 DEF BestOf
  <2>3. QED
    BY <1>1, <1>2, <2>1, <2>2
<1>9. ASSUME held.met.count # 0 PROVE held.met.after /\ held.met.measure >= declared.window
  <2>1. PICK x \in Long \cap After : held.met.measure = M[x] /\ (held.met.after <=> x \in After)
    BY <1>3, <1>9 DEF BestOf
  <2>2. QED
    BY <1>1, <1>2, <2>1
<1>10. {held.any.count, held.transition.count, held.met.count} \subseteq Nat
  BY <1>3 DEF BestOf
<1>11. QED
  BY <1>4, <1>5, <1>6, <1>7, <1>8, <1>9, <1>10

(* The status says what the runs of the samples are. *)
LEMMA StatusTells ==
    ASSUME NEW n \in Nat, DOMAIN fed = 1..n, SamplesAre, BestRuns(held), ~Unknowable
    PROVE  /\ ConditionStatus = "MET" <=> (IF declared.sag THEN Long \cap After ELSE Long) # {}
           /\ ConditionStatus = "NOT_CROSSED" <=> Runs = {}
           /\ ConditionStatus = "NO_TRANSITION" <=> declared.sag /\ Runs # {} /\ After = {}
<1>1. /\ held.any.count = 0 <=> Runs = {}
      /\ held.transition.count = 0 <=> After = {}
      /\ held.met.count = 0 <=> Long \cap After = {}
      /\ held.any.count # 0 => (held.any.measure >= declared.window <=> Long # {})
      /\ held.any.count # 0 /\ After = {} => ~held.any.after
      /\ held.transition.count # 0 =>
            held.transition.after /\ (held.transition.measure >= declared.window <=> Long \cap After # {})
      /\ held.met.count # 0 => held.met.after /\ held.met.measure >= declared.window
      /\ {held.any.count, held.transition.count, held.met.count} \subseteq Nat
  BY BestRunsTell
<1>2. After \subseteq Runs /\ Long \subseteq Runs
  BY DEF After, Long
<1>3. Best.count \in Nat
  BY <1>1 DEF Best
<1>4. ConditionStatus = IF Best.count = 0 THEN "NOT_CROSSED"
                        ELSE IF declared.sag /\ ~Best.after THEN "NO_TRANSITION"
                        ELSE IF Best.measure >= declared.window THEN "MET" ELSE "NOT_SUSTAINED"
  BY <1>3 DEF ConditionStatus
<1>5. CASE ~declared.sag
  <2>1. Best = held.any
    BY <1>5 DEF Best
  <2>2. QED
    BY <1>1, <1>2, <1>4, <1>5, <2>1
<1>6. CASE declared.sag /\ held.met.count > 0
  <2>1. Best = held.met
    BY <1>6 DEF Best
  <2>2. held.met.count # 0
    BY <1>6
  <2>3. QED
    BY <1>1, <1>2, <1>4, <1>6, <2>1, <2>2
<1>7. CASE declared.sag /\ held.met.count = 0 /\ held.transition.count > 0
  <2>1. Best = held.transition
    BY <1>7 DEF Best
  <2>2. held.transition.count # 0
    BY <1>7
  <2>3. QED
    BY <1>1, <1>2, <1>4, <1>7, <2>1, <2>2
<1>8. CASE declared.sag /\ held.met.count = 0 /\ held.transition.count = 0
  <2>1. Best = held.any
    BY <1>8 DEF Best
  <2>2. QED
    BY <1>1, <1>2, <1>4, <1>8, <2>1
<1>9. QED
  BY <1>1, <1>5, <1>6, <1>7, <1>8

(* A round of this loop, and what follows it. *)
LEMMA SampleSteps ==
    /\ SamplesRun => EventStart = ElectricalStart
    /\ \A r : SamplesRun /\ EventStep(r) => ElectricalSample(r)
    /\ SamplesRun /\ EventEnd => ElectricalEnd
<1>1. SamplesRun => EventStart = ElectricalStart
  BY Zenon DEF SamplesRun, EventStart
<1>2. ASSUME NEW r, SamplesRun, EventStep(r) PROVE ElectricalSample(r)
  BY <1>2, Zenon DEF EventStep, SamplesRun
<1>3. SamplesRun /\ EventEnd => ElectricalEnd
  BY Zenon DEF EventEnd, SamplesRun
<1>4. QED
  BY <1>1, <1>2, <1>3

(* While the loop runs, and what it has concluded after it. *)
SamplesInv ==
    SamplesRun =>
        /\ \E n \in Nat : Len(fed) = n /\ SamplesHold(held, n)
        /\ verdict = "reading" => lines = <<>>
        /\ verdict = "converted" => lines[1].status = ConditionStatus

(* Before the loop no run is known. *)
LEMMA SamplesBegin == ASSUME EventInit PROVE SamplesInv
<1> SUFFICES ASSUME SamplesRun PROVE SamplesInv
  BY DEF SamplesInv
<1>1. held = ElectricalStart /\ lines = <<>> /\ fed = <<>> /\ verdict = "reading"
  BY SampleSteps DEF EventInit, Starting
<1>2. Len(fed) = 0 /\ DOMAIN fed = {}
  BY <1>1, FewRows
<1>3. /\ SampleRecord(held) /\ held.any.count = 0 /\ held.transition.count = 0 /\ held.met.count = 0
      /\ held.current.count = 0 /\ held.previous = Absent /\ held.crossed = "unknown"
  BY <1>1 DEF ElectricalStart, NoRun, SampleRecord
<1>4. Runs = {} /\ After = {} /\ Long = {}
  BY <1>2 DEF Runs, After, Long
<1>5. BestRuns(held)
  BY <1>3, <1>4 DEF BestRuns, BestOf
<1>6. LastSample(held, 0) /\ LastRun(held.current, 0)
  BY <1>3 DEF LastSample, LastRun
<1>7. SamplesHold(held, 0)
  BY <1>3, <1>5, <1>6 DEF SamplesHold
<1>8. 0 \in Nat
  OBVIOUS
<1>9. QED
  BY <1>1, <1>2, <1>7, <1>8 DEF SamplesInv

(* What is held stays so while nothing is read. *)
LEMMA SamplesKept ==
    ASSUME UNCHANGED <<declared, fed, held>>, NEW n \in Nat, SamplesHold(held, n)
    PROVE  SamplesHold(held, n)' /\ ConditionStatus' = ConditionStatus
<1>1. fed' = fed /\ held' = held /\ declared' = declared
  OBVIOUS
<1>2. \A k, i : (Chain(k, i)' <=> Chain(k, i)) /\ (Linked(k)' <=> Linked(k))
  BY <1>1 DEF Chain, Linked, Usable, Inside, Crosses, Released
<1>3. \A k, i : Run(k, i)' <=> Run(k, i)
  BY <1>2 DEF Run
<1>4. SampleRecord(held)' /\ BestRuns(held)'
  <2>1. Runs' = Runs
    BY <1>1, <1>2 DEF Runs
  <2>2. \A x : Measure(x)' = Measure(x)
    BY <1>1 DEF Measure
  <2>3. After' = After /\ Long' = Long /\ Measures' = Measures
    BY <1>1, <1>2, <2>1, <2>2 DEF After, Long, Measures
  <2>4. QED
    BY <1>1, <2>1, <2>3 DEF SamplesHold, SampleRecord, BestRuns
<1>5. LastSample(held, n)'
  BY <1>1 DEF SamplesHold, LastSample, Usable, Crosses
<1>6. LastRun(held.current, n)'
  BY <1>1, <1>2, <1>3 DEF SamplesHold, LastRun
<1>7. ConditionStatus' = ConditionStatus
  BY <1>1 DEF ConditionStatus, Unknowable, SignBases, ClockOrderOk, Best
<1>8. QED
  BY <1>4, <1>5, <1>6, <1>7 DEF SamplesHold

(* The pass over the samples finds the runs they hold. *)
LEMMA RunsHold == EventSpec => []RunsAreUnbroken
<1>1. EventInit => EventFile /\ SamplesInv
  BY EventsBegin, SamplesBegin
<1>2. EventFile /\ SamplesInv /\ [EventNext]_linesVars => EventFile' /\ SamplesInv'
  <2> SUFFICES ASSUME EventFile, SamplesInv, [EventNext]_linesVars, SamplesRun' PROVE SamplesInv'
    BY EventFileStays DEF SamplesInv
  <2>0. SamplesRun /\ SamplesAre /\ Len(fed) \in Nat
    <3>1. SamplesRun
      BY EventFileStays, Zenon DEF SamplesRun
    <3>2. Len(fed) \in Nat
      BY DEF EventFile
    <3>3. QED
      BY <3>1, <3>2, SamplesAreKnown
  <2>1. ASSUME NEW r \in EventRecords[converter], Taking(r), EventStep(r) PROVE SamplesInv'
    <3>0. PICK n \in Nat : Len(fed) = n /\ SamplesHold(held, n)
      BY <2>0 DEF SamplesInv
    <3>1. EventRead(r)
      BY <2>1, EventIsRead
    <3>2. /\ verdict = "reading" /\ verdict' = "reading" /\ n \in Nat /\ Len(fed') = n + 1
          /\ DOMAIN fed = 1..n /\ DOMAIN fed' = 1..(n + 1) /\ fed'[n + 1] = r /\ declared' = declared
          /\ \A i \in 1..n : fed'[i] = fed[i]
      BY <3>0, <3>1 DEF EventRead, Here
    <3>3. SamplesAre'
      <4>1. r.time \in Nat
        <5>1. \A q \in EventRecords["electrical events"] : q.time \in Nat
          BY Zenon, EventAssumption
        <5>2. QED
          BY <2>0, <2>1, <5>1, Zenon DEF SamplesRun
      <4>2. \A i \in 1..(n + 1) : i \in 1..n \/ i = n + 1
        BY <3>2
      <4>3. \A i \in DOMAIN fed' : fed'[i].time \in Int
        BY <2>0, <3>2, <4>1, <4>2 DEF SamplesAre
      <4>4. QED
        BY <2>0, <3>2, <4>3 DEF SamplesAre
    <3>4. SampleRead(r, n)
      BY <2>0, <3>2, <3>3 DEF SampleRead
    <3>5. ElectricalSample(r)
      BY <2>0, <2>1, SampleSteps
    <3>6. held' = BestRun(r) /\ lines' = lines
      BY <3>5 DEF ElectricalSample, Hold, Keeping
    <3>7. lines = <<>>
      BY <2>0, <3>2 DEF SamplesInv
    <3>8. SampleRecord(held') /\ BestRuns(held)' /\ LastSample(held, n + 1)' /\ LastRun(held.current, n + 1)'
      BY <3>0, <3>4, <3>6, SampleHolds
    <3>9. SamplesHold(held, n + 1)' /\ n + 1 \in Nat
      BY <3>2, <3>8 DEF SamplesHold
    <3>10. QED
      BY <3>2, <3>6, <3>7, <3>9 DEF SamplesInv
  <2>2. ASSUME EventEnd PROVE SamplesInv'
    <3>1. ElectricalEnd
      BY <2>0, <2>2, SampleSteps
    <3>2. /\ verdict = "reading" /\ verdict' = "converted" /\ UNCHANGED <<fed, held, declared, converter>>
          /\ lines' = Append(lines, [status |-> ConditionStatus, run |-> Best])
      BY <3>1 DEF ElectricalEnd, Ending, Carry
    <3>3. lines = <<>>
      BY <2>0, <3>2 DEF SamplesInv
    <3>4. PICK n \in Nat : Len(fed) = n /\ SamplesHold(held, n)
      BY <2>0 DEF SamplesInv
    <3>6. SamplesHold(held, n)' /\ ConditionStatus' = ConditionStatus
      BY <3>2, <3>4, SamplesKept
    <3>5. lines'[1].status = ConditionStatus
      <4> DEFINE line == [status |-> ConditionStatus, run |-> Best]
      <4>1. lines' = <<line>> /\ line.status = ConditionStatus
        BY <3>2, <3>3
      <4> HIDE DEF line
      <4>2. QED
        BY <4>1
    <3>7. QED
      BY <3>2, <3>4, <3>5, <3>6 DEF SamplesInv
  <2>3. ASSUME Refuse \/ UNCHANGED linesVars PROVE SamplesInv'
    <3>1. UNCHANGED <<converter, declared, fed, lines, passed, keys, held>>
          /\ (verdict' = verdict \/ (verdict = "reading" /\ verdict' = "refused"))
      BY <2>3 DEF Refuse, linesVars
    <3>2. PICK n \in Nat : Len(fed) = n /\ SamplesHold(held, n)
      BY <2>0 DEF SamplesInv
    <3>3. SamplesHold(held, n)' /\ ConditionStatus' = ConditionStatus
      BY <3>1, <3>2, SamplesKept
    <3>4. QED
      BY <2>0, <3>1, <3>2, <3>3 DEF SamplesInv
  <2>4. QED
    BY <2>1, <2>2, <2>3 DEF EventNext
<1>3. EventFile /\ SamplesInv => RunsAreUnbroken
  <2> SUFFICES ASSUME EventFile, SamplesInv, SamplesRun, verdict = "converted" PROVE RunsAreUnbroken
    BY Zenon DEF RunsAreUnbroken, Judged, SamplesRun
  <2>1. lines[1].status = ConditionStatus /\ \E n \in Nat : SamplesHold(held, n)
    BY SMTT(30) DEF SamplesInv
  <2>2. SamplesAre /\ Len(fed) \in Nat /\ DOMAIN fed = 1..Len(fed) /\ BestRuns(held)
    BY <2>1, SamplesAreKnown, SMTT(30) DEF EventFile, SamplesHold
  <2>3. Unknowable => ConditionStatus = "UNKNOWN"
    BY SMTT(30) DEF ConditionStatus
  <2>4. ~Unknowable =>
           /\ ConditionStatus = "MET" <=> (IF declared.sag THEN Long \cap After ELSE Long) # {}
           /\ ConditionStatus = "NOT_CROSSED" <=> Runs = {}
           /\ ConditionStatus = "NO_TRANSITION" <=> declared.sag /\ Runs # {} /\ After = {}
    BY <2>2, StatusTells
  <2>5. QED
    BY <2>1, <2>3, <2>4, Zenon DEF RunsAreUnbroken
<1>4. QED
  BY <1>1, <1>2, <1>3, PTL DEF EventSpec

-----------------------------------------------------------------------------
(* The judgement of check_identifier_uniqueness. *)

UniqueRuns == converter = "identifier uniqueness"

(* A round of this loop, and what follows it. *)
LEMMA UniqueSteps ==
    /\ UniqueRuns => EventStart = UniquenessStart(declared)
    /\ \A r : UniqueRuns /\ EventStep(r) => UniquenessRow(r)
    /\ UniqueRuns /\ EventEnd => UniquenessEnd
<1>1. UniqueRuns => EventStart = UniquenessStart(declared)
  BY Zenon DEF UniqueRuns, EventStart
<1>2. ASSUME NEW r, UniqueRuns, EventStep(r) PROVE UniquenessRow(r)
  BY <1>2, Zenon DEF EventStep, UniqueRuns
<1>3. UniqueRuns /\ EventEnd => UniquenessEnd
  BY Zenon DEF EventEnd, UniqueRuns
<1>4. QED
  BY <1>1, <1>2, <1>3

WindowsAreDeclared ==
    /\ IsList(declared.windows) /\ declared.subject # Absent
    /\ \A v, w \in DOMAIN declared.windows : v # w => declared.windows[v] \cap declared.windows[w] = {}

CountedTuple(r) == r.paired \in BOOLEAN /\ r.carried \in Nat /\ r.bound \in Nat

(* What a declaration and a tuple may be. *)
LEMMA UniqueIsKnown ==
    ASSUME UniqueRuns, EventFile
    PROVE  WindowsAreDeclared /\ \A r \in EventRecords[converter] : CountedTuple(r)
<1>1. WindowsAreDeclared
  BY Zenon, UniquenessAssumption DEF UniqueRuns, EventFile, WindowsAreDeclared
<1>2. \A r \in EventRecords[converter] : CountedTuple(r)
  BY Zenon, UniquenessAssumption DEF UniqueRuns, CountedTuple
<1>3. QED
  BY <1>1, <1>2

(* The rows of a source, and how many each of the rows stands for. *)
RowsFrom(s)  == {k \in DOMAIN fed : fed[k].paired /\ fed[k].source = s}
CarriedBy(s) == [k \in DOMAIN fed |-> IF k \in RowsFrom(s) THEN fed[k].carried ELSE 0]

(* The rows of a window that speak of the subject or do not say of whom. *)
GroupOf(w) ==
    {k \in DOMAIN fed : /\ fed[k].paired /\ fed[k].source \in declared.windows[w]
                        /\ fed[k].pin \in {Absent, declared.subject}}

(* The shapes account for the rows of each source, the groups hold their rows. *)
ShapesAre(shapes) ==
    /\ \A s : s \in DOMAIN shapes <=> s \in Assigned /\ RowsFrom(s) # {}
    /\ \A s \in DOMAIN shapes : \A k \in RowsFrom(s) : fed[k].bound = shapes[s].bound
    /\ \A s \in Assigned : TotalOf(CarriedBy(s)) = IF s \in DOMAIN shapes THEN shapes[s].total ELSE 0

GroupsAre(groups) ==
    /\ DOMAIN groups = DOMAIN declared.windows
    /\ \A w \in DOMAIN groups : groups[w] = GroupOf(w)

UniqueHolds(h) == h = [shapes |-> h.shapes, groups |-> h.groups] /\ ShapesAre(h.shapes) /\ GroupsAre(h.groups)

(* What the rows of a source are when one has been read more. *)
LEMMA RowsFromOneMore ==
    ASSUME EventFile, NEW r \in EventRecords[converter], EventRead(r)
    PROVE  /\ \A s : RowsFrom(s)' = IF r.paired /\ r.source = s THEN RowsFrom(s) \cup {Here} ELSE RowsFrom(s)
           /\ \A w : GroupOf(w)' = IF /\ r.paired /\ r.source \in declared.windows[w]
                                      /\ r.pin \in {Absent, declared.subject}
                                   THEN GroupOf(w) \cup {Here} ELSE GroupOf(w)
           /\ \A s : RowsFrom(s) \subseteq DOMAIN fed
<1>1. /\ DOMAIN fed' = DOMAIN fed \cup {Here} /\ Here \notin DOMAIN fed
      /\ \A i \in DOMAIN fed : fed'[i] = fed[i]
      /\ fed'[Here] = r /\ declared' = declared
  BY DEF EventRead
<1>2. ASSUME NEW s
      PROVE  RowsFrom(s)' = IF r.paired /\ r.source = s THEN RowsFrom(s) \cup {Here} ELSE RowsFrom(s)
  <2>1. RowsFrom(s)' = {k \in DOMAIN fed' : fed'[k].paired /\ fed'[k].source = s}
    BY DEF RowsFrom
  <2>2. QED
    BY <1>1, <2>1 DEF RowsFrom
<1>3. ASSUME NEW w
      PROVE  GroupOf(w)' = IF /\ r.paired /\ r.source \in declared.windows[w]
                              /\ r.pin \in {Absent, declared.subject}
                           THEN GroupOf(w) \cup {Here} ELSE GroupOf(w)
  <2>1. GroupOf(w)' = {k \in DOMAIN fed' : /\ fed'[k].paired /\ fed'[k].source \in declared.windows[w]
                                           /\ fed'[k].pin \in {Absent, declared.subject}}
    BY <1>1 DEF GroupOf
  <2>2. QED
    BY <1>1, <2>1 DEF GroupOf
<1>4. QED
  BY <1>2, <1>3 DEF RowsFrom

(* How many the rows of a source stand for, with one row more. *)
LEMMA CarriedOneMore ==
    ASSUME EventFile, NEW r \in EventRecords[converter], EventRead(r), CountedTuple(r),
           \A i \in DOMAIN fed : CountedTuple(fed[i]), NEW s
    PROVE  TotalOf(CarriedBy(s))' = TotalOf(CarriedBy(s)) + (IF r.paired /\ r.source = s THEN r.carried ELSE 0)
<1> DEFINE n == Len(fed)
           f == CarriedBy(s)
           g == CarriedBy(s)'
<1>1. /\ n \in Nat /\ Here = n + 1 /\ DOMAIN fed = 1..n /\ DOMAIN fed' = 1..(n + 1)
      /\ \A i \in DOMAIN fed : fed'[i] = fed[i]
      /\ fed'[n + 1] = r
  BY DEF EventRead
<1>2. RowsFrom(s)' = (IF r.paired /\ r.source = s THEN RowsFrom(s) \cup {n + 1} ELSE RowsFrom(s))
      /\ RowsFrom(s) \subseteq 1..n /\ n + 1 \notin 1..n
  BY <1>1, RowsFromOneMore
<1>3. f = [k \in 1..n |-> IF k \in RowsFrom(s) THEN fed[k].carried ELSE 0]
  BY <1>1 DEF CarriedBy
<1>4. g = [k \in 1..(n + 1) |-> IF k \in RowsFrom(s)' THEN fed'[k].carried ELSE 0]
  BY <1>1 DEF CarriedBy
<1>5. \A k \in 1..n : fed[k].carried \in Nat /\ r.carried \in Nat
  BY <1>1 DEF CountedTuple
<1>6. r.carried \in Nat
  BY DEF CountedTuple
<1> HIDE DEF f, g, n
<1>7. f \in [1..n -> Nat]
  BY <1>3, <1>5
<1>8. g \in [1..(n + 1) -> Nat]
  <2>1. \A k \in 1..(n + 1) : k \in 1..n \/ k = n + 1
    BY <1>1
  <2>2. \A k \in 1..(n + 1) : fed'[k].carried \in Nat
    BY <1>1, <1>5, <1>6, <2>1
  <2>3. QED
    BY <1>4, <2>2
<1>9. \A k \in 1..n : g[k] = f[k]
  <2>1. \A k \in 1..n : k \in 1..(n + 1) /\ k # n + 1
    BY <1>1
  <2>2. QED
    BY <1>1, <1>2, <1>3, <1>4, <2>1
<1>10. g[n + 1] = IF r.paired /\ r.source = s THEN r.carried ELSE 0
  <2>1. n + 1 \in 1..(n + 1)
    BY <1>1
  <2>2. QED
    BY <1>1, <1>2, <1>4, <2>1
<1>11. TotalOf(g) = TotalOf(f) + g[n + 1]
  BY <1>1, <1>7, <1>8, <1>9, TotalStep
<1>12. QED
  BY <1>10, <1>11 DEF f, g

(* A source is assigned when a window has it. *)
LEMMA AssignedIs == \A s : s \in Assigned <=> \E w \in DOMAIN declared.windows : s \in declared.windows[w]
  BY DEF Assigned, ToSet

(* What one row more does to the shapes. *)
LEMMA ShapesFollow ==
    ASSUME EventFile, NEW r \in EventRecords[converter], EventRead(r), \A q \in EventRecords[converter] : CountedTuple(q),
           NEW p, ShapesAre(p), NEW q,
           \/ q = p /\ (~r.paired \/ r.source \notin Assigned)
           \/ /\ r.paired /\ r.source \in Assigned
              /\ r.source \in DOMAIN p => r.bound = p[r.source].bound
              /\ q = [s \in DOMAIN p \cup {r.source} |->
                         IF s = r.source
                         THEN [bound |-> r.bound,
                               total |-> (IF r.source \in DOMAIN p THEN p[r.source].total ELSE 0) + r.carried]
                         ELSE p[s]]
    PROVE  ShapesAre(q)'
<1> DEFINE src == r.source
<1>1. /\ \A s : RowsFrom(s)' = IF r.paired /\ r.source = s THEN RowsFrom(s) \cup {Here} ELSE RowsFrom(s)
      /\ \A s : RowsFrom(s) \subseteq DOMAIN fed
  BY RowsFromOneMore
<1>2. \A s : TotalOf(CarriedBy(s))' = TotalOf(CarriedBy(s)) + (IF r.paired /\ r.source = s THEN r.carried ELSE 0)
  BY CarriedOneMore DEF EventFile
<1>3. /\ \A i \in DOMAIN fed : fed'[i] = fed[i]
      /\ fed'[Here] = r /\ declared' = declared
  BY DEF EventRead
<1>4. Assigned' = Assigned
  BY <1>3 DEF Assigned
<1>5. \A s \in Assigned : TotalOf(CarriedBy(s)) \in Nat
  <2>1. ASSUME NEW s PROVE TotalOf(CarriedBy(s)) \in Nat
    <3>1. CarriedBy(s) \in [1..Len(fed) -> Nat]
      <4>1. DOMAIN fed = 1..Len(fed) /\ \A i \in DOMAIN fed : fed[i].carried \in Nat
        BY DEF EventFile, CountedTuple
      <4>2. QED
        BY <4>1 DEF CarriedBy
    <3>2. Len(fed) \in Nat
      BY DEF EventFile
    <3>3. QED
      BY <3>1, <3>2, PlacesAreFinite
  <2>2. QED
    BY <2>1
<1>6. r.carried \in Nat
  BY DEF CountedTuple
<1>7. CASE q = p /\ (~r.paired \/ r.source \notin Assigned)
  <2>1. \A s \in Assigned : RowsFrom(s)' = RowsFrom(s) /\ TotalOf(CarriedBy(s))' = TotalOf(CarriedBy(s))
    BY <1>1, <1>2, <1>5, <1>7
  <2>2. \A s : s \in DOMAIN q <=> s \in Assigned /\ RowsFrom(s)' # {}
    BY <1>7, <2>1 DEF ShapesAre
  <2>3. \A s \in DOMAIN q : \A k \in RowsFrom(s)' : fed'[k].bound = q[s].bound
    BY <1>1, <1>3, <1>7, <2>1 DEF ShapesAre
  <2>4. \A s \in Assigned : TotalOf(CarriedBy(s))' = IF s \in DOMAIN q THEN q[s].total ELSE 0
    BY <1>7, <2>1 DEF ShapesAre
  <2>5. QED
    BY <1>4, <2>2, <2>3, <2>4 DEF ShapesAre
<1>8. CASE /\ r.paired /\ src \in Assigned
           /\ src \in DOMAIN p => r.bound = p[src].bound
           /\ q = [s \in DOMAIN p \cup {src} |->
                         IF s = src
                         THEN [bound |-> r.bound,
                               total |-> (IF src \in DOMAIN p THEN p[src].total ELSE 0) + r.carried]
                         ELSE p[s]]
  <2>1. DOMAIN q = DOMAIN p \cup {src} /\ \A s \in DOMAIN p : s # src => q[s] = p[s]
    BY <1>8
  <2>2. q[src].bound = r.bound /\ q[src].total = TotalOf(CarriedBy(src)) + r.carried
    <3>1. q[src] = [bound |-> r.bound, total |-> (IF src \in DOMAIN p THEN p[src].total ELSE 0) + r.carried]
      BY <1>8
    <3>2. TotalOf(CarriedBy(src)) = IF src \in DOMAIN p THEN p[src].total ELSE 0
      BY <1>8 DEF ShapesAre
    <3>3. QED
      BY <3>1, <3>2
  <2>3. r.paired /\ src \in Assigned /\ (src \in DOMAIN p => r.bound = p[src].bound)
    BY <1>8
  <2>4. \A s : s \in DOMAIN q <=> s \in Assigned /\ RowsFrom(s)' # {}
    BY <1>1, <2>1, <2>3 DEF ShapesAre
  <2>5. ASSUME NEW s \in DOMAIN q, NEW k \in RowsFrom(s)' PROVE fed'[k].bound = q[s].bound
    <3>1. CASE s # src
      <4>1. s \in DOMAIN p /\ k \in RowsFrom(s) /\ q[s] = p[s]
        BY <1>1, <2>1, <2>5, <3>1
      <4>2. QED
        BY <1>1, <1>3, <4>1 DEF ShapesAre
    <3>2. CASE s = src /\ k = Here
      BY <1>3, <2>2, <3>2
    <3>3. CASE s = src /\ k # Here
      <4>1. k \in RowsFrom(src) /\ k \in DOMAIN fed
        BY <1>1, <2>3, <2>5, <3>3
      <4>2. src \in DOMAIN p
        BY <2>3, <4>1 DEF ShapesAre
      <4>3. fed[k].bound = p[src].bound
        BY <4>1, <4>2 DEF ShapesAre
      <4>4. QED
        BY <1>3, <2>2, <2>3, <3>3, <4>1, <4>2, <4>3
    <3>4. QED
      BY <3>1, <3>2, <3>3
  <2>6. \A s \in Assigned : TotalOf(CarriedBy(s))' = IF s \in DOMAIN q THEN q[s].total ELSE 0
    <3>1. \A s \in Assigned : s # src => TotalOf(CarriedBy(s))' = TotalOf(CarriedBy(s))
      BY <1>2, <1>5
    <3>2. TotalOf(CarriedBy(src))' = TotalOf(CarriedBy(src)) + r.carried
      BY <1>2, <2>3
    <3>3. QED
      BY <2>1, <2>2, <2>3, <3>1, <3>2 DEF ShapesAre
  <2>7. QED
    BY <1>4, <2>4, <2>5, <2>6 DEF ShapesAre
<1>9. QED
  BY <1>7, <1>8

(* What one row more does to the groups. *)
LEMMA GroupsFollow ==
    ASSUME EventFile, NEW r \in EventRecords[converter], EventRead(r), WindowsAreDeclared,
           NEW g, GroupsAre(g), NEW q,
           \/ q = g /\ (~r.paired \/ r.source \notin Assigned \/ r.pin \notin {Absent, declared.subject})
           \/ /\ r.paired /\ r.source \in Assigned /\ r.pin \in {Absent, declared.subject}
              /\ q = [g EXCEPT ![WindowOf(r.source)] = @ \cup {Here}]
    PROVE  GroupsAre(q)'
<1>1. \A w : GroupOf(w)' = IF /\ r.paired /\ r.source \in declared.windows[w]
                              /\ r.pin \in {Absent, declared.subject}
                           THEN GroupOf(w) \cup {Here} ELSE GroupOf(w)
  BY RowsFromOneMore
<1>2. declared' = declared
  BY DEF EventRead
<1>3. CASE q = g /\ (~r.paired \/ r.source \notin Assigned \/ r.pin \notin {Absent, declared.subject})
  <2>1. \A w \in DOMAIN declared.windows : GroupOf(w)' = GroupOf(w)
    BY <1>1, <1>3, AssignedIs
  <2>2. QED
    BY <1>2, <1>3, <2>1 DEF GroupsAre
<1>4. CASE /\ r.paired /\ r.source \in Assigned /\ r.pin \in {Absent, declared.subject}
           /\ q = [g EXCEPT ![WindowOf(r.source)] = @ \cup {Here}]
  <2> DEFINE v == WindowOf(r.source)
  <2>1. v \in DOMAIN declared.windows /\ r.source \in declared.windows[v]
    BY <1>4, AssignedIs DEF WindowOf
  <2>2. \A w \in DOMAIN declared.windows : r.source \in declared.windows[w] => w = v
    BY <2>1 DEF WindowsAreDeclared
  <2>3. q = [g EXCEPT ![v] = g[v] \cup {Here}]
    BY <1>4
  <2> HIDE DEF v
  <2>4. DOMAIN q = DOMAIN g /\ \A w \in DOMAIN g : q[w] = IF w = v THEN g[v] \cup {Here} ELSE g[w]
    BY <2>3
  <2>5. \A w \in DOMAIN declared.windows : GroupOf(w)' = IF w = v THEN GroupOf(v) \cup {Here} ELSE GroupOf(w)
    BY <1>1, <1>4, <2>1, <2>2
  <2>6. QED
    BY <1>2, <2>1, <2>4, <2>5 DEF GroupsAre
<1>5. QED
  BY <1>3, <1>4

(* While the loop runs, and what it has concluded after it. *)
UniqueInv ==
    UniqueRuns =>
        /\ UniqueHolds(held)
        /\ verdict = "reading" => lines = <<>>
        /\ verdict = "converted" =>
              \A i \in DOMAIN lines :
                 i \in DOMAIN declared.windows /\ lines[i] = [window |-> i, disposition |-> WindowDisposition(i)]

(* Before the loop nothing is counted. *)
LEMMA UniqueBegins == ASSUME EventInit PROVE UniqueInv
<1> SUFFICES ASSUME UniqueRuns PROVE UniqueInv
  BY DEF UniqueInv
<1>1. held = UniquenessStart(declared) /\ lines = <<>> /\ fed = <<>> /\ verdict = "reading"
  BY UniqueSteps DEF EventInit, Starting
<1>2. DOMAIN fed = {}
  BY <1>1, FewRows
<1>3. /\ held = [shapes |-> held.shapes, groups |-> held.groups]
      /\ DOMAIN held.shapes = {} /\ held.groups = [w \in DOMAIN declared.windows |-> {}]
  BY <1>1 DEF UniquenessStart
<1>4. \A s : RowsFrom(s) = {} /\ TotalOf(CarriedBy(s)) = 0
  BY <1>2, TotalOfNone DEF RowsFrom, CarriedBy
<1>5. ShapesAre(held.shapes)
  BY <1>3, <1>4 DEF ShapesAre
<1>6. GroupsAre(held.groups)
  BY <1>2, <1>3 DEF GroupsAre, GroupOf
<1>7. QED
  BY <1>1, <1>3, <1>5, <1>6 DEF UniqueInv, UniqueHolds

(* A row of the file. *)
LEMMA UniqueRowHolds ==
    ASSUME EventFile, UniqueRuns, UniqueHolds(held), NEW r \in EventRecords[converter], EventRead(r),
           UniquenessRow(r)
    PROVE  UniqueHolds(held)' /\ lines' = lines
<1>1. WindowsAreDeclared /\ \A q \in EventRecords[converter] : CountedTuple(q)
  BY UniqueIsKnown
<1>2. /\ held = [shapes |-> held.shapes, groups |-> held.groups]
      /\ ShapesAre(held.shapes) /\ GroupsAre(held.groups)
  BY DEF UniqueHolds
<1> DEFINE total == ShapeOf(r).total + r.carried
           shapes == [s \in DOMAIN held.shapes \cup {r.source} |->
                         IF s = r.source THEN [bound |-> r.bound, total |-> total] ELSE held.shapes[s]]
           src == r.source
           more == [s \in DOMAIN held.shapes \cup {src} |->
                       IF s = src
                       THEN [bound |-> r.bound,
                             total |-> (IF src \in DOMAIN held.shapes THEN held.shapes[src].total ELSE 0) + r.carried]
                       ELSE held.shapes[s]]
<1>3. shapes = more
  <2>1. ShapeOf(r).total = IF src \in DOMAIN held.shapes THEN held.shapes[src].total ELSE 0
    BY DEF ShapeOf
  <2>2. QED
    BY <2>1
<1>4. ShapeOf(r).bound = IF src \in DOMAIN held.shapes THEN held.shapes[src].bound ELSE r.bound
  BY DEF ShapeOf
<1>5. lines' = lines
  BY DEF UniquenessRow, PassOver, Keeping
<1> DEFINE kept == [held.groups EXCEPT ![WindowOf(src)] = @ \cup {Here}]
<1>6. \/ held' = held /\ (~r.paired \/ src \notin Assigned)
      \/ /\ r.paired /\ src \in Assigned /\ r.bound = ShapeOf(r).bound
         /\ r.pin \notin {Absent, declared.subject} /\ held' = [held EXCEPT !.shapes = more]
      \/ /\ r.paired /\ src \in Assigned /\ r.bound = ShapeOf(r).bound
         /\ r.pin \in {Absent, declared.subject} /\ held' = [shapes |-> more, groups |-> kept]
  BY <1>3 DEF UniquenessRow, Hold
<1> HIDE DEF more, shapes, total, kept
<1>7. /\ held' = [shapes |-> held'.shapes, groups |-> held'.groups]
      /\ \/ held'.shapes = held.shapes /\ held'.groups = held.groups /\ (~r.paired \/ src \notin Assigned)
         \/ /\ r.paired /\ src \in Assigned /\ r.bound = ShapeOf(r).bound
            /\ r.pin \notin {Absent, declared.subject} /\ held'.shapes = more /\ held'.groups = held.groups
         \/ /\ r.paired /\ src \in Assigned /\ r.bound = ShapeOf(r).bound
            /\ r.pin \in {Absent, declared.subject} /\ held'.shapes = more /\ held'.groups = kept
  <2>1. CASE held' = held /\ (~r.paired \/ src \notin Assigned)
    BY <1>2, <2>1
  <2>2. CASE /\ r.paired /\ src \in Assigned /\ r.bound = ShapeOf(r).bound
             /\ r.pin \notin {Absent, declared.subject} /\ held' = [held EXCEPT !.shapes = more]
    <3>1. held' = [shapes |-> more, groups |-> held.groups]
      BY <1>2, <2>2
    <3>2. QED
      BY <2>2, <3>1
  <2>3. CASE /\ r.paired /\ src \in Assigned /\ r.bound = ShapeOf(r).bound
             /\ r.pin \in {Absent, declared.subject} /\ held' = [shapes |-> more, groups |-> kept]
    BY <2>3
  <2>4. QED
    BY <1>6, <2>1, <2>2, <2>3
<1>8. PICK p : p = held.shapes
  OBVIOUS
<1>9. PICK q : q = held'.shapes
  OBVIOUS
<1>10. PICK g : g = held.groups
  OBVIOUS
<1>11. PICK k : k = held'.groups
  OBVIOUS
<1>12. ShapesAre(q)'
  <2>1. \/ q = p /\ (~r.paired \/ r.source \notin Assigned)
        \/ /\ r.paired /\ r.source \in Assigned
           /\ r.source \in DOMAIN p => r.bound = p[r.source].bound
           /\ q = [s \in DOMAIN p \cup {r.source} |->
                      IF s = r.source
                      THEN [bound |-> r.bound,
                            total |-> (IF r.source \in DOMAIN p THEN p[r.source].total ELSE 0) + r.carried]
                      ELSE p[s]]
    BY <1>4, <1>7, <1>8, <1>9 DEF more
  <2>2. ShapesAre(p)
    BY <1>2, <1>8
  <2>3. QED
    BY <1>1, <2>1, <2>2, ShapesFollow
<1>13. GroupsAre(k)'
  <2>1. \/ k = g /\ (~r.paired \/ r.source \notin Assigned \/ r.pin \notin {Absent, declared.subject})
        \/ /\ r.paired /\ r.source \in Assigned /\ r.pin \in {Absent, declared.subject}
           /\ k = [g EXCEPT ![WindowOf(r.source)] = @ \cup {Here}]
    BY <1>7, <1>10, <1>11 DEF kept
  <2>2. GroupsAre(g)
    BY <1>2, <1>10
  <2>3. QED
    BY <1>1, <2>1, <2>2, GroupsFollow
<1>14. ShapesAre(held.shapes)'
  BY <1>9, <1>12 DEF ShapesAre
<1>15. GroupsAre(held.groups)'
  BY <1>11, <1>13 DEF GroupsAre
<1>16. QED
  BY <1>5, <1>7, <1>14, <1>15 DEF UniqueHolds

(* What CONSISTENT says of a window. *)
LEMMA ConsistentTells ==
    ASSUME EventFile, WindowsAreDeclared, UniqueHolds(held), NEW w \in DOMAIN declared.windows,
           WindowDisposition(w) = "CONSISTENT",
           Absent \notin {"SOURCE_NOT_REPORTED", "ACCOUNTING_INCOMPLETE", "COMPONENT_NOT_REPORTED",
                          "SUBJECT_NOT_REPORTED"}
    PROVE  /\ \A s \in declared.windows[w] :
                 RowsFrom(s) # {} /\ \A k \in RowsFrom(s) : TotalOf(CarriedBy(s)) = fed[k].bound
           /\ \E name \in {fed[k].name : k \in DOMAIN fed} \ {Absent} : \A s \in declared.windows[w] :
                 \A k \in RowsFrom(s) :
                    fed[k].pin \in {Absent, declared.subject} => fed[k].pin # Absent /\ fed[k].name = name
<1>1. ShapesAre(held.shapes) /\ held.groups[w] = GroupOf(w)
  BY DEF UniqueHolds, GroupsAre
<1>2. Insufficient(w) = Absent /\ ~(Cardinality(NamesOf(w)) > 1)
  BY DEF WindowDisposition
<1> DEFINE witnesses == {fed[i] : i \in held.groups[w]}
<1>3. /\ \A s \in declared.windows[w] : Reported(s)
      /\ \A s \in declared.windows[w] : Accounted(s)
      /\ ~\E r \in witnesses : Absent \in {r.pin, r.name}
      /\ witnesses # {}
  <2> DEFINE reported == \A s \in declared.windows[w] : Reported(s)
             accounted == \A s \in declared.windows[w] : Accounted(s)
             bare == \E r \in witnesses : Absent \in {r.pin, r.name}
             none == witnesses = {}
  <2>1. Insufficient(w) = CASE ~reported                -> "SOURCE_NOT_REPORTED"
                            [] reported /\ ~accounted   -> "ACCOUNTING_INCOMPLETE"
                            [] OTHER -> CASE bare -> "COMPONENT_NOT_REPORTED"
                                          [] none -> "SUBJECT_NOT_REPORTED"
                                          [] OTHER -> Absent
    BY DEF Insufficient
  <2>2. reported /\ accounted /\ ~bare /\ ~none
    <3> HIDE DEF reported, accounted, bare, none, witnesses
    <3>1. reported
      BY <1>2, <2>1
    <3>2. accounted
      BY <1>2, <2>1, <3>1
    <3>3. Absent = CASE bare -> "COMPONENT_NOT_REPORTED"
                     [] none -> "SUBJECT_NOT_REPORTED"
                     [] OTHER -> Absent
      BY <1>2, <2>1, <3>1, <3>2
    <3>4. QED
      BY <3>1, <3>2, <3>3
  <2>3. QED
    BY <2>2
<1>4. ASSUME NEW s \in declared.windows[w]
      PROVE  RowsFrom(s) # {} /\ \A k \in RowsFrom(s) : TotalOf(CarriedBy(s)) = fed[k].bound
  <2>1. s \in DOMAIN held.shapes /\ held.shapes[s].total = held.shapes[s].bound /\ s \in Assigned
    BY <1>3, AssignedIs DEF Accounted, Reported
  <2>2. QED
    BY <1>1, <2>1 DEF ShapesAre
<1>5. PICK m \in GroupOf(w) : TRUE
  BY <1>1, <1>3
<1>6. \A k \in GroupOf(w) : /\ k \in DOMAIN fed /\ fed[k].pin # Absent /\ fed[k].name # Absent
                            /\ fed[k].name \in NamesOf(w)
  BY <1>1, <1>3 DEF GroupOf, NamesOf
<1>7. IsFiniteSet(NamesOf(w))
  <2> DEFINE D == 1..Len(fed)
             name == [i \in D |-> fed[i].name]
             V == {fed[i].name : i \in D}
  <2>1. GroupOf(w) \subseteq D /\ IsFiniteSet(D)
    BY FS_Interval DEF EventFile, GroupOf
  <2>2. name \in Surjection(D, V)
    BY DEF Surjection
  <2>3. IsFiniteSet(V)
    BY <2>1, <2>2, FS_Surjection
  <2>4. NamesOf(w) \subseteq V
    BY <1>1, <2>1 DEF NamesOf
  <2>5. QED
    BY <2>3, <2>4, FS_Subset
<1>8. \A k \in GroupOf(w) : fed[k].name = fed[m].name
  BY <1>2, <1>5, <1>6, <1>7, TwoMembers
<1>9. fed[m].name \in {fed[k].name : k \in DOMAIN fed} \ {Absent}
  BY <1>5, <1>6
<1>10. \A s \in declared.windows[w] : \A k \in RowsFrom(s) :
          fed[k].pin \in {Absent, declared.subject} => fed[k].pin # Absent /\ fed[k].name = fed[m].name
  BY <1>6, <1>8 DEF RowsFrom, GroupOf
<1>11. QED
  BY <1>4, <1>9, <1>10

(* CONSISTENT rests on every row of every source of its window. *)
LEMMA UniquenessHolds == EventSpec => []UniquenessIsWitnessed
<1>1. EventInit => EventFile /\ UniqueInv
  BY EventsBegin, UniqueBegins
<1>2. EventFile /\ UniqueInv /\ [EventNext]_linesVars => EventFile' /\ UniqueInv'
  <2> SUFFICES ASSUME EventFile, UniqueInv, [EventNext]_linesVars, UniqueRuns' PROVE UniqueInv'
    BY EventFileStays DEF UniqueInv
  <2>0. UniqueRuns /\ WindowsAreDeclared /\ UniqueHolds(held)
    <3>1. UniqueRuns
      BY EventFileStays, Zenon DEF UniqueRuns
    <3>2. QED
      BY <3>1, UniqueIsKnown DEF UniqueInv
  <2>1. ASSUME NEW r \in EventRecords[converter], Taking(r), EventStep(r) PROVE UniqueInv'
    <3>1. EventRead(r)
      BY <2>1, EventIsRead
    <3>2. verdict = "reading" /\ verdict' = "reading"
      BY <3>1 DEF EventRead
    <3>3. UniquenessRow(r)
      BY <2>0, <2>1, UniqueSteps
    <3>4. UniqueHolds(held)' /\ lines' = lines
      BY <2>0, <3>1, <3>3, UniqueRowHolds
    <3>5. lines = <<>>
      BY <2>0, <3>2 DEF UniqueInv
    <3>6. QED
      BY <3>2, <3>4, <3>5 DEF UniqueInv
  <2>2. ASSUME UNCHANGED <<converter, declared, fed, held>>
        PROVE  UniqueHolds(held)' /\ (\A w : WindowDisposition(w)' = WindowDisposition(w))
               /\ declared' = declared
    <3>1. \A s : RowsFrom(s)' = RowsFrom(s) /\ CarriedBy(s)' = CarriedBy(s) /\ GroupOf(s)' = GroupOf(s)
      BY <2>2 DEF RowsFrom, CarriedBy, GroupOf
    <3>2. \A s : (Reported(s)' <=> Reported(s)) /\ (Accounted(s)' <=> Accounted(s))
      BY <2>2 DEF Reported, Accounted
    <3>3. UniqueHolds(held)'
      BY <2>0, <2>2, <3>1 DEF UniqueHolds, ShapesAre, GroupsAre, Assigned
    <3>4. \A w : WindowDisposition(w)' = WindowDisposition(w)
      BY <2>2, <3>2 DEF WindowDisposition, Insufficient, NamesOf
    <3>5. QED
      BY <2>2, <3>3, <3>4
  <2>3. ASSUME EventEnd PROVE UniqueInv'
    <3> DEFINE rows == [w \in DOMAIN declared.windows |-> [window |-> w, disposition |-> WindowDisposition(w)]]
    <3>1. UniquenessEnd
      BY <2>0, <2>3, UniqueSteps
    <3>2. /\ verdict = "reading" /\ verdict' = "converted" /\ UNCHANGED <<converter, declared, fed, held>>
          /\ lines' = lines \o rows
      BY <3>1 DEF UniquenessEnd, Ending, CarryAll
    <3>3. lines = <<>>
      BY <2>0, <3>2 DEF UniqueInv
    <3>4. IsRows(rows) /\ DOMAIN rows = DOMAIN declared.windows
      <4>1. DOMAIN rows = 1..Len(declared.windows) /\ Len(declared.windows) \in Nat
        BY <2>0 DEF WindowsAreDeclared, IsList
      <4> DEFINE S == {rows[i] : i \in DOMAIN rows}
      <4>2. rows \in [DOMAIN rows -> S]
        <5> HIDE DEF rows
        <5>1. rows = [i \in DOMAIN rows |-> rows[i]]
          BY DEF rows
        <5>2. QED
          BY <5>1
      <4>3. DOMAIN rows = DOMAIN declared.windows
        OBVIOUS
      <4> HIDE DEF rows
      <4>4. rows \in Seq(S)
        BY <4>1, <4>2, SeqDef
      <4>5. QED
        BY <4>3, <4>4 DEF IsRows
    <3>5. \A i \in DOMAIN rows : rows[i] = [window |-> i, disposition |-> WindowDisposition(i)]
      OBVIOUS
    <3> HIDE DEF rows
    <3>6. IsRows(lines) /\ DOMAIN lines = {} /\ Len(lines) = 0
      BY <3>3, FewRows
    <3>7. /\ \A j \in DOMAIN rows : (lines \o rows)[Len(lines) + j] = rows[j]
          /\ \A n \in DOMAIN (lines \o rows) : n \in DOMAIN lines \/ \E j \in DOMAIN rows : n = Len(lines) + j
      <4>1. IsRows(lines) /\ IsRows(rows)
        BY <3>4, <3>6
      <4>2. QED
        BY <4>1, ConcatRows, ZenonT(60)
    <3>8. \A i \in DOMAIN lines' : i \in DOMAIN rows /\ lines'[i] = rows[i]
      <4> DEFINE all == lines \o rows
      <4>1. /\ \A j \in DOMAIN rows : all[0 + j] = rows[j] /\ j \in Nat
            /\ \A n \in DOMAIN all : \E j \in DOMAIN rows : n = 0 + j
        BY <2>0, <3>4, <3>6, <3>7 DEF WindowsAreDeclared, IsList
      <4> HIDE DEF all
      <4>2. lines' = all
        BY <3>2 DEF all
      <4>3. QED
        BY <4>1, <4>2
    <3>9. QED
      BY <2>2, <3>2, <3>4, <3>5, <3>8 DEF UniqueInv
  <2>4. ASSUME Refuse \/ UNCHANGED linesVars PROVE UniqueInv'
    <3>1. UNCHANGED <<converter, declared, fed, lines, held>>
          /\ (verdict' = verdict \/ (verdict = "reading" /\ verdict' = "refused"))
      BY <2>4 DEF Refuse, linesVars
    <3>2. QED
      BY <2>0, <2>2, <3>1 DEF UniqueInv
  <2>5. QED
    BY <2>1, <2>3, <2>4 DEF EventNext
<1>3. EventFile /\ UniqueInv => UniquenessIsWitnessed
  <2> SUFFICES ASSUME EventFile, UniqueInv, UniqueRuns, verdict = "converted" PROVE UniquenessIsWitnessed
    BY Zenon DEF UniquenessIsWitnessed, Judged, UniqueRuns
  <2>1. /\ UniqueHolds(held) /\ WindowsAreDeclared
        /\ \A i \in DOMAIN lines :
              i \in DOMAIN declared.windows /\ lines[i] = [window |-> i, disposition |-> WindowDisposition(i)]
    BY UniqueIsKnown DEF UniqueInv
  <2>2. Absent \notin {"SOURCE_NOT_REPORTED", "ACCOUNTING_INCOMPLETE", "COMPONENT_NOT_REPORTED",
                       "SUBJECT_NOT_REPORTED"}
    BY Zenon, UniquenessAssumption
  <2>3. ASSUME NEW i \in DOMAIN lines, lines[i].disposition = "CONSISTENT"
        PROVE  /\ \A s \in declared.windows[lines[i].window] :
                     RowsFrom(s) # {} /\ \A k \in RowsFrom(s) : TotalOf(CarriedBy(s)) = fed[k].bound
               /\ \E name \in {fed[k].name : k \in DOMAIN fed} \ {Absent} : \A s \in declared.windows[lines[i].window] :
                     \A k \in RowsFrom(s) :
                        fed[k].pin \in {Absent, declared.subject} => fed[k].pin # Absent /\ fed[k].name = name
    <3>1. lines[i].window = i /\ WindowDisposition(i) = "CONSISTENT" /\ i \in DOMAIN declared.windows
      BY <2>1, <2>3
    <3>2. QED
      BY <2>1, <2>2, <3>1, ConsistentTells
  <2>4. QED
    BY <2>3, Zenon DEF UniquenessIsWitnessed, RowsFrom, CarriedBy
<1>4. QED
  BY <1>1, <1>2, <1>3, PTL DEF EventSpec

-----------------------------------------------------------------------------
(* The changes and windows of convert_saved_state_transitions. *)

TransitionRuns == converter = "state transitions"

(* A round of this loop, and what follows it. *)
LEMMA TransitionSteps ==
    /\ TransitionRuns => EventStart = <<>>
    /\ \A r : TransitionRuns /\ EventStep(r) => Transition(r)
    /\ TransitionRuns /\ EventEnd => TransitionsEnd
<1>1. TransitionRuns => EventStart = <<>>
  BY Zenon DEF TransitionRuns, EventStart
<1>2. ASSUME NEW r, TransitionRuns, EventStep(r) PROVE Transition(r)
  BY <1>2, Zenon DEF EventStep, TransitionRuns
<1>3. TransitionRuns /\ EventEnd => TransitionsEnd
  BY Zenon DEF EventEnd, TransitionRuns
<1>4. QED
  BY <1>1, <1>2, <1>3

(* What a declaration and a row may be. *)
LEMMA TransitionsAreKnown ==
    ASSUME TransitionRuns, EventFile
    PROVE  /\ declared.span \in (Nat \ {0}) \cup {Absent} /\ Absent \notin Int
           /\ \A r \in EventRecords[converter] : r.time \in Nat
<1>1. Absent \notin Int
  BY EventAssumption
<1>2. declared.span \in (Nat \ {0}) \cup {Absent}
  BY Zenon, EventAssumption DEF TransitionRuns, EventFile
<1>3. \A r \in EventRecords[converter] : r.time \in Nat
  BY Zenon, EventAssumption DEF TransitionRuns
<1>4. QED
  BY <1>1, <1>2, <1>3

(* Row i is the last of subject s among n rows. *)
IsLast(i, s, n) == fed[i].subject = s /\ \A j \in (i + 1)..n : fed[j].subject # s

LastsAre(h, n) ==
    /\ \A s : s \in DOMAIN h <=> \E i \in 1..n : fed[i].subject = s
    /\ \A s \in DOMAIN h : \E i \in 1..n : IsLast(i, s, n) /\ h[s].value = fed[i].value /\ h[s].time = fed[i].time

RowRead(r, n) ==
    /\ n \in Nat /\ DOMAIN fed = 1..n /\ DOMAIN fed' = 1..(n + 1)
    /\ \A i \in 1..n : fed'[i] = fed[i]
    /\ fed'[n + 1] = r

(* The last rows of the subjects, with one row more. *)
LEMMA LastsFollow ==
    ASSUME NEW r, NEW n, RowRead(r, n), NEW h, LastsAre(h, n), NEW g,
           g = Putting(h, r.subject, [value |-> r.value, time |-> r.time])
    PROVE  LastsAre(g, n + 1)'
<1> DEFINE v == [value |-> r.value, time |-> r.time]
<1>0. /\ n \in Nat /\ \A i \in 1..n : fed'[i] = fed[i]
      /\ fed'[n + 1] = r /\ n + 1 \in 1..(n + 1) /\ \A i : i \in 1..(n + 1) <=> i \in 1..n \/ i = n + 1
  BY DEF RowRead
<1>1. DOMAIN g = DOMAIN h \cup {r.subject} /\ \A s \in DOMAIN g : g[s] = IF s = r.subject THEN v ELSE h[s]
  BY DEF Putting
<1>2. v.value = r.value /\ v.time = r.time
  OBVIOUS
<1> HIDE DEF v
<1>3. \A s : s \in DOMAIN g <=> \E i \in 1..(n + 1) : fed'[i].subject = s
  BY <1>0, <1>1 DEF LastsAre
<1>4. ASSUME NEW s \in DOMAIN g
      PROVE  \E i \in 1..(n + 1) : IsLast(i, s, n + 1)' /\ g[s].value = fed'[i].value /\ g[s].time = fed'[i].time
  <2>1. CASE s = r.subject
    <3>1. (n + 1 + 1)..(n + 1) = {}
      BY <1>0
    <3>2. IsLast(n + 1, s, n + 1)'
      BY <1>0, <2>1, <3>1 DEF IsLast
    <3>3. QED
      BY <1>0, <1>1, <1>2, <2>1, <3>2
  <2>2. CASE s # r.subject
    <3>1. s \in DOMAIN h /\ g[s] = h[s]
      BY <1>1, <2>2
    <3>2. PICK i \in 1..n : IsLast(i, s, n) /\ h[s].value = fed[i].value /\ h[s].time = fed[i].time
      BY <3>1 DEF LastsAre
    <3>3. \A j \in (i + 1)..(n + 1) : j \in (i + 1)..n \/ j = n + 1
      BY <1>0
    <3>4. \A j \in (i + 1)..n : j \in 1..n
      BY <1>0
    <3>5. IsLast(i, s, n + 1)'
      BY <1>0, <2>2, <3>2, <3>3, <3>4 DEF IsLast
    <3>6. QED
      BY <1>0, <3>1, <3>2, <3>5
  <2>3. QED
    BY <2>1, <2>2
<1>5. QED
  BY <1>3, <1>4 DEF LastsAre

(* What one row more adds to the changes. *)
Adds(x, r, n) ==
    /\ x[1] \in 1..n /\ x = <<x[1], n + 1>> /\ IsLast(x[1], r.subject, n)
    /\ Absent \notin {fed[x[1]].value, r.value} /\ fed[x[1]].value # r.value

(* What the neighbours are that differ. *)
LEMMA DifferingIn ==
    ASSUME NEW n \in Nat, DOMAIN fed = 1..n, NEW x
    PROVE  x \in Differing <=> /\ x[1] \in 1..n /\ x[2] \in 1..n /\ x = <<x[1], x[2]>> /\ Neighbours(x)
                               /\ Absent \notin {fed[x[1]].value, fed[x[2]].value}
                               /\ fed[x[1]].value # fed[x[2]].value
  BY DEF Differing

(* The differing neighbours, with one row more. *)
LEMMA DifferingGrows ==
    ASSUME NEW r, NEW n, RowRead(r, n)
    PROVE  /\ \A x : x \in Differing' <=> x \in Differing \/ Adds(x, r, n)
           /\ \A x : Adds(x, r, n) => x \notin Differing
           /\ \A x \in Differing : fed'[x[1]] = fed[x[1]] /\ fed'[x[2]] = fed[x[2]]
<1>0. /\ n \in Nat /\ DOMAIN fed = 1..n /\ DOMAIN fed' = 1..(n + 1) /\ \A i \in 1..n : fed'[i] = fed[i]
      /\ fed'[n + 1] = r /\ n + 1 \in 1..(n + 1) /\ \A i : i \in 1..(n + 1) <=> i \in 1..n \/ i = n + 1
      /\ n + 1 \notin 1..n
  BY DEF RowRead
<1>1. \A x : x \in Differing <=> /\ x[1] \in 1..n /\ x[2] \in 1..n /\ x = <<x[1], x[2]>> /\ Neighbours(x)
                                 /\ Absent \notin {fed[x[1]].value, fed[x[2]].value}
                                 /\ fed[x[1]].value # fed[x[2]].value
  BY <1>0, DifferingIn
<1>2. \A x : x \in Differing' <=> /\ x[1] \in 1..(n + 1) /\ x[2] \in 1..(n + 1) /\ x = <<x[1], x[2]>> /\ Neighbours(x)'
                                  /\ Absent \notin {fed'[x[1]].value, fed'[x[2]].value}
                                  /\ fed'[x[1]].value # fed'[x[2]].value
  BY <1>0 DEF Differing
<1>3. ASSUME NEW x, x[1] \in 1..n, x[2] \in 1..n
      PROVE  Neighbours(x)' <=> Neighbours(x)
  <2>1. \A k \in (x[1] + 1)..(x[2] - 1) : k \in 1..n
    BY <1>0, <1>3
  <2>2. QED
    BY <1>0, <1>3, <2>1 DEF Neighbours
<1>4. ASSUME NEW x, x[1] \in 1..n, x[2] = n + 1
      PROVE  Neighbours(x)' <=> IsLast(x[1], r.subject, n)
  <2>1. (n + 1) - 1 = n /\ x[1] < n + 1 /\ \A k \in (x[1] + 1)..n : k \in 1..n
    BY <1>0, <1>4
  <2>2. QED
    BY <1>0, <1>4, <2>1 DEF Neighbours, IsLast
<1>5. ASSUME NEW x, x[1] = n + 1, x[2] \in 1..(n + 1) PROVE ~Neighbours(x)'
  BY <1>0, <1>5 DEF Neighbours
<1>6. ASSUME NEW x, x \in Differing' PROVE x \in Differing \/ Adds(x, r, n)
  <2>1. x[1] \in 1..n
    BY <1>0, <1>2, <1>5, <1>6
  <2>2. CASE x[2] \in 1..n
    BY <1>0, <1>1, <1>2, <1>3, <1>6, <2>1, <2>2
  <2>3. CASE x[2] = n + 1
    BY <1>0, <1>2, <1>4, <1>6, <2>1, <2>3 DEF Adds
  <2>4. QED
    BY <1>0, <1>2, <1>6, <2>2, <2>3
<1>7. ASSUME NEW x, x \in Differing PROVE x \in Differing'
  BY <1>0, <1>1, <1>2, <1>3, <1>7
<1>8. ASSUME NEW x, Adds(x, r, n) PROVE x \in Differing' /\ x \notin Differing
  <2>1. x[1] \in 1..n /\ x = <<x[1], n + 1>>
    BY <1>8 DEF Adds
  <2>2. x[2] = n + 1
    BY <2>1
  <2>3. Neighbours(x)'
    BY <1>4, <1>8, <2>1, <2>2 DEF Adds
  <2>4. Absent \notin {fed'[x[1]].value, fed'[x[2]].value} /\ fed'[x[1]].value # fed'[x[2]].value
    BY <1>0, <1>8, <2>1, <2>2 DEF Adds
  <2>5. x \in Differing'
    BY <1>0, <1>2, <2>1, <2>2, <2>3, <2>4
  <2>6. QED
    BY <1>0, <1>1, <2>2, <2>5
<1>9. \A x \in Differing : fed'[x[1]] = fed[x[1]] /\ fed'[x[2]] = fed[x[2]]
  BY <1>0, <1>1
<1>10. QED
  BY <1>6, <1>7, <1>8, <1>9

(* A subject has one last row. *)
LEMMA OneLast ==
    ASSUME NEW n \in Nat, NEW i \in 1..n, NEW j \in 1..n, NEW s, IsLast(i, s, n), IsLast(j, s, n)
    PROVE  i = j
<1>1. (i < j => j \in (i + 1)..n) /\ (j < i => i \in (j + 1)..n)
  OBVIOUS
<1>2. ~(i < j) /\ ~(j < i)
  BY <1>1 DEF IsLast
<1>3. QED
  BY <1>2

(* The changes told, and those there are. *)
Told ==
    {[subject |-> lines[i].subject, from |-> lines[i].previous.time, at |-> lines[i].time] : i \in ChangeRows}

Differs(x) == [subject |-> fed[x[2]].subject, from |-> fed[x[1]].time, at |-> fed[x[2]].time]

ChangesKnown ==
    /\ IsRows(lines) /\ \A i \in DOMAIN lines : lines[i].kind = "transition" /\ lines[i].time \in Nat
    /\ IsFiniteSet(ChangeRows) /\ IsFiniteSet(Differing) /\ Cardinality(ChangeRows) = Cardinality(Differing)
    /\ Told = {Differs(x) : x \in Differing}

(* What the loop does with a row. *)
LEMMA TransitionDoes ==
    ASSUME NEW r, Transition(r),
           NEW changes, changes <=> /\ r.subject \in DOMAIN held /\ held[r.subject].value # Absent
                                    /\ r.value \notin {Absent, held[r.subject].value}
    PROVE  /\ held' = Putting(held, r.subject, [value |-> r.value, time |-> r.time])
           /\ fed # <<>> => r.time >= Last(fed).time
           /\ \/ ~changes /\ lines' = lines
              \/ \E row : /\ lines' = Append(lines, row)
                          /\ row.kind = "transition" /\ row.time = r.time /\ row.subject = r.subject
                          /\ row.disposition = "CHANGE" <=> changes
                          /\ changes => row.previous = held[r.subject]
<1> DEFINE seen == LastOf(r.subject)
           disposition == CASE r.subject \notin DOMAIN held -> "FIRST"
                            [] r.subject \in DOMAIN held /\ seen.value = Absent -> "PREVIOUS_NOT_REPORTED"
                            [] OTHER -> "CHANGE"
           previous == IF disposition = "CHANGE" THEN seen ELSE [value |-> Absent, time |-> 0]
           row == [kind |-> "transition", time |-> r.time, subject |-> r.subject, value |-> r.value,
                   disposition |-> disposition, previous |-> previous]
<1>1. /\ fed # <<>> => r.time >= Last(fed).time
      /\ held' = Putting(held, r.subject, [value |-> r.value, time |-> r.time])
      /\ \/ r.value = Absent /\ lines' = lines
         \/ r.value # Absent /\ r.value = seen.value /\ lines' = lines
         \/ r.value \notin {Absent, seen.value} /\ lines' = Append(lines, row)
  BY DEF Transition, Hold, SetLast, PassOver, Carry
<1>2. seen = IF r.subject \in DOMAIN held THEN held[r.subject] ELSE [value |-> Absent, time |-> 0]
  BY DEF LastOf
<1>3. disposition = "CHANGE" <=> r.subject \in DOMAIN held /\ seen.value # Absent
  <2> HIDE DEF seen
  <2>1. QED
    OBVIOUS
<1>4. r.subject \notin DOMAIN held => seen.value = Absent
  BY <1>2
<1> HIDE DEF seen, disposition
<1>5. CASE r.value = Absent \/ (r.value # Absent /\ r.value = seen.value)
  BY <1>1, <1>2, <1>4, <1>5
<1>6. CASE r.value \notin {Absent, seen.value}
  <2>1. lines' = Append(lines, row)
    BY <1>1, <1>6
  <2>2. /\ row.kind = "transition" /\ row.time = r.time /\ row.subject = r.subject
        /\ row.disposition = disposition /\ row.previous = previous
    <3> HIDE DEF previous
    <3>1. QED
      OBVIOUS
  <2> HIDE DEF row
  <2>3. disposition = "CHANGE" <=> changes
    BY <1>2, <1>3, <1>6
  <2>4. changes => row.previous = held[r.subject]
    BY <1>2, <2>2, <2>3
  <2>5. QED
    BY <1>1, <2>1, <2>2, <2>3, <2>4
<1>7. QED
  BY <1>5, <1>6

(* One round of the loop tells the change its row makes, if any. *)
LEMMA ChangesFollow ==
    ASSUME NEW r, NEW n, RowRead(r, n), r.time \in Nat, LastsAre(held, n), ChangesKnown, Transition(r)
    PROVE  ChangesKnown' /\ LastsAre(held, n + 1)'
<1> DEFINE changes == /\ r.subject \in DOMAIN held /\ held[r.subject].value # Absent
                      /\ r.value \notin {Absent, held[r.subject].value}
           m == Len(lines)
<1>0. n \in Nat /\ (\A i \in 1..n : fed'[i] = fed[i]) /\ fed'[n + 1] = r
  BY DEF RowRead
<1>1. /\ held' = Putting(held, r.subject, [value |-> r.value, time |-> r.time])
      /\ \/ ~changes /\ lines' = lines
         \/ \E row : /\ lines' = Append(lines, row)
                     /\ row.kind = "transition" /\ row.time = r.time /\ row.subject = r.subject
                     /\ row.disposition = "CHANGE" <=> changes
                     /\ changes => row.previous = held[r.subject]
  BY TransitionDoes, ZenonT(60)
<1>2. LastsAre(held, n + 1)'
  <2>1. PICK h : h = held
    OBVIOUS
  <2>2. PICK g : g = held'
    OBVIOUS
  <2>3. LastsAre(h, n) /\ g = Putting(h, r.subject, [value |-> r.value, time |-> r.time])
    BY <1>1, <2>1, <2>2
  <2>4. LastsAre(g, n + 1)'
    BY <2>3, LastsFollow
  <2>5. QED
    BY <2>2, <2>4 DEF LastsAre
<1>3. /\ \A x : x \in Differing' <=> x \in Differing \/ Adds(x, r, n)
      /\ \A x : Adds(x, r, n) => x \notin Differing
      /\ \A x \in Differing : fed'[x[1]] = fed[x[1]] /\ fed'[x[2]] = fed[x[2]]
  BY DifferingGrows
<1>4. \A x \in Differing : Differs(x)' = Differs(x)
  BY <1>3 DEF Differs
<1>5. ASSUME NEW x, Adds(x, r, n) PROVE changes /\ held[r.subject].time = fed[x[1]].time
  <2>1. x[1] \in 1..n /\ IsLast(x[1], r.subject, n)
    BY <1>5 DEF Adds
  <2>2. r.subject \in DOMAIN held
    BY <2>1 DEF LastsAre, IsLast
  <2>3. PICK i \in 1..n : /\ IsLast(i, r.subject, n) /\ held[r.subject].value = fed[i].value
                          /\ held[r.subject].time = fed[i].time
    BY <2>2 DEF LastsAre
  <2>4. i = x[1]
    BY <1>0, <2>1, <2>3, OneLast
  <2>5. QED
    BY <1>5, <2>2, <2>3, <2>4 DEF Adds
<1>6. ASSUME changes PROVE \E x : Adds(x, r, n) /\ \A y : Adds(y, r, n) => y = x
  <2>1. PICK i \in 1..n : /\ IsLast(i, r.subject, n) /\ held[r.subject].value = fed[i].value
                          /\ held[r.subject].time = fed[i].time
    BY <1>6 DEF LastsAre
  <2>2. Adds(<<i, n + 1>>, r, n)
    BY <1>6, <2>1 DEF Adds
  <2>3. \A y : Adds(y, r, n) => y = <<i, n + 1>>
    BY <1>0, <2>1, OneLast DEF Adds
  <2>4. QED
    BY <2>2, <2>3
<1> HIDE DEF changes
<1>7. /\ IsRows(lines) /\ \A i \in DOMAIN lines : lines[i].kind = "transition" /\ lines[i].time \in Nat
      /\ IsFiniteSet(ChangeRows) /\ IsFiniteSet(Differing) /\ Cardinality(ChangeRows) = Cardinality(Differing)
      /\ Told = {Differs(x) : x \in Differing}
  BY DEF ChangesKnown
<1>8. CASE ~changes /\ lines' = lines
  <2>1. Differing' = Differing
    BY <1>3, <1>5, <1>8
  <2>2. ChangeRows' = ChangeRows /\ Told' = Told
    BY <1>8 DEF ChangeRows, Told
  <2>3. {Differs(x) : x \in Differing}' = {Differs(x) : x \in Differing}
    BY <1>4, <2>1
  <2>4. QED
    BY <1>2, <1>7, <1>8, <2>1, <2>2, <2>3 DEF ChangesKnown
<1>9. ASSUME NEW row, lines' = Append(lines, row),
             row.kind = "transition", row.time = r.time, row.subject = r.subject,
             row.disposition = "CHANGE" <=> changes, changes => row.previous = held[r.subject]
      PROVE  ChangesKnown'
  <2>1. /\ IsRows(lines') /\ m \in Nat /\ DOMAIN lines = 1..m /\ DOMAIN lines' = 1..(m + 1)
        /\ \A i \in DOMAIN lines : lines'[i] = lines[i]
        /\ lines'[m + 1] = row
    BY <1>7, <1>9, AppendedRow
  <2>2. \A i : i \in DOMAIN lines' <=> i \in DOMAIN lines \/ i = m + 1
    BY <2>1
  <2>3. m + 1 \notin DOMAIN lines
    BY <2>1
  <2> HIDE DEF m
  <2>4. \A i \in DOMAIN lines' : lines'[i].kind = "transition" /\ lines'[i].time \in Nat
    BY <1>7, <1>9, <2>1, <2>2
  <2>5. \A i : i \in ChangeRows' <=> i \in ChangeRows \/ (i = m + 1 /\ changes)
    BY <1>9, <2>1, <2>2, <2>3 DEF ChangeRows
  <2>6. m + 1 \notin ChangeRows /\ \A i \in ChangeRows : lines'[i] = lines[i]
    BY <2>1, <2>3 DEF ChangeRows
  <2>7. CASE ~changes
    <3>1. Differing' = Differing /\ ChangeRows' = ChangeRows
      BY <1>3, <1>5, <2>5, <2>7
    <3>2. Told' = Told
      BY <2>6, <3>1 DEF Told
    <3>3. {Differs(x) : x \in Differing}' = {Differs(x) : x \in Differing}
      BY <1>4, <3>1
    <3>4. QED
      BY <1>7, <2>1, <2>4, <3>1, <3>2, <3>3 DEF ChangesKnown
  <2>8. CASE changes
    <3>1. PICK x : Adds(x, r, n) /\ \A y : Adds(y, r, n) => y = x
      BY <1>6, <2>8
    <3>2. Differing' = Differing \cup {x} /\ x \notin Differing
      BY <1>3, <3>1
    <3>3. ChangeRows' = ChangeRows \cup {m + 1}
      BY <2>5, <2>8
    <3>4. /\ IsFiniteSet(ChangeRows') /\ IsFiniteSet(Differing')
          /\ Cardinality(ChangeRows') = Cardinality(Differing')
      <4> DEFINE C == ChangeRows
                 D == Differing
      <4>1. IsFiniteSet(C) /\ IsFiniteSet(D) /\ Cardinality(C) = Cardinality(D)
        BY <1>7
      <4>2. m + 1 \notin C
        BY <2>6
      <4>3. x \notin D
        BY <3>2
      <4> HIDE DEF C, D, m
      <4>4. IsFiniteSet(C \cup {m + 1}) /\ Cardinality(C \cup {m + 1}) = Cardinality(C) + 1
        BY <4>1, <4>2, FS_AddElement
      <4>5. IsFiniteSet(D \cup {x}) /\ Cardinality(D \cup {x}) = Cardinality(D) + 1
        BY <4>1, <4>3, FS_AddElement
      <4>6. ChangeRows' = C \cup {m + 1} /\ Differing' = D \cup {x}
        BY <3>2, <3>3 DEF C, D
      <4>7. QED
        BY <4>1, <4>4, <4>5, <4>6
    <3> DEFINE new == [subject |-> r.subject, from |-> held[r.subject].time, at |-> r.time]
    <3>5. [subject |-> row.subject, from |-> row.previous.time, at |-> row.time] = new
      BY <1>9, <2>8
    <3>6. Differs(x)' = new
      <4>1. x[1] \in 1..n /\ x = <<x[1], n + 1>>
        BY <3>1 DEF Adds
      <4>2. x[2] = n + 1
        BY <4>1
      <4>3. held[r.subject].time = fed[x[1]].time
        BY <1>5, <3>1
      <4>4. fed'[x[2]] = r /\ fed'[x[1]] = fed[x[1]]
        BY <1>0, <4>1, <4>2
      <4>5. QED
        BY <4>3, <4>4 DEF Differs
    <3> HIDE DEF new
    <3>7. Told' = Told \cup {new}
      BY <2>1, <2>6, <3>3, <3>5 DEF Told
    <3>8. {Differs(y) : y \in Differing}' = {Differs(y) : y \in Differing} \cup {new}
      <4> DEFINE D == {Differs(y) : y \in Differing}
      <4>1. \A z : z \in {Differs(y) : y \in Differing}' <=> \E y \in Differing' : z = Differs(y)'
        OBVIOUS
      <4>2. \A z : z \in D <=> \E y \in Differing : z = Differs(y)
        OBVIOUS
      <4> HIDE DEF D
      <4>3. \A z : z \in {Differs(y) : y \in Differing}' <=> z \in D \/ z = new
        BY <1>4, <3>2, <3>6, <4>1, <4>2
      <4>4. {Differs(y) : y \in Differing}' = D \cup {new}
        BY <4>3
      <4>5. QED
        BY <4>4 DEF D
    <3>9. QED
      BY <1>7, <2>1, <2>4, <3>4, <3>7, <3>8 DEF ChangesKnown
  <2>9. QED
    BY <2>7, <2>8
<1>10. QED
  BY <1>1, <1>2, <1>8, <1>9

(* The rows stand in the order of their times. *)
RowsAscend(n) ==
    /\ n \in Nat /\ DOMAIN fed = 1..n /\ \A i \in 1..n : fed[i].time \in Nat
    /\ \A i, j \in 1..n : i <= j => fed[i].time <= fed[j].time

(* The last time of a subject is that of its last row. *)
LEMMA LastTimeIs ==
    ASSUME NEW n, RowsAscend(n), NEW i \in 1..n
    PROVE  /\ LastTime(fed[i].subject) \in Nat
           /\ \A j \in 1..n : fed[j].subject = fed[i].subject => fed[j].time <= LastTime(fed[i].subject)
<1> DEFINE s == fed[i].subject
           T == {fed[j].time : j \in RowsOf(s)}
           M == {m \in 1..n : \A j \in RowsOf(s) : j <= m}
<1>0. n \in Nat /\ \A j : j \in RowsOf(s) <=> j \in 1..n /\ fed[j].subject = s
  BY DEF RowsAscend, RowsOf
<1>1. n \in M
  BY <1>0
<1>2. PICK m \in M : \A v \in M : m <= v
  <2>1. M \in SUBSET (1..n) /\ M # {}
    BY <1>1
  <2> HIDE DEF M
  <2>2. QED
    BY <1>0, <2>1, LeastMember
<1>3. m \in 1..n /\ \A j \in RowsOf(s) : j <= m
  BY <1>2
<1>4. m \in RowsOf(s)
  <2> SUFFICES ASSUME m \notin RowsOf(s) PROVE FALSE
    OBVIOUS
  <2>1. \A j \in RowsOf(s) : j <= m - 1
    BY <1>0, <1>3
  <2>2. i <= m - 1
    BY <1>0, <2>1
  <2>3. m - 1 \in M
    <3>1. m - 1 \in 1..n
      BY <1>0, <1>3, <2>2
    <3>2. QED
      BY <2>1, <3>1
  <2>4. QED
    BY <1>2, <1>3, <2>3
<1> HIDE DEF M
<1>5. fed[m].time \in T /\ \A j \in RowsOf(s) : fed[j].time <= fed[m].time
  BY <1>0, <1>3, <1>4 DEF RowsAscend
<1>6. LastTime(s) \in T /\ \A j \in RowsOf(s) : fed[j].time <= LastTime(s)
  <2>1. \E t \in T : \A j \in RowsOf(s) : fed[j].time <= t
    BY <1>5
  <2>2. LastTime(s) = CHOOSE t \in T : \A j \in RowsOf(s) : fed[j].time <= t
    BY DEF LastTime
  <2> HIDE DEF T
  <2>3. QED
    BY <2>1, <2>2
<1>7. T \subseteq Nat
  BY <1>0 DEF RowsAscend
<1>8. QED
  BY <1>0, <1>6, <1>7

(* Every row has a first one of its subject. *)
LEMMA FirstIs ==
    ASSUME NEW n, RowsAscend(n), NEW k \in 1..n
    PROVE  \E i \in FirstRows : /\ i \in 1..k /\ fed[i].subject = fed[k].subject
                                /\ \A j \in FirstRows : fed[j].subject = fed[k].subject => j = i
<1> DEFINE S == {i \in 1..n : fed[i].subject = fed[k].subject}
<1>0. n \in Nat /\ \A i : i \in FirstRows <=> i \in 1..n /\ \A j \in 1..(i - 1) : fed[j].subject # fed[i].subject
  BY DEF RowsAscend, FirstRows
<1>1. PICK i \in S : \A v \in S : i <= v
  BY <1>0, LeastMember
<1>2. i \in 1..n /\ fed[i].subject = fed[k].subject /\ i <= k
  BY <1>1
<1>3. \A j \in 1..n : fed[j].subject = fed[k].subject => i <= j
  BY <1>1
<1> HIDE DEF S
<1>4. i \in FirstRows
  <2>1. \A j \in 1..(i - 1) : j \in 1..n /\ ~(i <= j)
    BY <1>0, <1>2
  <2>2. QED
    BY <1>0, <1>2, <1>3, <2>1
<1>5. ASSUME NEW j \in FirstRows, fed[j].subject = fed[k].subject PROVE j = i
  <2>1. j \in 1..n /\ i <= j
    BY <1>0, <1>3, <1>5
  <2>2. i < j => i \in 1..(j - 1)
    BY <1>2, <2>1
  <2>3. ~(i < j)
    BY <1>0, <1>2, <1>5, <2>2
  <2>4. QED
    BY <1>2, <2>1, <2>3
<1>6. QED
  BY <1>2, <1>4, <1>5

(* A tile covers the rows of its subject within its span. *)
Covers(k, tile) ==
    /\ fed[tile[1]].subject = fed[k].subject
    /\ Opening(tile) <= fed[k].time /\ fed[k].time < Opening(tile) + declared.span

(* What the tiles are made of. *)
LEMMA TileIs ==
    ASSUME NEW n, RowsAscend(n), NEW t
    PROVE  t \in Tiles <=>
              /\ t[1] \in FirstRows /\ t = <<t[1], t[2]>>
              /\ t[2] \in 1..(LastTime(fed[t[1]].subject) - fed[t[1]].time + 1)
              /\ Opening(t) <= LastTime(fed[t[1]].subject)
  BY DEF Tiles

(* There are finitely many windows. *)
LEMMA TilesAreFinite ==
    ASSUME NEW n, RowsAscend(n)
    PROVE  IsFiniteSet(Tiles)
<1> DEFINE many(i) == LastTime(fed[i].subject) - fed[i].time + 1
           s == [i \in 1..n |-> many(i)]
<1>1. \A i \in 1..n : many(i) \in Nat
  BY LastTimeIs DEF RowsAscend
<1>2. s \in [1..n -> Nat] /\ n \in Nat
  BY <1>1 DEF RowsAscend
<1>3. IsFiniteSet(PlacesOf(s))
  <2> HIDE DEF s
  <2>1. QED
    BY <1>2, PlacesAreFinite
<1>4. Tiles \subseteq PlacesOf(s)
  <2> SUFFICES ASSUME NEW t, t \in Tiles PROVE t \in PlacesOf(s)
    OBVIOUS
  <2>1. t[1] \in 1..n
    BY TileIs DEF FirstRows, RowsAscend
  <2>2. t = <<t[1], t[2]>> /\ t[2] \in 1..many(t[1])
    BY TileIs
  <2> HIDE DEF many
  <2>3. t \in {t[1]} \X (1..s[t[1]]) /\ t[1] \in DOMAIN s
    BY <2>1, <2>2
  <2> HIDE DEF s
  <2>4. QED
    BY <2>3 DEF PlacesOf
<1>5. QED
  <2> HIDE DEF s
  <2>1. QED
    BY <1>3, <1>4, FS_Subset

(* Every row lies in exactly one window of its subject. *)
LEMMA OneTile ==
    ASSUME NEW n, RowsAscend(n), declared.span \in Nat \ {0}, NEW k \in 1..n
    PROVE  \E t \in Tiles : Covers(k, t) /\ \A u \in Tiles : Covers(k, u) => u = t
<1>1. PICK i \in FirstRows : /\ i \in 1..k /\ fed[i].subject = fed[k].subject
                             /\ \A j \in FirstRows : fed[j].subject = fed[k].subject => j = i
  BY FirstIs
<1> DEFINE a == fed[i].time
           b == fed[k].time
           d == b - a
           p == declared.span
           last == LastTime(fed[i].subject)
<1>2. i \in 1..n /\ a \in Nat /\ b \in Nat /\ a <= b /\ d \in Nat
  BY <1>1 DEF RowsAscend
<1>3. last \in Nat /\ b <= last
  BY <1>1, <1>2, LastTimeIs
<1>4. p \in Nat \ {0}
  OBVIOUS
<1> HIDE DEF a, b, last, p
<1>5. PICK q \in 1..(d + 1) : /\ (q - 1) * p <= d /\ d < (q - 1) * p + p
                              /\ \A v \in Nat : (v - 1) * p <= d /\ d < (v - 1) * p + p => v = q
  BY <1>2, <1>4, OneSpan
<1>6. \A v \in Nat : (v - 1) * p \in Int
  BY <1>4
<1>7. Opening(<<i, q>>) = a + (q - 1) * p
  BY DEF Opening, a, p
<1>8. Covers(k, <<i, q>>)
  BY <1>1, <1>2, <1>4, <1>5, <1>6, <1>7 DEF Covers, b, p
<1>9. <<i, q>> \in Tiles
  <2>1. q \in 1..(last - a + 1)
    BY <1>2, <1>3, <1>5
  <2>2. Opening(<<i, q>>) <= last
    BY <1>2, <1>3, <1>5, <1>6, <1>7
  <2>3. QED
    BY <1>1, <2>1, <2>2, TileIs DEF a, last
<1>10. ASSUME NEW u \in Tiles, Covers(k, u) PROVE u = <<i, q>>
  <2>1. /\ u[1] \in FirstRows /\ u = <<u[1], u[2]>> /\ fed[u[1]].subject = fed[k].subject
        /\ u[2] \in 1..(LastTime(fed[u[1]].subject) - fed[u[1]].time + 1)
        /\ Opening(u) <= b /\ b < Opening(u) + p
    BY <1>10, TileIs DEF Covers, b, p
  <2>2. u[1] = i
    BY <1>1, <2>1
  <2>3. u[2] \in Nat
    BY <1>2, <1>3, <2>1, <2>2 DEF a, last
  <2>4. Opening(u) = a + (u[2] - 1) * p
    BY <2>2 DEF Opening, a, p
  <2>5. (u[2] - 1) * p <= d /\ d < (u[2] - 1) * p + p
    BY <1>2, <1>4, <1>6, <2>1, <2>3, <2>4
  <2>6. u[2] = q
    BY <1>5, <2>3, <2>5
  <2>7. QED
    BY <2>1, <2>2, <2>6
<1>11. QED
  BY <1>8, <1>9, <1>10

(* What a window row says. *)
LEMMA WindowSays ==
    ASSUME NEW n, RowsAscend(n), declared.span \in Nat \ {0}, NEW t \in Tiles
    PROVE  /\ Window(t).kind = "window" /\ Window(t).time = Opening(t) /\ Opening(t) \in Int
           /\ Window(t).subject = fed[t[1]].subject /\ Window(t).end = Opening(t) + declared.span
           /\ Window(t).observed = Cardinality({k \in DOMAIN fed : Covers(k, t)})
<1>1. Opening(t) \in Int
  <2>1. t[1] \in 1..n /\ t[2] \in 1..(LastTime(fed[t[1]].subject) - fed[t[1]].time + 1)
    BY TileIs DEF FirstRows, RowsAscend
  <2>2. fed[t[1]].time \in Nat /\ LastTime(fed[t[1]].subject) \in Nat
    BY <2>1, LastTimeIs DEF RowsAscend
  <2> DEFINE p == declared.span
             a == fed[t[1]].time
             q == t[2]
  <2>3. p \in Nat /\ a \in Nat /\ q \in Nat
    BY <2>1, <2>2
  <2> HIDE DEF p, a, q
  <2>4. (q - 1) * p \in Int
    BY <2>3
  <2>5. a + (q - 1) * p \in Int
    BY <2>3, <2>4
  <2>6. QED
    BY <2>5 DEF Opening, a, p, q
<1> DEFINE end == Opening(t) + declared.span
           some == {i \in RowsOf(fed[t[1]].subject) : Opening(t) <= fed[i].time /\ fed[i].time < end}
<1>2. some = {k \in DOMAIN fed : Covers(k, t)}
  BY DEF RowsOf, Covers
<1>3. /\ Window(t).kind = "window" /\ Window(t).time = Opening(t)
      /\ Window(t).subject = fed[t[1]].subject /\ Window(t).end = end
      /\ Window(t).observed = Cardinality(some)
  BY DEF Window
<1> HIDE DEF some
<1>4. QED
  BY <1>1, <1>2, <1>3

(* Rows of two kinds: the changes of the loop, and a window for every tile. *)
BothKinds(all, tiles) ==
    /\ IsRows(all) /\ \A i \in DOMAIN all : all[i].time \in Int
    /\ \A i \in DOMAIN lines : i \in DOMAIN all /\ all[i] = lines[i]
    /\ \A j \in DOMAIN tiles : \E i \in DOMAIN all : i \notin DOMAIN lines /\ i = Len(lines) + j /\ all[i] = Window(tiles[j])
    /\ \A i \in DOMAIN all : \/ i \in DOMAIN lines /\ all[i].kind = "transition"
                             \/ /\ i \notin DOMAIN lines /\ all[i].kind = "window"
                                /\ \E j \in DOMAIN tiles : i = Len(lines) + j /\ all[i] = Window(tiles[j])

(* The rows convert puts in order. *)
LEMMA KindsAre ==
    ASSUME NEW n, RowsAscend(n), ChangesKnown, NEW tiles, IsRows(tiles),
           \A j \in DOMAIN tiles : declared.span \in Nat \ {0} /\ tiles[j] \in Tiles,
           NEW all, all = lines \o [j \in DOMAIN tiles |-> Window(tiles[j])]
    PROVE  BothKinds(all, tiles)
<1> DEFINE w == [j \in DOMAIN tiles |-> Window(tiles[j])]
           m == Len(lines)
<1>1. IsRows(lines) /\ \A i \in DOMAIN lines : lines[i].kind = "transition" /\ lines[i].time \in Int
  BY DEF ChangesKnown
<1>2. DOMAIN w = DOMAIN tiles /\ \A j \in DOMAIN tiles : w[j] = Window(tiles[j])
  OBVIOUS
<1>3. \A j \in DOMAIN tiles : w[j].kind = "window" /\ w[j].time \in Int
  BY <1>2, WindowSays
<1>4. IsRows(w)
  <2>1. Len(tiles) \in Nat /\ DOMAIN tiles = 1..Len(tiles)
    BY LenProperties DEF IsRows
  <2> DEFINE S == {w[j] : j \in DOMAIN tiles}
  <2>2. w \in [1..Len(tiles) -> S]
    BY <2>1
  <2> HIDE DEF w, S
  <2>3. w \in Seq(S)
    BY <2>1, <2>2
  <2>4. QED
    BY <2>3 DEF IsRows
<1>5. all = lines \o w
  OBVIOUS
<1> HIDE DEF w
<1>6. /\ IsRows(all)
      /\ \A i \in DOMAIN lines : i \in DOMAIN all /\ all[i] = lines[i]
      /\ \A j \in DOMAIN w : m + j \in DOMAIN all /\ all[m + j] = w[j]
      /\ \A i \in DOMAIN all : i \in DOMAIN lines \/ \E j \in DOMAIN w : i = m + j
      /\ m \in Nat /\ DOMAIN lines = 1..m /\ DOMAIN w \subseteq Nat \ {0}
  <2> DEFINE cat == lines \o w
  <2>1. /\ IsRows(cat)
        /\ \A i \in DOMAIN lines : i \in DOMAIN cat /\ cat[i] = lines[i]
        /\ \A j \in DOMAIN w : Len(lines) + j \in DOMAIN cat /\ cat[Len(lines) + j] = w[j]
        /\ \A i \in DOMAIN cat : i \in DOMAIN lines \/ \E j \in DOMAIN w : i = Len(lines) + j
        /\ Len(lines) \in Nat /\ DOMAIN lines = 1..Len(lines) /\ DOMAIN w \subseteq Nat \ {0}
    BY <1>1, <1>4, ConcatRows
  <2>2. all = cat
    BY <1>5
  <2> HIDE DEF cat
  <2>3. QED
    BY <2>1, <2>2
<1>7. \A j \in DOMAIN w : m + j \notin DOMAIN lines
  BY <1>6
<1> HIDE DEF m
<1>8. ASSUME NEW i \in DOMAIN all
      PROVE  /\ \/ i \in DOMAIN lines /\ all[i].kind = "transition"
                \/ /\ i \notin DOMAIN lines /\ all[i].kind = "window"
                   /\ \E j \in DOMAIN tiles : i = m + j /\ all[i] = Window(tiles[j])
             /\ all[i].time \in Int
  <2>1. CASE i \in DOMAIN lines
    BY <1>1, <1>6, <2>1
  <2>2. CASE i \notin DOMAIN lines
    <3>1. PICK j \in DOMAIN w : i = m + j
      BY <1>6, <2>2
    <3>2. j \in DOMAIN tiles /\ all[i] = w[j]
      BY <1>2, <1>6, <3>1
    <3>3. QED
      BY <1>2, <1>3, <2>2, <3>1, <3>2
  <2>3. QED
    BY <2>1, <2>2
<1>9. QED
  BY <1>2, <1>6, <1>7, <1>8, ZenonT(60) DEF BothKinds, m

(* Putting the rows in order leaves the changes. *)
LEMMA ChangesMoved ==
    ASSUME NEW all, NEW tiles, BothKinds(all, tiles), NEW p, Permutes(p, all, lines'), ChangesKnown, fed' = fed
    PROVE  Cardinality(ChangeRows') = Cardinality(Differing') /\ Told' = {Differs(x) : x \in Differing}'
<1>1. /\ DOMAIN lines' = DOMAIN all /\ \A k \in DOMAIN all : p[k] \in DOMAIN all /\ lines'[k] = all[p[k]]
      /\ \A a \in DOMAIN all : \E k \in DOMAIN all : p[k] = a
  BY MovedOnce
<1>2. /\ \A i \in DOMAIN lines : i \in DOMAIN all /\ all[i] = lines[i]
      /\ \A i \in DOMAIN all : i \in DOMAIN lines \/ all[i].kind = "window"
      /\ IsRows(all)
  BY DEF BothKinds
<1>3. ChangeRows \subseteq DOMAIN all
  BY <1>2 DEF ChangeRows
<1>4. \A k : k \in ChangeRows' <=> k \in DOMAIN all /\ p[k] \in ChangeRows
  BY <1>1, <1>2 DEF ChangeRows
<1>5. ChangeRows' = {k \in DOMAIN all : p[k] \in ChangeRows}
  BY <1>4
<1>6. Cardinality(ChangeRows') = Cardinality(ChangeRows)
  BY <1>2, <1>3, <1>5, MovedRows
<1>7. Differing' = Differing /\ {Differs(x) : x \in Differing}' = {Differs(x) : x \in Differing}
  <2>1. Differing' = Differing
    BY DEF Differing, Neighbours
  <2>2. \A x : Differs(x)' = Differs(x)
    BY DEF Differs
  <2>3. QED
    BY <2>1, <2>2
<1>8. \A k \in ChangeRows' : p[k] \in ChangeRows /\ lines'[k] = lines[p[k]]
  BY <1>1, <1>2, <1>4 DEF ChangeRows
<1>9. \A a \in ChangeRows : \E k \in ChangeRows' : p[k] = a
  BY <1>1, <1>3, <1>4
<1>10. Told' = Told
  <2> DEFINE say(row) == [subject |-> row.subject, from |-> row.previous.time, at |-> row.time]
  <2>1. \A z : z \in Told' <=> \E k \in ChangeRows' : z = say(lines'[k])
    BY DEF Told
  <2>2. \A z : z \in Told <=> \E a \in ChangeRows : z = say(lines[a])
    BY DEF Told
  <2> HIDE DEF say
  <2>3. \A z : z \in Told' <=> z \in Told
    BY <1>8, <1>9, <2>1, <2>2
  <2>4. QED
    BY <2>3
<1>11. QED
  BY <1>6, <1>7, <1>10 DEF ChangesKnown

(* A window row of the output is the window of one tile. *)
WindowOfTile(i, t) ==
    /\ lines[i].kind = "window" /\ lines[i].time = Opening(t) /\ lines[i].subject = fed[t[1]].subject
    /\ lines[i].end = Opening(t) + declared.span
    /\ lines[i].observed = Cardinality({k \in DOMAIN fed : Covers(k, t)})

AreTiles(tiles) == \A j \in DOMAIN tiles : declared.span \in Nat \ {0} /\ tiles[j] \in Tiles

(* Putting the rows in order leaves the windows. *)
LEMMA WindowsMoved ==
    ASSUME NEW n, RowsAscend(n),
           NEW tiles, AreTiles(tiles),
           NEW all, BothKinds(all, tiles), NEW p, Permutes(p, all, lines'), fed' = fed, declared' = declared
    PROVE  /\ \A i \in WindowRows' : \E j \in DOMAIN tiles : WindowOfTile(i, tiles[j])' /\ p[i] = Len(lines) + j
           /\ \A j \in DOMAIN tiles : \E i \in WindowRows' : p[i] = Len(lines) + j
           /\ \A i, k \in WindowRows' : p[i] = p[k] => i = k
<1>1. /\ DOMAIN lines' = DOMAIN all /\ \A k \in DOMAIN all : p[k] \in DOMAIN all /\ lines'[k] = all[p[k]]
      /\ \A a \in DOMAIN all : \E k \in DOMAIN all : p[k] = a /\ \A i \in DOMAIN all : p[i] = a => i = k
  BY MovedOnce
<1>2. \A i : i \in WindowRows' <=> i \in DOMAIN all /\ p[i] \notin DOMAIN lines
  <2>1. \A i \in DOMAIN all : i \notin DOMAIN lines <=> all[i].kind = "window"
    BY DEF BothKinds
  <2>2. \A i : i \in WindowRows' <=> i \in DOMAIN lines' /\ lines'[i].kind = "window"
    BY DEF WindowRows
  <2>3. ASSUME NEW i PROVE i \in WindowRows' <=> i \in DOMAIN all /\ p[i] \notin DOMAIN lines
    <3>1. i \in DOMAIN all => p[i] \in DOMAIN all /\ lines'[i] = all[p[i]]
      BY <1>1
    <3>2. DOMAIN lines' = DOMAIN all
      BY <1>1
    <3>3. i \in WindowRows' <=> i \in DOMAIN lines' /\ lines'[i].kind = "window"
      BY <2>2
    <3>4. i \in DOMAIN all => (p[i] \notin DOMAIN lines <=> all[p[i]].kind = "window")
      BY <2>1, <3>1
    <3>5. CASE i \in DOMAIN all
      BY <3>1, <3>2, <3>3, <3>4, <3>5
    <3>6. CASE i \notin DOMAIN all
      BY <3>2, <3>3, <3>6
    <3>7. QED
      BY <3>5, <3>6
  <2>4. QED
    BY <2>3
<1>3. ASSUME NEW i \in WindowRows'
      PROVE  \E j \in DOMAIN tiles : WindowOfTile(i, tiles[j])' /\ p[i] = Len(lines) + j
  <2>1. PICK j \in DOMAIN tiles : p[i] = Len(lines) + j /\ all[p[i]] = Window(tiles[j])
    BY <1>1, <1>2, <1>3 DEF BothKinds
  <2>2. lines'[i] = Window(tiles[j])
    BY <1>1, <1>2, <2>1
  <2> DEFINE t == tiles[j]
             some == {k \in DOMAIN fed : Covers(k, t)}
  <2>3. /\ lines'[i].kind = "window" /\ lines'[i].time = Opening(t) /\ lines'[i].subject = fed[t[1]].subject
        /\ lines'[i].end = Opening(t) + declared.span /\ lines'[i].observed = Cardinality(some)
    BY <2>2, WindowSays DEF AreTiles
  <2>4. Opening(t)' = Opening(t) /\ some' = some
    BY DEF Opening, Covers
  <2>5. WindowOfTile(i, t)'
    <3> HIDE DEF t
    <3>1. QED
      BY <2>3, <2>4 DEF WindowOfTile
  <2>6. QED
    BY <2>1, <2>5
<1>4. ASSUME NEW j \in DOMAIN tiles PROVE \E i \in WindowRows' : p[i] = Len(lines) + j
  <2>1. PICK a \in DOMAIN all : a \notin DOMAIN lines /\ a = Len(lines) + j
    BY DEF BothKinds
  <2>2. PICK i \in DOMAIN all : p[i] = a
    BY <1>1
  <2>3. QED
    BY <1>2, <2>1, <2>2
<1>5. \A i, k \in WindowRows' : p[i] = p[k] => i = k
  BY <1>1, <1>2
<1>6. QED
  BY <1>3, <1>4, <1>5

ChangesConcluded ==
    /\ Cardinality(ChangeRows) = Cardinality(Differing)
    /\ Told = {Differs(x) : x \in Differing}
    /\ declared.span # Absent => \A k \in DOMAIN fed : Cardinality({i \in WindowRows : Within(k, i)}) = 1
    /\ \A i \in WindowRows : lines[i].observed = Cardinality({k \in DOMAIN fed : Within(k, i)})
    /\ \A i, j \in DOMAIN lines : i < j => lines[i].time <= lines[j].time

(* After the loop, the rows say what ChangesAreAdjacent says. *)
LEMMA WindowsConclude ==
    ASSUME NEW n, RowsAscend(n), ChangesKnown, Absent \notin Int,
           declared.span \in (Nat \ {0}) \cup {Absent}, TransitionsEnd
    PROVE  ChangesConcluded'
<1> DEFINE T == IF declared.span = Absent THEN {} ELSE Tiles
<1>1. fed' = fed /\ declared' = declared
  BY DEF TransitionsEnd, Ending
<1>2. PICK tiles \in SetToSeqs(T) : lines' = ByTime(lines \o [j \in DOMAIN tiles |-> Window(tiles[j])])
  BY DEF TransitionsEnd
<1>3. IsFiniteSet(T)
  BY TilesAreFinite, FS_EmptySet
<1>4. T # {} => declared.span \in Nat \ {0} /\ T = Tiles
  OBVIOUS
<1>5. declared.span # Absent => declared.span \in Nat \ {0} /\ T = Tiles
  OBVIOUS
<1> HIDE DEF T
<1>6. /\ IsRows(tiles) /\ \A j \in DOMAIN tiles : tiles[j] \in T
      /\ \A x \in T : \E j \in DOMAIN tiles : tiles[j] = x
      /\ \A i, j \in DOMAIN tiles : tiles[i] = tiles[j] => i = j
  BY <1>2, <1>3, SequenceOfSet
<1>7. AreTiles(tiles)
  BY <1>4, <1>6 DEF AreTiles
<1>8. PICK all : all = lines \o [j \in DOMAIN tiles |-> Window(tiles[j])]
  OBVIOUS
<1>9. lines' = ByTime(all)
  BY <1>2, <1>8
<1>10. BothKinds(all, tiles)
  BY <1>6, <1>7, <1>8, KindsAre DEF AreTiles
<1>11. /\ \E p : Permutes(p, all, ByTime(all))
       /\ \A i, j \in DOMAIN all : i < j => ByTime(all)[i].time <= ByTime(all)[j].time
  BY <1>10, ByTimePermutes DEF BothKinds
<1>12. PICK p : Permutes(p, all, lines')
  BY <1>9, <1>11
<1>13. \A i, j \in DOMAIN lines' : i < j => lines'[i].time <= lines'[j].time
  BY <1>9, <1>11, <1>12 DEF Permutes
<1>14. Cardinality(ChangeRows') = Cardinality(Differing') /\ Told' = {Differs(x) : x \in Differing}'
  BY <1>1, <1>10, <1>12, ChangesMoved
<1>15. /\ \A i \in WindowRows' : \E j \in DOMAIN tiles : WindowOfTile(i, tiles[j])' /\ p[i] = Len(lines) + j
       /\ \A j \in DOMAIN tiles : \E i \in WindowRows' : p[i] = Len(lines) + j
       /\ \A i, k \in WindowRows' : p[i] = p[k] => i = k
  BY <1>1, <1>7, <1>10, <1>12, WindowsMoved
<1>16. \A k, i : \A j \in DOMAIN tiles : WindowOfTile(i, tiles[j])' => (Within(k, i)' <=> Covers(k, tiles[j])')
  BY DEF WindowOfTile, Within, Covers
<1>17. \A k, t : Covers(k, t)' <=> Covers(k, t)
  BY <1>1 DEF Covers, Opening
<1>18. \A i, j \in DOMAIN tiles : Len(lines) + i = Len(lines) + j => i = j
  <2>1. Len(lines) \in Nat /\ DOMAIN tiles \subseteq Nat
    BY <1>6, LenProperties DEF ChangesKnown, IsRows
  <2>2. QED
    BY <2>1
<1>19. ASSUME NEW i \in WindowRows' PROVE lines'[i].observed = Cardinality({k \in DOMAIN fed' : Within(k, i)'})
  <2>1. PICK j \in DOMAIN tiles : WindowOfTile(i, tiles[j])'
    BY <1>15
  <2>2. {k \in DOMAIN fed' : Covers(k, tiles[j])'} = {k \in DOMAIN fed' : Within(k, i)'}
    BY <1>16, <2>1
  <2>3. lines'[i].observed = Cardinality({k \in DOMAIN fed' : Covers(k, tiles[j])'})
    BY <2>1 DEF WindowOfTile
  <2>4. QED
    BY <2>2, <2>3
<1>20. ASSUME declared.span # Absent, NEW k \in DOMAIN fed' PROVE Cardinality({i \in WindowRows' : Within(k, i)'}) = 1
  <2>0. k \in 1..n
    BY <1>1 DEF RowsAscend
  <2>1. PICK t \in T : Covers(k, t) /\ \A u \in T : Covers(k, u) => u = t
    BY <1>5, <1>20, <2>0, OneTile
  <2>2. PICK j \in DOMAIN tiles : tiles[j] = t
    BY <1>6
  <2>3. PICK i \in WindowRows' : p[i] = Len(lines) + j
    BY <1>15
  <2>4. WindowOfTile(i, tiles[j])'
    BY <1>15, <1>18, <2>3
  <2>5. Within(k, i)'
    BY <1>16, <1>17, <2>1, <2>2, <2>4
  <2>6. ASSUME NEW w \in WindowRows', Within(k, w)' PROVE w = i
    <3>1. PICK v \in DOMAIN tiles : WindowOfTile(w, tiles[v])' /\ p[w] = Len(lines) + v
      BY <1>15
    <3>2. Covers(k, tiles[v])
      BY <1>16, <1>17, <2>6, <3>1
    <3>3. v = j
      BY <1>6, <2>1, <2>2, <3>2
    <3>4. QED
      BY <1>15, <2>3, <3>1, <3>3
  <2>7. {w \in WindowRows' : Within(k, w)'} = {i}
    BY <2>5, <2>6
  <2>8. QED
    BY <2>7, FS_Singleton
<1>21. QED
  BY <1>1, <1>13, <1>14, <1>19, <1>20 DEF ChangesConcluded

(* While the loop runs it knows the last row of each subject and has told *)
(* every change; the rows read stand in the order of their times. *)
TransitionInv ==
    TransitionRuns =>
        /\ \E n \in Nat : RowsAscend(n) /\ (verdict = "reading" => LastsAre(held, n))
        /\ verdict = "reading" => ChangesKnown
        /\ verdict = "converted" => ChangesConcluded

(* Before the loop there is no row and no change. *)
LEMMA TransitionsBegin == EventInit => TransitionInv
<1> SUFFICES ASSUME EventInit, TransitionRuns PROVE TransitionInv
  BY DEF TransitionInv
<1>1. fed = <<>> /\ lines = <<>> /\ verdict = "reading" /\ held = <<>>
  BY TransitionSteps DEF EventInit, Starting
<1>2. DOMAIN <<>> = {} /\ IsRows(<<>>) /\ 1..0 = {}
  BY FewRows DEF IsRows
<1>3. RowsAscend(0) /\ LastsAre(held, 0)
  BY <1>1, <1>2 DEF RowsAscend, LastsAre
<1>4. ChangeRows = {} /\ Differing = {}
  BY <1>1, <1>2 DEF ChangeRows, Differing
<1>5. ChangesKnown
  <2>1. Told = {} /\ {Differs(x) : x \in Differing} = {}
    BY <1>4 DEF Told
  <2>2. IsFiniteSet(ChangeRows) /\ IsFiniteSet(Differing) /\ Cardinality(ChangeRows) = Cardinality(Differing)
    BY <1>4, FS_EmptySet
  <2>3. QED
    BY <1>1, <1>2, <2>1, <2>2 DEF ChangesKnown
<1>6. QED
  BY <1>1, <1>3, <1>5 DEF TransitionInv

(* Every step keeps the invariant. *)
LEMMA TransitionsStay ==
    ASSUME EventFile, TransitionInv, [EventNext]_linesVars
    PROVE  TransitionInv'
<1> SUFFICES ASSUME TransitionRuns' PROVE TransitionInv'
  BY DEF TransitionInv
<1>0. TransitionRuns /\ Absent \notin Int /\ declared.span \in (Nat \ {0}) \cup {Absent}
  <2>1. TransitionRuns
    BY EventFileStays, Zenon DEF TransitionRuns
  <2>2. QED
    BY <2>1, TransitionsAreKnown
<1>1. PICK n \in Nat : RowsAscend(n) /\ (verdict = "reading" => LastsAre(held, n))
  BY <1>0 DEF TransitionInv
<1>2. ASSUME NEW r \in EventRecords[converter], Taking(r), EventStep(r) PROVE TransitionInv'
  <2>1. EventRead(r)
    BY <1>2, EventIsRead
  <2>2. verdict = "reading" /\ verdict' = "reading" /\ ChangesKnown /\ LastsAre(held, n)
    BY <1>0, <1>1, <2>1 DEF EventRead, TransitionInv
  <2>3. Len(fed) = n /\ DOMAIN fed = 1..n
    <3>1. Len(fed) \in Nat /\ DOMAIN fed = 1..Len(fed) /\ DOMAIN fed = 1..n
      BY <1>1, SMTT(30) DEF EventFile, RowsAscend
    <3> DEFINE m == Len(fed)
    <3> HIDE DEF m
    <3>2. m \in Nat /\ 1..m = 1..n
      BY <3>1 DEF m
    <3>3. m = n
      <4>1. \A i \in Nat \ {0} : i <= m <=> i <= n
        BY <3>2
      <4>2. QED
        BY <3>2, <4>1
    <3>4. QED
      BY <3>1, <3>3, SMTT(30) DEF m
  <2>4. RowRead(r, n)
    BY <2>1, <2>3 DEF EventRead, Here, RowRead
  <2>5. Transition(r) /\ r.time \in Nat
    BY <1>0, <1>2, TransitionSteps, TransitionsAreKnown
  <2>6. ChangesKnown' /\ LastsAre(held, n + 1)'
    BY <2>2, <2>4, <2>5, ChangesFollow
  <2>7. \A i \in 1..n : fed[i].time <= r.time
    <3>1. fed # <<>> => r.time >= Last(fed).time
      BY <2>5, Zenon DEF Transition
    <3>2. CASE n = 0
      BY <3>2
    <3>3. CASE n # 0
      <4>1. fed # <<>>
        <5>1. DOMAIN <<>> = {} /\ 1 \in DOMAIN fed
          BY <2>3, <3>3, FewRows
        <5>2. QED
          BY <5>1
      <4>2. Last(fed) = fed[n] /\ n \in 1..n
        BY <2>3, <3>3 DEF Last
      <4>3. fed[n].time <= r.time
        BY <1>1, <2>5, <3>1, <4>1, <4>2 DEF RowsAscend
      <4>4. QED
        BY <1>1, <2>5, <4>2, <4>3 DEF RowsAscend
    <3>4. QED
      BY <3>2, <3>3
  <2>8. RowsAscend(n + 1)'
    <3>1. /\ \A i : i \in 1..(n + 1) <=> i \in 1..n \/ i = n + 1
          /\ n + 1 \in Nat /\ \A i \in 1..n : i < n + 1
      OBVIOUS
    <3>2. DOMAIN fed' = 1..(n + 1) /\ (\A i \in 1..n : fed'[i] = fed[i]) /\ fed'[n + 1] = r
      BY <2>4 DEF RowRead
    <3>3. \A i \in 1..n : fed[i].time \in Nat
      BY <1>1 DEF RowsAscend
    <3>4. \A i, j \in 1..n : i <= j => fed[i].time <= fed[j].time
      BY <1>1 DEF RowsAscend
    <3>5. \A i \in 1..(n + 1) : fed'[i].time \in Nat
      BY <2>5, <3>1, <3>2, <3>3
    <3>6. ASSUME NEW i \in 1..(n + 1), NEW j \in 1..(n + 1), i <= j
          PROVE  fed'[i].time <= fed'[j].time
      <4>1. CASE j \in 1..n
        <5>1. i \in 1..n
          BY <3>6, <4>1
        <5>2. QED
          BY <3>2, <3>4, <3>6, <4>1, <5>1
      <4>2. CASE j = n + 1 /\ i \in 1..n
        BY <2>7, <3>2, <4>2
      <4>3. CASE j = n + 1 /\ i = n + 1
        BY <3>5, <4>3
      <4>4. QED
        BY <3>1, <4>1, <4>2, <4>3
    <3>7. QED
      BY <3>1, <3>2, <3>5, <3>6 DEF RowsAscend
  <2>9. (n + 1) \in Nat
    OBVIOUS
  <2>10. QED
    BY <2>2, <2>6, <2>8, <2>9 DEF TransitionInv
<1>3. ASSUME EventEnd PROVE TransitionInv'
  <2>1. TransitionsEnd
    BY <1>0, <1>3, TransitionSteps
  <2>2. verdict = "reading" /\ verdict' = "converted" /\ fed' = fed
    BY <2>1 DEF TransitionsEnd, Ending
  <2>3. ChangesKnown
    BY <1>0, <2>2 DEF TransitionInv
  <2>4. ChangesConcluded'
    BY <1>0, <1>1, <2>1, <2>3, WindowsConclude
  <2>5. RowsAscend(n)'
    BY <1>1, <2>2 DEF RowsAscend
  <2>6. QED
    BY <2>2, <2>4, <2>5 DEF TransitionInv
<1>4. ASSUME Refuse \/ UNCHANGED linesVars PROVE TransitionInv'
  <2>1. UNCHANGED <<converter, declared, fed, lines, held>>
        /\ (verdict' = verdict \/ verdict' = "refused") /\ (verdict' = "refused" => verdict' # "converted" /\ verdict' # "reading")
    BY <1>4 DEF Refuse, linesVars
  <2>2. RowsAscend(n)' /\ (LastsAre(held, n) => LastsAre(held, n)')
    BY <1>1, <2>1 DEF RowsAscend, LastsAre, IsLast
  <2>3. ChangeRows' = ChangeRows /\ Differing' = Differing /\ Told' = Told
    BY <2>1 DEF ChangeRows, Differing, Neighbours, Told
  <2>4. {Differs(x) : x \in Differing}' = {Differs(x) : x \in Differing}
    <3>1. \A x : Differs(x)' = Differs(x)
      BY <2>1 DEF Differs
    <3>2. QED
      BY <2>3, <3>1
  <2>5. ChangesKnown => ChangesKnown'
    BY <2>1, <2>3, <2>4 DEF ChangesKnown
  <2>6. ChangesConcluded => ChangesConcluded'
    BY <2>1, <2>3, <2>4 DEF ChangesConcluded, WindowRows, Within
  <2>7. QED
    BY <1>0, <1>1, <2>1, <2>2, <2>5, <2>6 DEF TransitionInv
<1>5. QED
  BY <1>2, <1>3, <1>4 DEF EventNext

(* Changes are those between neighbours, windows hold every row once. *)
LEMMA ChangesHold == EventSpec => []ChangesAreAdjacent
<1>1. EventInit => EventFile /\ TransitionInv
  BY EventsBegin, TransitionsBegin
<1>2. EventFile /\ TransitionInv /\ [EventNext]_linesVars => EventFile' /\ TransitionInv'
  BY EventFileStays, TransitionsStay
<1>3. TransitionInv => ChangesAreAdjacent
  <2> SUFFICES ASSUME TransitionInv, TransitionRuns, verdict = "converted" PROVE ChangesAreAdjacent
    BY Zenon DEF ChangesAreAdjacent, Judged, TransitionRuns
  <2>1. ChangesConcluded
    BY DEF TransitionInv
  <2>2. QED
    BY <2>1, Zenon DEF ChangesAreAdjacent, ChangesConcluded, Told, Differs
<1>4. QED
  BY <1>1, <1>2, <1>3, PTL DEF EventSpec

(* Whatever these converters conclude rests on an unbroken sequence of the *)
(* records read: the runs of best_run, the changes and windows of *)
(* convert_saved_state_transitions, the intervals of the video detectors and *)
(* the judgement of check_identifier_uniqueness, for any number of records, *)
(* any declarations and any windows. *)
THEOREM ConclusionsAreDrawn == EventSpec => []ConclusionsAreSound
<1>1. RunsAreUnbroken /\ ChangesAreAdjacent /\ IntervalsAreDisjoint /\ UniquenessIsWitnessed
        => ConclusionsAreSound
  BY DEF ConclusionsAreSound
<1>2. QED
  BY <1>1, RunsHold, ChangesHold, IntervalsHold, UniquenessHolds, PTL
=============================================================================
