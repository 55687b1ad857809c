----------------------------- MODULE JobProofs ------------------------------
(***************************************************************************)
(* Whatever the number of requests and the peer does, a job has at most one *)
(* request on its way, wakes every requester with the reply to its own      *)
(* request, leaves nobody waiting when it ends, and does not let the loop   *)
(* sleep while it could go on.                                              *)
(***************************************************************************)
EXTENDS Job, TLAPS

-----------------------------------------------------------------------------
(* What the operations on a line do to the request that is on its way.     *)

\* A message that is not part of an exchange of ours changes nothing.
LEMMA AppendOther ==
    ASSUME NEW S, NEW s \in Seq(S), NEW m \in S, ~Ours(m)
    PROVE  /\ Without(s) => Without(Append(s, m))
           /\ \A r : WithOne(s, r) => WithOne(Append(s, m), r)
<1>1. /\ Append(s, m) \in Seq(S) /\ Len(Append(s, m)) = Len(s) + 1 /\ Len(s) \in Nat
      /\ \A i \in 1 .. Len(s) : Append(s, m)[i] = s[i]
      /\ Append(s, m)[Len(s) + 1] = m
  OBVIOUS
<1>2. \A i \in 1 .. Len(s) + 1 : i \in 1 .. Len(s) \/ i = Len(s) + 1
  BY <1>1
<1>3. Without(s) => Without(Append(s, m))
  BY <1>1, <1>2 DEF Without
<1>4. ASSUME NEW r, WithOne(s, r) PROVE WithOne(Append(s, m), r)
  <2>1. PICK k \in 1 .. Len(s) : Ours(s[k]) /\ s[k].of = r
                                 /\ \A i \in 1 .. Len(s) : i # k => ~Ours(s[i])
    BY <1>4 DEF WithOne
  <2>2. k \in 1 .. Len(s) + 1 /\ Append(s, m)[k] = s[k]
    BY <1>1
  <2>3. \A i \in 1 .. Len(s) + 1 : i # k => ~Ours(Append(s, m)[i])
    BY <1>1, <1>2, <2>1
  <2>4. QED
    BY <1>1, <2>1, <2>2, <2>3 DEF WithOne
<1>5. QED
  BY <1>3, <1>4

\* A request, or a reply, appended to a line without any is the only one.
LEMMA AppendOurs ==
    ASSUME NEW S, NEW s \in Seq(S), NEW m \in S, Ours(m), Without(s)
    PROVE  WithOne(Append(s, m), m.of)
<1>1. /\ Len(Append(s, m)) = Len(s) + 1 /\ Len(s) \in Nat
      /\ \A i \in 1 .. Len(s) : Append(s, m)[i] = s[i]
      /\ Append(s, m)[Len(s) + 1] = m
  OBVIOUS
<1>2. Len(s) + 1 \in 1 .. Len(Append(s, m))
  BY <1>1
<1>3. \A i \in 1 .. Len(Append(s, m)) : i # Len(s) + 1 => ~Ours(Append(s, m)[i])
  BY <1>1 DEF Without
<1>4. QED
  BY <1>1, <1>2, <1>3 DEF WithOne

\* Taking the first message off a line.
LEMMA TailOfLine ==
    ASSUME NEW S, NEW s \in Seq(S), s # << >>
    PROVE  /\ Without(s) => Without(Tail(s)) /\ ~Ours(Head(s))
           /\ \A r : WithOne(s, r) /\ ~Ours(Head(s)) => WithOne(Tail(s), r)
           /\ \A r : WithOne(s, r) /\ Ours(Head(s)) => Without(Tail(s)) /\ Head(s).of = r
<1>1. /\ Len(s) \in Nat /\ Len(s) >= 1 /\ Len(Tail(s)) = Len(s) - 1
      /\ \A i \in 1 .. Len(s) - 1 : Tail(s)[i] = s[i + 1]
      /\ Head(s) = s[1]
  OBVIOUS
<1>2. \A i \in 1 .. Len(s) - 1 : i + 1 \in 1 .. Len(s) /\ i + 1 # 1
  BY <1>1
<1>3. Without(s) => Without(Tail(s)) /\ ~Ours(Head(s))
  BY <1>1, <1>2 DEF Without
<1>4. ASSUME NEW r, WithOne(s, r)
      PROVE  /\ ~Ours(Head(s)) => WithOne(Tail(s), r)
             /\ Ours(Head(s)) => Without(Tail(s)) /\ Head(s).of = r
  <2>1. PICK k \in 1 .. Len(s) : Ours(s[k]) /\ s[k].of = r
                                 /\ \A i \in 1 .. Len(s) : i # k => ~Ours(s[i])
    BY <1>4 DEF WithOne
  <2>2. CASE k = 1
    BY <1>1, <1>2, <2>1, <2>2 DEF Without
  <2>3. CASE k # 1
    <3>1. ~Ours(Head(s))
      BY <1>1, <2>1, <2>3
    <3>2. k - 1 \in 1 .. Len(s) - 1 /\ Tail(s)[k - 1] = s[k]
      BY <1>1, <2>3
    <3>3. \A i \in 1 .. Len(s) - 1 : i # k - 1 => ~Ours(Tail(s)[i])
      BY <1>1, <1>2, <2>1
    <3>4. QED
      BY <1>1, <2>1, <3>1, <3>2, <3>3 DEF WithOne
  <2>4. QED
    BY <2>2, <2>3
<1>5. QED
  BY <1>3, <1>4

\* The start and the rest of a line that a read or a write splits.
LEMMA SplitLine ==
    ASSUME NEW S, NEW s \in Seq(S), NEW n \in 0 .. Len(s)
    PROVE  /\ SubSeq(s, 1, n) \in Seq(S) /\ SubSeq(s, n + 1, Len(s)) \in Seq(S)
           /\ Without(s) => Without(SubSeq(s, 1, n)) /\ Without(SubSeq(s, n + 1, Len(s)))
           /\ \A r : WithOne(s, r) =>
                 \/ WithOne(SubSeq(s, 1, n), r) /\ Without(SubSeq(s, n + 1, Len(s)))
                 \/ Without(SubSeq(s, 1, n)) /\ WithOne(SubSeq(s, n + 1, Len(s)), r)
<1> DEFINE a == SubSeq(s, 1, n)
           b == SubSeq(s, n + 1, Len(s))
<1>1. /\ Len(s) \in Nat /\ n \in Nat /\ n <= Len(s)
      /\ a \in Seq(S) /\ Len(a) = n /\ \A i \in 1 .. n : a[i] = s[i]
  OBVIOUS
<1>2. /\ b \in Seq(S) /\ Len(b) = Len(s) - n
      /\ \A i \in 1 .. Len(s) - n : b[i] = s[i + n]
  OBVIOUS
<1> HIDE DEF a, b
<1>3. \A i \in 1 .. n : i \in 1 .. Len(s)
  BY <1>1
<1>4. \A i \in 1 .. Len(s) - n : i + n \in 1 .. Len(s) /\ i + n > n
  BY <1>1
<1>5. Without(s) => Without(a) /\ Without(b)
  BY <1>1, <1>2, <1>3, <1>4 DEF Without
<1>6. ASSUME NEW r, WithOne(s, r)
      PROVE  (WithOne(a, r) /\ Without(b)) \/ (Without(a) /\ WithOne(b, r))
  <2>1. PICK k \in 1 .. Len(s) : Ours(s[k]) /\ s[k].of = r
                                 /\ \A i \in 1 .. Len(s) : i # k => ~Ours(s[i])
    BY <1>6 DEF WithOne
  <2>2. CASE k <= n
    <3>1. Without(b)
      BY <1>1, <1>2, <1>4, <2>1, <2>2 DEF Without
    <3>2. k \in 1 .. n /\ a[k] = s[k] /\ \A i \in 1 .. n : i # k => ~Ours(a[i])
      BY <1>1, <1>3, <2>1, <2>2
    <3>3. QED
      BY <1>1, <2>1, <3>1, <3>2 DEF WithOne
  <2>3. CASE k > n
    <3>1. Without(a)
      BY <1>1, <1>3, <2>1, <2>3 DEF Without
    <3>2. k - n \in 1 .. Len(s) - n /\ b[k - n] = s[k]
      BY <1>1, <1>2, <2>3
    <3>3. \A i \in 1 .. Len(s) - n : i # k - n => ~Ours(b[i])
      BY <1>1, <1>2, <1>4, <2>1
    <3>4. QED
      BY <1>2, <2>1, <3>1, <3>2, <3>3 DEF WithOne
  <2>4. QED
    BY <1>1, <2>2, <2>3
<1>7. QED
  BY <1>1, <1>2, <1>5, <1>6 DEF a, b

\* What was split off is added to another line.
LEMMA JoinLines ==
    ASSUME NEW S, NEW s \in Seq(S), NEW t \in Seq(S)
    PROVE  /\ s \o t \in Seq(S)
           /\ Without(s) /\ Without(t) => Without(s \o t)
           /\ \A r : WithOne(s, r) /\ Without(t) => WithOne(s \o t, r)
           /\ \A r : Without(s) /\ WithOne(t, r) => WithOne(s \o t, r)
<1> DEFINE u == s \o t
<1>1. /\ Len(s) \in Nat /\ Len(t) \in Nat /\ u \in Seq(S) /\ Len(u) = Len(s) + Len(t)
      /\ \A i \in 1 .. Len(s) : u[i] = s[i]
  OBVIOUS
<1>2. \A i \in 1 .. Len(u) :
         \/ i \in 1 .. Len(s) /\ u[i] = s[i]
         \/ i - Len(s) \in 1 .. Len(t) /\ u[i] = t[i - Len(s)] /\ i > Len(s)
  BY <1>1
<1> HIDE DEF u
<1>3. Without(s) /\ Without(t) => Without(u)
  BY <1>1, <1>2 DEF Without
<1>4. ASSUME NEW r, WithOne(s, r), Without(t) PROVE WithOne(u, r)
  <2>1. PICK k \in 1 .. Len(s) : Ours(s[k]) /\ s[k].of = r
                                 /\ \A i \in 1 .. Len(s) : i # k => ~Ours(s[i])
    BY <1>4 DEF WithOne
  <2>2. k \in 1 .. Len(u) /\ u[k] = s[k]
    BY <1>1
  <2>3. \A i \in 1 .. Len(u) : i # k => ~Ours(u[i])
    BY <1>1, <1>2, <1>4, <2>1 DEF Without
  <2>4. QED
    BY <2>1, <2>2, <2>3 DEF WithOne
<1>5. ASSUME NEW r, Without(s), WithOne(t, r) PROVE WithOne(u, r)
  <2>1. PICK k \in 1 .. Len(t) : Ours(t[k]) /\ t[k].of = r
                                 /\ \A i \in 1 .. Len(t) : i # k => ~Ours(t[i])
    BY <1>5 DEF WithOne
  <2>2. k + Len(s) \in 1 .. Len(u) /\ u[k + Len(s)] = t[k]
    BY <1>1 DEF u
  <2>3. ASSUME NEW i \in 1 .. Len(u), i # k + Len(s) PROVE ~Ours(u[i])
    <3>1. CASE i \in 1 .. Len(s) /\ u[i] = s[i]
      BY <1>5, <3>1 DEF Without
    <3>2. CASE i - Len(s) \in 1 .. Len(t) /\ u[i] = t[i - Len(s)] /\ i > Len(s)
      <4>1. i - Len(s) # k
        BY <1>1, <2>3
      <4>2. QED
        BY <2>1, <3>2, <4>1
    <3>3. QED
      BY <1>2, <3>1, <3>2
  <2>4. QED
    BY <2>1, <2>2, <2>3 DEF WithOne
<1>6. QED
  BY <1>1, <1>3, <1>4, <1>5 DEF u

-----------------------------------------------------------------------------
(* The inductive invariant.                                                *)

\* Once a job is deleted the loop does not get back to it.
Rests == j_state = "DELETED" => pc = "load"

\* What the stages of the loop leave for the next: why it may sleep.  A job
\* that is done, or past its input, does not get out of run_jobs_katcp as such;
\* one that drains has something to write; a message is left unhandled behind
\* a request, whose answer is going to be written, or has been appended.
Idle ==
    /\ j_pid <=> child \in {"running", "exited"}
    /\ j_state = "WAIT" => j_pid
    /\ j_state = "POST" => pc = "field"
    /\ j_state = "DONE" => pc \notin {"load", "select"}
    /\ j_queue # << >> => j_sendr = 1
    /\ pc \in {"finish", "load"} /\ j_state = "DRAIN" => Flushing
    /\ pc \in {"write", "finish", "load"} /\ j_state = "UP" /\ line_in # << >>
          => j_recvr > 0 \/ (pc = "load" /\ Flushing)
    /\ SleepsOnlyIdle

Inv == TypeOK /\ Rests /\ OneOutstanding /\ OwnReply /\ NobodyForgotten /\ Idle

\* Sending the first request of the queue, if there is one to send.
LEMMA IssueType ==
    ASSUME TypeOK, NEW q \in Seq(Requests), NEW n \in 0 .. 1, IssueRequest(q, n)
    PROVE  line_out' \in Seq(OutMessage) /\ j_sendr' \in 0 .. 1
<1>1. CASE q # << >> /\ n = 0
  <2>1. Request(Head(q)) \in OutMessage
    BY <1>1 DEF Request, OutMessage
  <2>2. line_out' = Append(line_out, Request(Head(q))) /\ j_sendr' = 1
    BY <1>1 DEF IssueRequest
  <2>3. QED
    BY <2>1, <2>2 DEF TypeOK
<1>2. CASE ~(q # << >> /\ n = 0)
  BY <1>2 DEF IssueRequest, TypeOK
<1>3. QED
  BY <1>1, <1>2

LEMMA TypeStep ==
    ASSUME TypeOK, Next
    PROVE  TypeOK'
<1> USE JobAssumption DEF TypeOK, job, line, sets, remote
<1>1. CASE PeerNext
  <2>1. CASE PeerConnect
    BY <2>1 DEF PeerConnect
  <2>2. CASE PeerHandle
    <3>1. Head(peer_in) \in OutMessage /\ Tail(peer_in) \in Seq(OutMessage)
      BY <2>2 DEF PeerHandle
    <3>2. Reply(Head(peer_in).of) \in InMessage
      BY <3>1 DEF Reply, InMessage, OutMessage
    <3>3. peer_out' \in Seq(InMessage)
      BY <2>2, <3>2 DEF PeerHandle
    <3>4. QED
      BY <2>2, <3>1, <3>3 DEF PeerHandle
  <2>3. CASE PeerClose
    BY <2>3 DEF PeerClose
  <2>4. CASE ChildExit
    BY <2>4 DEF ChildExit
  <2>5. ASSUME NEW m \in Unasked, PeerSend(m) PROVE TypeOK'
    <3>1. m \in InMessage
      BY DEF Unasked, Ask, Reply, Return, InMessage, Asks
    <3>2. peer_out' \in Seq(InMessage) /\ budget' \in 0 .. Budget /\ strayed' \in BOOLEAN
      BY <2>5, <3>1 DEF PeerSend
    <3>3. QED
      BY <2>5, <3>2 DEF PeerSend
  <2>6. QED
    BY <1>1, <2>1, <2>2, <2>3, <2>4, <2>5 DEF PeerNext
<1>2. ASSUME NEW r \in Requests, Submit(r) PROVE TypeOK'
  <2>1. j_queue' \in Seq(Requests) /\ IssueRequest(j_queue', j_sendr)
    BY <1>2 DEF Submit
  <2>2. line_out' \in Seq(OutMessage) /\ j_sendr' \in 0 .. 1
    BY <2>1, IssueType
  <2>3. QED
    BY <1>2, <2>1, <2>2 DEF Submit
<1>3. CASE Zap
  BY <1>3 DEF Zap
<1>4. CASE Acknowledge
  <2>1. Answer \in OutMessage
    BY DEF Answer, OutMessage
  <2>2. QED
    BY <1>4, <2>1 DEF Acknowledge
<1>5. CASE LoadJobs
  BY <1>5 DEF LoadJobs
<1>6. CASE Select \/ SelectOther
  <2>1. readset' \in BOOLEAN /\ writeset' \in BOOLEAN
    BY <1>6, Zenon DEF Select, SelectOther
  <2>2. QED
    BY <1>6, <2>1 DEF Select, SelectOther
<1>7. CASE WaitJobs
  BY <1>7 DEF WaitJobs
<1>8. CASE EndedJobs
  BY <1>8 DEF EndedJobs
<1>9. CASE Connect
  BY <1>9 DEF Connect
<1>10. CASE ReadSkip
  BY <1>10 DEF ReadSkip
<1>11. CASE ReadData
  <2>1. line_in' \in Seq(InMessage) /\ peer_out' \in Seq(InMessage)
    BY <1>11, SplitLine, JoinLines DEF ReadData
  <2>2. QED
    BY <1>11, <2>1 DEF ReadData
<1>12. CASE ReadEnd
  BY <1>12 DEF ReadEnd
<1>13. CASE ReadError
  BY <1>13 DEF ReadError
<1>14. CASE FieldReply
  <2>1. j_queue' \in Seq(Requests) /\ line_in' \in Seq(InMessage) /\ Head(line_in) \in InMessage
    BY <1>14 DEF FieldReply, Fielding
  <2>2. IssueRequest(j_queue', j_sendr - 1) /\ j_sendr - 1 \in 0 .. 1
    BY <1>14 DEF FieldReply
  <2>3. line_out' \in Seq(OutMessage) /\ j_sendr' \in 0 .. 1
    BY <2>1, <2>2, IssueType
  <2>4. Head(line_in).of \in Requests \cup {NULL} /\ Head(j_queue) \in Requests
    BY <1>14, <2>1 DEF FieldReply, InMessage
  <2>5. outcome' \in [Requests -> {"idle", "waiting", "disconnected", "stray"} \cup Requests]
    BY <1>14, <2>4 DEF FieldReply
  <2>6. QED
    BY <1>14, <2>1, <2>3, <2>5 DEF FieldReply
<1>15. CASE FieldSpurious
  BY <1>15 DEF FieldSpurious, Fielding
<1>16. CASE FieldRequest
  <2>1. Answer \in OutMessage
    BY DEF Answer, OutMessage
  <2>2. line_out' \in Seq(OutMessage) /\ j_recvr' \in 0 .. 1 /\ line_in' \in Seq(InMessage)
    <3>1. CASE Type = "known"
      BY <1>16, <3>1 DEF FieldRequest, Fielding
    <3>2. CASE Type # "known"
      <4>1. line_out' = Append(line_out, Answer) /\ line_in' = Tail(line_in) /\ j_recvr' = j_recvr
        BY <1>16, <3>2 DEF FieldRequest
      <4>2. QED
        BY <1>16, <2>1, <4>1 DEF FieldRequest, Fielding
    <3>3. QED
      BY <3>1, <3>2
  <2>3. QED
    BY <1>16, <2>2 DEF FieldRequest
<1>17. CASE FieldReturn
  BY <1>17 DEF FieldReturn
<1>18. CASE FieldEnd
  BY <1>18 DEF FieldEnd
<1>19. CASE WriteSkip
  BY <1>19 DEF WriteSkip, Drained
<1>20. CASE WriteData
  <2>1. line_out' \in Seq(OutMessage) /\ peer_in' \in Seq(OutMessage)
    BY <1>20, SplitLine, JoinLines DEF WriteData
  <2>2. QED
    BY <1>20, <2>1 DEF WriteData, Drained
<1>21. CASE WriteError
  BY <1>21 DEF WriteError
<1>22. CASE Finish
  <2>1. CASE j_state = "DONE"
    <3>1. outcome' \in [Requests -> {"idle", "waiting", "disconnected", "stray"} \cup Requests]
      BY <1>22, <2>1 DEF Finish
    <3>2. QED
      BY <1>22, <2>1, <3>1 DEF Finish
  <2>2. CASE j_state # "DONE"
    BY <1>22, <2>2 DEF Finish
  <2>3. QED
    BY <2>1, <2>2
<1>23. QED
  BY <1>1, <1>2, <1>3, <1>4, <1>5, <1>6, <1>7, <1>8, <1>9, <1>10, <1>11, <1>12, <1>13, <1>14,
     <1>15, <1>16, <1>17, <1>18, <1>19, <1>20, <1>21, <1>22 DEF Next, RunNext

LEMMA RestsStep ==
    ASSUME TypeOK, Rests, Next
    PROVE  Rests'
<1> USE DEF Rests, TypeOK, job, line, sets, remote
<1>1. CASE PeerNext
  BY <1>1 DEF PeerNext, PeerConnect, PeerHandle, PeerClose, ChildExit, PeerSend
<1>2. CASE (\E r \in Requests : Submit(r)) \/ Zap \/ Acknowledge \/ LoadJobs
  BY <1>2 DEF Submit, Zap, Acknowledge, LoadJobs, Outside
<1>3. CASE Select \/ SelectOther \/ WaitJobs \/ EndedJobs
  BY <1>3 DEF Select, SelectOther, WaitJobs, EndedJobs
<1>4. CASE Connect \/ ReadSkip \/ ReadData \/ ReadEnd \/ ReadError
  BY <1>4 DEF Connect, ReadSkip, ReadData, ReadEnd, ReadError
<1>5. CASE FieldReply \/ FieldSpurious \/ FieldRequest \/ FieldReturn \/ FieldEnd
  BY <1>5 DEF FieldReply, FieldSpurious, FieldRequest, FieldReturn, FieldEnd, Fielding
<1>6. CASE WriteSkip \/ WriteData \/ WriteError
  BY <1>6 DEF WriteSkip, WriteData, WriteError, Drained
<1>7. CASE Finish
  BY <1>7 DEF Finish
<1>8. QED
  BY <1>1, <1>2, <1>3, <1>4, <1>5, <1>6, <1>7 DEF Next, RunNext

\* A job that is deleted stays so.
LEMMA StaysDeleted ==
    ASSUME TypeOK, Rests, Next, j_state = "DELETED"
    PROVE  j_state' = "DELETED"
<1> USE DEF Rests, TypeOK, job, line, sets, remote
<1>1. CASE PeerNext
  BY <1>1 DEF PeerNext, PeerConnect, PeerHandle, PeerClose, ChildExit, PeerSend
<1>2. CASE (\E r \in Requests : Submit(r)) \/ Zap \/ Acknowledge \/ LoadJobs
  BY <1>2 DEF Submit, Zap, Acknowledge, LoadJobs, Outside
<1>3. CASE Select \/ SelectOther \/ WaitJobs \/ EndedJobs
  BY <1>3 DEF Select, SelectOther, WaitJobs, EndedJobs
<1>4. CASE RunNext
  BY <1>4 DEF RunNext, Connect, ReadSkip, ReadData, ReadEnd, ReadError, FieldReply, FieldSpurious,
     FieldRequest, FieldReturn, FieldEnd, Fielding, WriteSkip, WriteData, WriteError, Finish
<1>5. QED
  BY <1>1, <1>2, <1>3, <1>4 DEF Next

\* What OneOutstanding is about.
flow == <<line_out, line_in, peer_in, peer_out, j_queue, j_sendr, strayed>>

\* A request is only issued when none is on its way.
LEMMA IssueOutstanding ==
    ASSUME TypeOK, NEW q \in Seq(Requests), NEW n \in 0 .. 1, IssueRequest(q, n)
    PROVE  /\ n = 0 /\ Without(line_out) =>
                 \/ Without(line_out')
                 \/ j_sendr' = 1 /\ q # << >> /\ WithOne(line_out', Head(q))
           /\ n = 1 => line_out' = line_out /\ j_sendr' = 1
<1>1. CASE q # << >> /\ n = 0
  <2>1. /\ Request(Head(q)) \in OutMessage
        /\ Ours(Request(Head(q))) /\ Request(Head(q)).of = Head(q)
    BY <1>1 DEF Request, OutMessage, Ours
  <2>2. line_out' = Append(line_out, Request(Head(q))) /\ j_sendr' = 1
    BY <1>1 DEF IssueRequest
  <2>3. line_out \in Seq(OutMessage)
    BY DEF TypeOK
  <2>4. Without(line_out) => WithOne(Append(line_out, Request(Head(q))), Request(Head(q)).of)
    BY <2>1, <2>3, AppendOurs
  <2>5. QED
    BY <1>1, <2>1, <2>2, <2>4
<1>2. CASE ~(q # << >> /\ n = 0)
  BY <1>2 DEF IssueRequest
<1>3. QED
  BY <1>1, <1>2

LEMMA OutstandingStep ==
    ASSUME TypeOK, Rests, OneOutstanding, Next
    PROVE  OneOutstanding'
<1> USE DEF job, line, sets, remote
<1>0. /\ line_out \in Seq(OutMessage) /\ peer_in \in Seq(OutMessage)
      /\ line_in \in Seq(InMessage) /\ peer_out \in Seq(InMessage)
      /\ j_queue \in Seq(Requests) /\ j_sendr \in 0 .. 1
  BY DEF TypeOK
<1>1. j_state = "DELETED" => j_state' = "DELETED"
  BY StaysDeleted
<1>2. Without(<< >>)
  BY DEF Without
<1>3. CASE UNCHANGED flow
  BY <1>1, <1>3 DEF OneOutstanding, flow
<1>4. CASE PeerHandle
  <2>1. /\ peer_in # << >> /\ peer_in' = Tail(peer_in) /\ Head(peer_in) \in OutMessage
        /\ UNCHANGED <<line_out, line_in, j_queue, j_sendr, strayed, j_state>>
        /\ peer_out' = IF Head(peer_in).type = "request"
                       THEN Append(peer_out, Reply(Head(peer_in).of)) ELSE peer_out
    BY <1>0, <1>4 DEF PeerHandle
  <2>2. Ours(Head(peer_in)) <=> Head(peer_in).type = "request"
    BY <2>1 DEF Ours, OutMessage
  <2>3. /\ Without(peer_in) => Without(Tail(peer_in)) /\ ~Ours(Head(peer_in))
        /\ \A r : WithOne(peer_in, r) /\ ~Ours(Head(peer_in)) => WithOne(Tail(peer_in), r)
        /\ \A r : WithOne(peer_in, r) /\ Ours(Head(peer_in)) => Without(Tail(peer_in)) /\ Head(peer_in).of = r
    BY <1>0, <2>1, TailOfLine
  <2>4. /\ Reply(Head(peer_in).of) \in InMessage /\ Ours(Reply(Head(peer_in).of))
        /\ Reply(Head(peer_in).of).of = Head(peer_in).of
    BY <2>1 DEF Reply, InMessage, OutMessage, Ours
  <2>5. Without(peer_out) => WithOne(Append(peer_out, Reply(Head(peer_in).of)), Head(peer_in).of)
    BY <1>0, <2>4, AppendOurs
  <2>6. CASE Ours(Head(peer_in))
    BY <2>1, <2>2, <2>3, <2>5, <2>6 DEF OneOutstanding
  <2>7. CASE ~Ours(Head(peer_in))
    BY <2>1, <2>2, <2>3, <2>7 DEF OneOutstanding
  <2>8. QED
    BY <2>6, <2>7
<1>5. ASSUME NEW m \in Unasked, PeerSend(m) PROVE OneOutstanding'
  <2>1. CASE m.type = "reply"
    BY <1>5, <2>1 DEF PeerSend, OneOutstanding
  <2>2. CASE m.type # "reply"
    <3>1. m \in InMessage /\ ~Ours(m)
      BY <2>2 DEF Unasked, Ask, Reply, Return, InMessage, Asks, Ours
    <3>2. /\ Without(peer_out) => Without(Append(peer_out, m))
          /\ \A r : WithOne(peer_out, r) => WithOne(Append(peer_out, m), r)
      BY <1>0, <3>1, AppendOther
    <3>3. /\ peer_out' = Append(peer_out, m)
          /\ strayed' <=> strayed
          /\ UNCHANGED <<line_out, line_in, peer_in, j_queue, j_sendr, j_state>>
      BY <1>5, <2>2 DEF PeerSend
    <3>4. QED
      BY <3>2, <3>3 DEF OneOutstanding
  <2>3. QED
    BY <2>1, <2>2
<1>6. ASSUME NEW r \in Requests, Submit(r) PROVE OneOutstanding'
  <2>0. /\ Append(j_queue, r) \in Seq(Requests) /\ Append(j_queue, r) # << >>
        /\ j_queue # << >> => Head(Append(j_queue, r)) = Head(j_queue)
    <3>1. Append(j_queue, r) \in Seq(Requests) /\ Append(j_queue, r) # << >>
      BY <1>0
    <3>2. ASSUME j_queue # << >> PROVE Head(Append(j_queue, r)) = Head(j_queue)
      <4>1. Len(j_queue) >= 1 /\ Append(j_queue, r)[1] = j_queue[1]
        BY <1>0, <3>2
      <4>2. QED
        BY <1>0, <3>1, <4>1
    <3>3. QED
      BY <3>1, <3>2
  <2>1. /\ j_queue' = Append(j_queue, r) /\ j_queue' \in Seq(Requests)
        /\ j_queue' # << >> /\ (j_queue # << >> => Head(j_queue') = Head(j_queue))
        /\ IssueRequest(j_queue', j_sendr) /\ j_state # "DELETED"
        /\ UNCHANGED <<line_in, peer_in, peer_out, strayed, j_state>>
    BY <1>6, <2>0, Zenon DEF Submit, Outside
  <2>2. /\ j_sendr = 0 /\ Without(line_out) =>
              \/ Without(line_out')
              \/ j_sendr' = 1 /\ j_queue' # << >> /\ WithOne(line_out', Head(j_queue'))
        /\ j_sendr = 1 => line_out' = line_out /\ j_sendr' = 1
    BY <1>0, <2>1, IssueOutstanding
  <2>3. j_sendr = 0 \/ j_sendr = 1
    BY <1>0
  <2>4. QED
    BY <2>1, <2>2, <2>3 DEF OneOutstanding
<1>7. CASE Acknowledge \/ (FieldRequest /\ line_out' = Append(line_out, Answer))
  <2>1. Answer \in OutMessage /\ ~Ours(Answer)
    BY DEF Answer, OutMessage, Ours
  <2>2. /\ Without(line_out) => Without(Append(line_out, Answer))
        /\ \A r : WithOne(line_out, r) => WithOne(Append(line_out, Answer), r)
    BY <1>0, <2>1, AppendOther
  <2>3. CASE Acknowledge
    BY <2>2, <2>3 DEF OneOutstanding, Acknowledge
  <2>4. CASE FieldRequest /\ line_out' = Append(line_out, Answer)
    <3>1. ~Ours(Head(line_in)) /\ line_in # << >>
      BY <2>4 DEF FieldRequest, Fielding, Type, Asks, Ours
    <3>2. /\ Without(line_in) => Without(Tail(line_in))
          /\ \A r : WithOne(line_in, r) => WithOne(Tail(line_in), r)
      BY <1>0, <3>1, TailOfLine
    <3>3. QED
      BY <2>2, <2>4, <3>2 DEF OneOutstanding, FieldRequest
  <2>5. QED
    BY <1>7, <2>3, <2>4
<1>8. CASE FieldRequest /\ line_out' = line_out
  <2>1. ~Ours(Head(line_in)) /\ line_in # << >>
    BY <1>8 DEF FieldRequest, Fielding, Type, Asks, Ours
  <2>2. /\ Without(line_in) => Without(Tail(line_in))
        /\ \A r : WithOne(line_in, r) => WithOne(Tail(line_in), r)
    BY <1>0, <2>1, TailOfLine
  <2>3. QED
    BY <1>8, <2>2 DEF OneOutstanding, FieldRequest
<1>9. CASE ReadData
  <2>1. PICK n \in 1 .. Len(peer_out) :
           /\ line_in' = line_in \o SubSeq(peer_out, 1, n)
           /\ peer_out' = SubSeq(peer_out, n + 1, Len(peer_out))
    BY <1>9, Zenon DEF ReadData
  <2>0. n \in 0 .. Len(peer_out)
    BY <1>0
  <2> DEFINE a == SubSeq(peer_out, 1, n)
             b == SubSeq(peer_out, n + 1, Len(peer_out))
  <2>2. /\ a \in Seq(InMessage)
        /\ Without(peer_out) => Without(a) /\ Without(b)
        /\ \A r : WithOne(peer_out, r) =>
              (WithOne(a, r) /\ Without(b)) \/ (Without(a) /\ WithOne(b, r))
    BY <1>0, <2>0, SplitLine
  <2>3. line_in' = line_in \o a /\ peer_out' = b
    BY <2>1
  <2> HIDE DEF a, b
  <2>4. /\ Without(line_in) /\ Without(a) => Without(line_in \o a)
        /\ \A r : WithOne(line_in, r) /\ Without(a) => WithOne(line_in \o a, r)
        /\ \A r : Without(line_in) /\ WithOne(a, r) => WithOne(line_in \o a, r)
    BY <1>0, <2>2, JoinLines
  <2>5. UNCHANGED <<line_out, peer_in, j_queue, j_sendr, strayed, j_state>>
    BY <1>9 DEF ReadData
  <2>6. CASE Without(peer_out)
    BY <2>2, <2>3, <2>4, <2>5, <2>6 DEF OneOutstanding
  <2>7. CASE ~Without(peer_out) /\ ~strayed /\ j_state # "DELETED"
    <3>1. /\ j_sendr = 1 /\ j_queue # << >> /\ WithOne(peer_out, Head(j_queue))
          /\ Without(line_out) /\ Without(peer_in) /\ Without(line_in)
      BY <2>7 DEF OneOutstanding
    <3>2. \/ WithOne(line_in', Head(j_queue)) /\ Without(peer_out')
          \/ Without(line_in') /\ WithOne(peer_out', Head(j_queue))
      BY <2>2, <2>3, <2>4, <3>1
    <3>3. QED
      BY <2>5, <3>1, <3>2 DEF OneOutstanding
  <2>8. j_state # "DELETED"
    BY <1>9 DEF ReadData
  <2>9. QED
    BY <2>5, <2>6, <2>7, <2>8 DEF OneOutstanding
<1>10. CASE ReadEnd
  <2>1. /\ peer_out' = << >> /\ j_state # "DELETED"
        /\ UNCHANGED <<line_out, line_in, peer_in, j_queue, j_sendr, strayed>>
    BY <1>10 DEF ReadEnd
  <2>2. QED
    BY <1>2, <2>1 DEF OneOutstanding
<1>11. CASE FieldReply
  <2>1. /\ line_in # << >> /\ line_in' = Tail(line_in) /\ Ours(Head(line_in))
        /\ j_queue' = Tail(j_queue) /\ j_queue' \in Seq(Requests)
        /\ IssueRequest(j_queue', j_sendr - 1) /\ j_sendr = 1 /\ j_sendr - 1 = 0
        /\ UNCHANGED <<peer_in, peer_out, strayed, j_state>>
    BY <1>0, <1>11 DEF FieldReply, Fielding, Type, Ours
  <2>2. /\ Without(line_in) => ~Ours(Head(line_in))
        /\ \A r : WithOne(line_in, r) /\ Ours(Head(line_in)) => Without(Tail(line_in))
    BY <1>0, <2>1, TailOfLine
  <2>3. Without(line_out) =>
          \/ Without(line_out')
          \/ j_sendr' = 1 /\ j_queue' # << >> /\ WithOne(line_out', Head(j_queue'))
    <3>1. 0 \in 0 .. 1 /\ IssueRequest(j_queue', 0)
      BY <2>1
    <3>2. QED
      BY <2>1, <3>1, IssueOutstanding
  <2>4. QED
    BY <2>1, <2>2, <2>3 DEF OneOutstanding
<1>12. CASE FieldSpurious
  <2>1. /\ line_in # << >> /\ Ours(Head(line_in)) /\ (j_sendr = 0 \/ j_queue = << >>)
        /\ UNCHANGED strayed
    BY <1>12 DEF FieldSpurious, Fielding, Type, Ours
  <2>2. ~Without(line_in)
    BY <1>0, <2>1, TailOfLine
  <2>3. QED
    BY <2>1, <2>2 DEF OneOutstanding
<1>13. CASE WriteData
  <2>1. PICK n \in 0 .. Len(line_out) :
           /\ line_out' = SubSeq(line_out, n + 1, Len(line_out))
           /\ peer_in' = IF peer = "open" THEN peer_in \o SubSeq(line_out, 1, n) ELSE peer_in
    BY <1>0, <1>13 DEF WriteData
  <2> DEFINE a == SubSeq(line_out, 1, n)
             b == SubSeq(line_out, n + 1, Len(line_out))
  <2>2. /\ a \in Seq(OutMessage)
        /\ Without(line_out) => Without(a) /\ Without(b)
        /\ \A r : WithOne(line_out, r) =>
              (WithOne(a, r) /\ Without(b)) \/ (Without(a) /\ WithOne(b, r))
    BY <1>0, SplitLine
  <2>3. line_out' = b /\ (peer_in' = peer_in \o a \/ peer_in' = peer_in)
    BY <2>1
  <2> HIDE DEF a, b
  <2>4. /\ Without(peer_in) /\ Without(a) => Without(peer_in \o a)
        /\ \A r : WithOne(peer_in, r) /\ Without(a) => WithOne(peer_in \o a, r)
        /\ \A r : Without(peer_in) /\ WithOne(a, r) => WithOne(peer_in \o a, r)
    BY <1>0, <2>2, JoinLines
  <2>5. j_state # "DELETED" /\ UNCHANGED <<line_in, peer_out, j_queue, j_sendr, strayed>>
    BY <1>13 DEF WriteData, MayWrite
  <2>6. CASE peer_in' = peer_in
    BY <2>2, <2>3, <2>5, <2>6 DEF OneOutstanding
  <2>7. CASE peer_in' = peer_in \o a
    BY <2>2, <2>3, <2>4, <2>5, <2>7 DEF OneOutstanding
  <2>8. QED
    BY <2>3, <2>6, <2>7
<1>14. CASE Finish
  <2>1. CASE j_state = "DONE"
    BY <1>2, <1>14, <2>1 DEF Finish, OneOutstanding
  <2>2. CASE j_state # "DONE"
    BY <1>3, <1>14, <2>2 DEF Finish, flow
  <2>3. QED
    BY <2>1, <2>2
<1>15. CASE PeerConnect \/ PeerClose \/ ChildExit
  BY <1>3, <1>15 DEF PeerConnect, PeerClose, ChildExit, flow
<1>16. CASE Zap \/ LoadJobs \/ Select \/ SelectOther \/ WaitJobs \/ EndedJobs
  BY <1>3, <1>16 DEF Zap, LoadJobs, Select, SelectOther, WaitJobs, EndedJobs, flow
<1>17. CASE Connect \/ ReadSkip \/ ReadError \/ FieldReturn \/ FieldEnd
  BY <1>3, <1>17 DEF Connect, ReadSkip, ReadError, FieldReturn, FieldEnd, flow
<1>18. CASE WriteSkip \/ WriteError
  BY <1>3, <1>18 DEF WriteSkip, WriteError, flow
<1>19. FieldRequest => line_out' = line_out \/ line_out' = Append(line_out, Answer)
  BY DEF FieldRequest
<1>20. QED
  BY <1>4, <1>5, <1>6, <1>7, <1>8, <1>9, <1>10, <1>11, <1>12, <1>13, <1>14, <1>15, <1>16,
     <1>17, <1>18, <1>19 DEF Next, RunNext, PeerNext

\* Taking the first request out of the queue takes exactly that one out.
LEMMA QueueTail ==
    ASSUME TypeOK, NobodyForgotten, j_queue # << >>
    PROVE  LET q == Tail(j_queue)
           IN  /\ Head(j_queue) \in Requests /\ outcome[Head(j_queue)] = "waiting"
               /\ {q[i] : i \in 1 .. Len(q)} = Queued \ {Head(j_queue)}
               /\ \A i, k \in 1 .. Len(q) : q[i] = q[k] => i = k
<1> DEFINE q == Tail(j_queue)
           n == Len(j_queue)
<1>1. /\ j_queue \in Seq(Requests) /\ n \in Nat /\ n >= 1 /\ Head(j_queue) = j_queue[1]
      /\ Len(q) = n - 1 /\ \A i \in 1 .. n - 1 : q[i] = j_queue[i + 1]
      /\ Head(j_queue) \in Requests
  BY DEF TypeOK
<1>2. \A i, k \in 1 .. n : j_queue[i] = j_queue[k] => i = k
  BY DEF NobodyForgotten
<1>3. Head(j_queue) \in Queued
  BY <1>1 DEF Queued
<1>4. outcome[Head(j_queue)] = "waiting"
  BY <1>1, <1>3 DEF NobodyForgotten
<1> HIDE DEF q, n
<1>5. ASSUME NEW x PROVE x \in {q[i] : i \in 1 .. Len(q)} <=> x \in Queued \ {Head(j_queue)}
  <2>1. ASSUME NEW i \in 1 .. Len(q), x = q[i] PROVE x \in Queued \ {Head(j_queue)}
    <3>1. i + 1 \in 1 .. n /\ i + 1 # 1 /\ x = j_queue[i + 1] /\ 1 \in 1 .. n
      BY <1>1, <2>1
    <3>2. x # j_queue[1]
      BY <1>2, <3>1
    <3>3. QED
      BY <1>1, <3>1, <3>2 DEF Queued, n
  <2>2. ASSUME NEW i \in 1 .. n, x = j_queue[i], x # Head(j_queue)
        PROVE  \E k \in 1 .. Len(q) : x = q[k]
    <3>1. i - 1 \in 1 .. Len(q) /\ x = q[i - 1]
      BY <1>1, <2>2
    <3>2. QED
      BY <3>1
  <2>3. QED
    BY <2>1, <2>2 DEF Queued, n
<1>6. \A i, k \in 1 .. Len(q) : q[i] = q[k] => i = k
  <2>1. ASSUME NEW i \in 1 .. Len(q), NEW k \in 1 .. Len(q), q[i] = q[k] PROVE i = k
    <3>1. i + 1 \in 1 .. n /\ k + 1 \in 1 .. n /\ j_queue[i + 1] = j_queue[k + 1]
      BY <1>1, <2>1
    <3>2. i + 1 = k + 1
      BY <1>2, <3>1
    <3>3. QED
      BY <3>2
  <2>2. QED
    BY <2>1
<1>7. {q[i] : i \in 1 .. Len(q)} = Queued \ {Head(j_queue)}
  BY <1>5, Zenon
<1>8. QED
  BY <1>1, <1>4, <1>6, <1>7 DEF q

\* Adding a request that is not there yet.
LEMMA QueueAppend ==
    ASSUME TypeOK, NobodyForgotten, NEW r \in Requests, r \notin Queued
    PROVE  LET q == Append(j_queue, r)
           IN  /\ {q[i] : i \in 1 .. Len(q)} = Queued \cup {r}
               /\ \A i, k \in 1 .. Len(q) : q[i] = q[k] => i = k
<1> DEFINE q == Append(j_queue, r)
           n == Len(j_queue)
<1>1. /\ j_queue \in Seq(Requests) /\ n \in Nat /\ Len(q) = n + 1
      /\ \A i \in 1 .. n : q[i] = j_queue[i] /\ q[i] # r
      /\ q[n + 1] = r
  BY DEF TypeOK, Queued
<1>2. \A i, k \in 1 .. n : j_queue[i] = j_queue[k] => i = k
  BY DEF NobodyForgotten
<1> HIDE DEF q, n
<1>3. \A i \in 1 .. n + 1 : i \in 1 .. n \/ i = n + 1
  BY <1>1
<1>4. \A i, k \in 1 .. Len(q) : q[i] = q[k] => i = k
  BY <1>1, <1>2, <1>3
<1>5. {q[i] : i \in 1 .. Len(q)} = Queued \cup {r}
  <2>1. \A i \in 1 .. n : i \in 1 .. n + 1
    BY <1>1
  <2>2. n + 1 \in 1 .. n + 1
    BY <1>1
  <2>3. QED
    BY <1>1, <1>3, <2>1, <2>2 DEF Queued, n
<1>6. QED
  BY <1>4, <1>5 DEF q

\* The steps that do not touch the queue or what requesters were told.
LEMMA QuietStep ==
    ASSUME TypeOK, Next,
           ~(\E r \in Requests : Submit(r)), ~FieldReply, ~FieldReturn, ~Finish
    PROVE  UNCHANGED <<j_queue, outcome, j_halt>> /\ (j_state' = "DELETED" => j_state = "DELETED")
<1> USE DEF TypeOK, job, line, sets, remote
<1>1. CASE PeerNext
  BY <1>1 DEF PeerNext, PeerConnect, PeerHandle, PeerClose, ChildExit, PeerSend
<1>2. CASE Zap \/ Acknowledge \/ LoadJobs
  BY <1>2 DEF Zap, Acknowledge, LoadJobs
<1>3. CASE Select \/ SelectOther \/ WaitJobs \/ EndedJobs
  BY <1>3 DEF Select, SelectOther, WaitJobs, EndedJobs
<1>4. CASE Connect \/ ReadSkip \/ ReadData \/ ReadEnd \/ ReadError
  BY <1>4 DEF Connect, ReadSkip, ReadData, ReadEnd, ReadError
<1>5. CASE FieldSpurious \/ FieldRequest \/ FieldEnd
  BY <1>5 DEF FieldSpurious, FieldRequest, FieldEnd
<1>6. CASE WriteSkip \/ WriteData \/ WriteError
  BY <1>6 DEF WriteSkip, WriteData, WriteError, Drained
<1>7. QED
  BY <1>1, <1>2, <1>3, <1>4, <1>5, <1>6 DEF Next, RunNext

LEMMA ForgottenStep ==
    ASSUME TypeOK, NobodyForgotten, Next
    PROVE  NobodyForgotten'
<1>0. outcome \in [Requests -> {"idle", "waiting", "disconnected", "stray"} \cup Requests]
  BY DEF TypeOK
<1>1. ASSUME NEW r \in Requests, Submit(r) PROVE NobodyForgotten'
  <2>1. /\ outcome[r] = "idle" /\ outcome' = [outcome EXCEPT ![r] = "waiting"]
        /\ j_queue' = Append(j_queue, r) /\ j_state' = j_state /\ j_state # "DELETED"
    BY <1>1 DEF Submit, Outside
  <2>2. r \notin Queued
    BY <2>1 DEF NobodyForgotten
  <2>3. Queued' = Queued \cup {r} /\ \A i, k \in 1 .. Len(j_queue') : j_queue'[i] = j_queue'[k] => i = k
    BY <2>1, <2>2, QueueAppend DEF Queued
  <2>4. \A x \in Requests : outcome'[x] = "waiting" <=> x \in Queued'
    BY <1>0, <2>1, <2>3 DEF NobodyForgotten
  <2>5. QED
    BY <2>1, <2>3, <2>4 DEF NobodyForgotten
<1>2. CASE FieldReply
  <2>1. PICK v \in {"stray"} \cup Requests : outcome' = [outcome EXCEPT ![Head(j_queue)] = v]
    <3>1. Head(line_in) \in InMessage
      BY <1>2 DEF FieldReply, Fielding, TypeOK
    <3>2. Head(line_in).of \in Requests \cup {NULL}
      BY <3>1 DEF InMessage
    <3>3. QED
      BY <1>2, <3>2 DEF FieldReply
  <2>2. j_queue # << >> /\ j_queue' = Tail(j_queue) /\ j_state' = j_state /\ j_state # "DELETED"
    BY <1>2 DEF FieldReply, Fielding
  <2>3. /\ Head(j_queue) \in Requests
        /\ Queued' = Queued \ {Head(j_queue)}
        /\ \A i, k \in 1 .. Len(j_queue') : j_queue'[i] = j_queue'[k] => i = k
    BY <2>2, QueueTail DEF Queued
  <2>4. v # "waiting"
    BY JobAssumption
  <2>5. \A x \in Requests : outcome'[x] = "waiting" <=> x \in Queued'
    BY <1>0, <2>1, <2>3, <2>4 DEF NobodyForgotten
  <2>6. QED
    BY <2>2, <2>3, <2>5 DEF NobodyForgotten
<1>3. CASE FieldReturn
  <2>1. UNCHANGED <<outcome, j_queue>> /\ j_state' = "DONE"
    BY <1>3 DEF FieldReturn
  <2>2. QED
    BY <2>1 DEF NobodyForgotten, Queued
<1>4. CASE Finish
  <2>1. CASE j_state = "DONE"
    <3>1. /\ outcome' = [r \in Requests |-> IF r \in Queued THEN "disconnected" ELSE outcome[r]]
          /\ j_queue' = << >> /\ j_halt' # "held"
      BY <1>4, <2>1 DEF Finish
    <3>2. Queued' = {}
      BY <3>1 DEF Queued
    <3>3. \A x \in Requests : outcome'[x] # "waiting"
      BY <3>1 DEF NobodyForgotten
    <3>4. QED
      BY <3>1, <3>2, <3>3 DEF NobodyForgotten
  <2>2. CASE j_state # "DONE"
    <3>1. UNCHANGED <<j_state, j_queue, outcome, j_halt>>
      BY <1>4, <2>2 DEF Finish, job
    <3>2. QED
      BY <3>1 DEF NobodyForgotten, Queued
  <2>3. QED
    BY <2>1, <2>2
<1>5. CASE ~(\E r \in Requests : Submit(r)) /\ ~FieldReply /\ ~FieldReturn /\ ~Finish
  <2>1. UNCHANGED <<j_queue, outcome, j_halt>> /\ (j_state' = "DELETED" => j_state = "DELETED")
    BY <1>5, QuietStep
  <2>2. QED
    BY <2>1 DEF NobodyForgotten, Queued
<1>6. QED
  BY <1>1, <1>2, <1>3, <1>4, <1>5

\* The peer's stray replies are not forgotten.
LEMMA StrayedStays ==
    ASSUME TypeOK, Next, strayed
    PROVE  strayed'
<1> USE DEF job, line, sets, remote
<1>1. CASE PeerNext
  BY <1>1 DEF PeerNext, PeerConnect, PeerHandle, PeerClose, ChildExit, PeerSend
<1>2. CASE (\E r \in Requests : Submit(r)) \/ Zap \/ Acknowledge \/ LoadJobs
  BY <1>2 DEF Submit, Zap, Acknowledge, LoadJobs
<1>3. CASE Select \/ SelectOther \/ WaitJobs \/ EndedJobs
  BY <1>3 DEF Select, SelectOther, WaitJobs, EndedJobs
<1>4. CASE RunNext
  BY <1>4 DEF RunNext, Connect, ReadSkip, ReadData, ReadEnd, ReadError, FieldReply, FieldSpurious,
     FieldRequest, FieldReturn, FieldEnd, WriteSkip, WriteData, WriteError, Finish
<1>5. QED
  BY <1>1, <1>2, <1>3, <1>4 DEF Next

LEMMA OwnStep ==
    ASSUME TypeOK, OneOutstanding, OwnReply, Next
    PROVE  OwnReply'
<1>0. /\ outcome \in [Requests -> {"idle", "waiting", "disconnected", "stray"} \cup Requests]
      /\ strayed => strayed'
  BY StrayedStays DEF TypeOK
<1>1. ASSUME NEW r \in Requests, Submit(r) PROVE OwnReply'
  <2>1. outcome' = [outcome EXCEPT ![r] = "waiting"]
    BY <1>1 DEF Submit
  <2>2. QED
    BY <1>0, <2>1, JobAssumption DEF OwnReply
<1>2. CASE FieldReply
  <2>1. /\ outcome' = [outcome EXCEPT ![Head(j_queue)] =
                          IF Head(line_in).of = NULL THEN "stray" ELSE Head(line_in).of]
        /\ line_in # << >> /\ Ours(Head(line_in)) /\ Head(j_queue) \in Requests
        /\ line_in \in Seq(InMessage) /\ j_state # "DELETED" /\ strayed' = strayed
    BY <1>2 DEF FieldReply, Fielding, Type, Ours, TypeOK, remote
  <2>2. /\ ~Without(line_in)
        /\ \A r : WithOne(line_in, r) => Head(line_in).of = r
    BY <2>1, TailOfLine
  <2>3. ~strayed => Head(line_in).of = Head(j_queue)
    BY <2>1, <2>2 DEF OneOutstanding
  <2>4. QED
    BY <1>0, <2>1, <2>3, JobAssumption DEF OwnReply
<1>3. CASE FieldReturn
  BY <1>0, <1>3 DEF FieldReturn, OwnReply
<1>4. CASE Finish
  <2>1. CASE j_state = "DONE"
    <3>1. outcome' = [r \in Requests |-> IF r \in Queued THEN "disconnected" ELSE outcome[r]]
      BY <1>4, <2>1 DEF Finish
    <3>2. QED
      BY <1>0, <3>1, JobAssumption DEF OwnReply
  <2>2. CASE j_state # "DONE"
    BY <1>0, <1>4, <2>2 DEF Finish, OwnReply
  <2>3. QED
    BY <2>1, <2>2
<1>5. CASE ~(\E r \in Requests : Submit(r)) /\ ~FieldReply /\ ~FieldReturn /\ ~Finish
  <2>1. UNCHANGED outcome
    BY <1>5, QuietStep
  <2>2. QED
    BY <1>0, <2>1 DEF OwnReply
<1>6. QED
  BY <1>1, <1>2, <1>3, <1>4, <1>5

\* What a requester or the holder of the halt notice was told stays.
LEMMA WokenStep ==
    ASSUME TypeOK, NobodyForgotten, Next
    PROVE  /\ \A r \in Requests : outcome[r] \notin {"idle", "waiting"} => outcome'[r] = outcome[r]
           /\ j_halt = "woken" => j_halt' = "woken"
<1>0. outcome \in [Requests -> {"idle", "waiting", "disconnected", "stray"} \cup Requests]
  BY DEF TypeOK
<1>1. ASSUME NEW r \in Requests, Submit(r)
      PROVE  /\ \A x \in Requests : outcome[x] \notin {"idle", "waiting"} => outcome'[x] = outcome[x]
             /\ j_halt' = j_halt
  BY <1>0, <1>1 DEF Submit
<1>2. ASSUME FieldReply
      PROVE  /\ \A x \in Requests : outcome[x] \notin {"idle", "waiting"} => outcome'[x] = outcome[x]
             /\ j_halt' = j_halt
  <2>1. outcome[Head(j_queue)] = "waiting" /\ Head(j_queue) \in Requests
    BY <1>2, QueueTail DEF FieldReply
  <2>2. QED
    BY <1>0, <1>2, <2>1 DEF FieldReply
<1>3. ASSUME FieldReturn PROVE outcome' = outcome /\ (j_halt = "woken" => j_halt' = "woken")
  BY <1>3 DEF FieldReturn
<1>4. ASSUME Finish
      PROVE  /\ \A x \in Requests : outcome[x] \notin {"idle", "waiting"} => outcome'[x] = outcome[x]
             /\ j_halt = "woken" => j_halt' = "woken"
  BY <1>0, <1>4 DEF Finish, NobodyForgotten, job
<1>5. CASE ~(\E r \in Requests : Submit(r)) /\ ~FieldReply /\ ~FieldReturn /\ ~Finish
  BY <1>5, QuietStep
<1>6. QED
  BY <1>1, <1>2, <1>3, <1>4, <1>5

\* The loop goes through its stages in order, and sleeps only when there is
\* nothing left to do.
LEMMA IdleStep ==
    ASSUME TypeOK, Rests, Idle, Next
    PROVE  Idle'
<1> USE DEF Idle, SleepsOnlyIdle, Flushing, job, line, sets, remote
<1>1. CASE PeerNext
  BY <1>1 DEF PeerNext, PeerConnect, PeerHandle, PeerClose, ChildExit, PeerSend
<1>2. ASSUME NEW r \in Requests, Submit(r) PROVE Idle'
  <2>1. /\ j_sendr' = 1 /\ (line_out # << >> => line_out' # << >>)
        /\ pc' = pc /\ pc \in {"ready", "load"}
    BY <1>2 DEF Submit, IssueRequest, Outside, TypeOK
  <2>2. UNCHANGED <<j_state, j_pid, j_recvr, child, line_in, pc>>
    BY <1>2 DEF Submit
  <2>3. QED
    BY <2>1, <2>2
<1>3. CASE Zap
  BY <1>3 DEF Zap
<1>4. CASE Acknowledge
  <2>1. Answer \in OutMessage /\ line_out \in Seq(OutMessage)
    BY DEF Answer, OutMessage, TypeOK
  <2>2. Append(line_out, Answer) # << >>
    BY <2>1
  <2>3. QED
    BY <1>4, <2>2 DEF Acknowledge
<1>5. CASE LoadJobs
  <2>1. /\ UNCHANGED <<job, line, child>> /\ pc = "load" /\ pc' = "select"
        /\ j_state # "DELETED" /\ j_recvr = 0
    BY <1>5 DEF LoadJobs
  <2>2. j_state \in {"PRE", "UP", "DRAIN", "WAIT"}
    BY <2>1 DEF TypeOK
  <2>3. /\ j_state \in {"PRE", "DRAIN"} => writeset'
        /\ j_state = "UP" => readset' /\ (line_in # << >> => writeset')
    <3>1. /\ readset' = (j_state = "UP")
          /\ writeset' = (j_state = "PRE" \/ (j_state \in {"UP", "POST", "DRAIN"} /\ Flushing))
      BY <1>5, Zenon DEF LoadJobs
    <3>2. /\ j_state = "DRAIN" => Flushing
          /\ j_state = "UP" /\ line_in # << >> => Flushing
      BY <2>1
    <3>3. QED
      BY <3>1, <3>2, Zenon
  <2>4. /\ j_queue # << >> => j_sendr = 1
        /\ j_state = "WAIT" => j_pid /\ child \in {"running", "exited"}
    BY Zenon
  <2>5. UNCHANGED <<j_state, j_pid, j_queue, j_sendr, line_in, line_out, j_recvr, child>>
    BY <2>1
  <2>6. SleepsOnlyIdle'
    BY <2>2, <2>3, <2>4, <2>5, Zenon
  <2>7. pc' = "select" /\ j_state # "POST" /\ j_state # "DONE"
    BY <2>1, <2>2
  <2> HIDE DEF SleepsOnlyIdle
  <2>8. QED
    BY <2>5, <2>6, <2>7
<1>6. CASE Select \/ SelectOther \/ WaitJobs \/ EndedJobs
  <2>1. CASE Select
    BY <2>1 DEF Select
  <2>2. CASE SelectOther
    BY <2>2 DEF SelectOther
  <2>3. CASE WaitJobs
    BY <2>3 DEF WaitJobs
  <2>4. CASE EndedJobs
    BY <2>4 DEF EndedJobs
  <2>5. QED
    BY <1>6, <2>1, <2>2, <2>3, <2>4
<1>7. CASE Connect
  BY <1>7 DEF Connect
<1>8. CASE ReadSkip \/ ReadData \/ ReadEnd \/ ReadError
  BY <1>8 DEF ReadSkip, ReadData, ReadEnd, ReadError
<1>9. CASE FieldReply
  <2>1. j_queue' # << >> => j_sendr' = 1
    BY <1>9 DEF FieldReply, IssueRequest, TypeOK
  <2>2. UNCHANGED <<j_state, j_pid, child, pc>> /\ pc = "field"
    BY <1>9 DEF FieldReply, Fielding
  <2>3. QED
    BY <2>1, <2>2
<1>10. CASE FieldSpurious \/ FieldReturn
  BY <1>10 DEF FieldSpurious, FieldReturn, Fielding
<1>11. CASE FieldRequest
  BY <1>11 DEF FieldRequest, Fielding
<1>12. CASE FieldEnd
  BY <1>12 DEF FieldEnd, Fielding
<1>13. CASE WriteSkip
  BY <1>13 DEF WriteSkip, Drained
<1>14. CASE WriteData
  BY <1>14 DEF WriteData, Drained
<1>15. CASE WriteError
  BY <1>15 DEF WriteError
<1>16. CASE Finish
  BY <1>16 DEF Finish
<1>17. QED
  BY <1>1, <1>2, <1>3, <1>4, <1>5, <1>6, <1>7, <1>8, <1>9, <1>10, <1>11, <1>12, <1>13, <1>14,
     <1>15, <1>16 DEF Next, RunNext

-----------------------------------------------------------------------------

\* The invariant holds from the start and in every step.
THEOREM JobInvariant == Spec => []Inv
<1>1. Init => Inv
  <2> SUFFICES ASSUME Init PROVE Inv
    OBVIOUS
  <2>0. /\ j_state \in {"PRE", "UP"} /\ j_pid \in BOOLEAN
        /\ peer \in {"connecting", "open"} /\ child \in {"none", "running"}
    BY Zenon DEF Init
  <2>1. TypeOK /\ Rests
    <3>1. readset \in BOOLEAN /\ writeset \in BOOLEAN /\ strayed \in BOOLEAN
      BY DEF Init
    <3>2. /\ j_halt \in {"none", "held", "woken"} /\ budget \in 0 .. Budget
          /\ outcome \in [Requests -> {"idle", "waiting", "disconnected", "stray"} \cup Requests]
      BY JobAssumption DEF Init
    <3>3. /\ j_queue \in Seq(Requests) /\ line_out \in Seq(OutMessage) /\ line_in \in Seq(InMessage)
          /\ peer_in \in Seq(OutMessage) /\ peer_out \in Seq(InMessage)
          /\ j_sendr \in 0 .. 1 /\ j_recvr \in 0 .. 1 /\ pc = "load"
      BY DEF Init
    <3>4. QED
      BY <2>0, <3>1, <3>2, <3>3 DEF TypeOK, Rests
  <2>2. OneOutstanding
    BY DEF Init, OneOutstanding, Without
  <2>3. OwnReply /\ NobodyForgotten
    BY JobAssumption DEF Init, OwnReply, NobodyForgotten, Queued
  <2>4. Idle
    BY Zenon DEF Init, Idle, SleepsOnlyIdle
  <2>5. QED
    BY <2>1, <2>2, <2>3, <2>4 DEF Inv
<1>2. Inv /\ [Next]_vars => Inv'
  <2> SUFFICES ASSUME Inv, [Next]_vars PROVE Inv'
    OBVIOUS
  <2>1. CASE Next
    BY <2>1, TypeStep, RestsStep, OutstandingStep, OwnStep, ForgottenStep, IdleStep DEF Inv
  <2>2. CASE UNCHANGED vars
    <3> USE <2>2 DEF vars, job, line, sets, remote
    <3>1. TypeOK'
      BY DEF Inv, TypeOK
    <3>2. Rests' /\ OneOutstanding'
      BY DEF Inv, Rests, OneOutstanding
    <3>3. OwnReply' /\ NobodyForgotten'
      BY DEF Inv, OwnReply, NobodyForgotten, Queued
    <3>4. Idle'
      BY DEF Inv, Idle, SleepsOnlyIdle, Flushing
    <3>5. QED
      BY <3>1, <3>2, <3>3, <3>4 DEF Inv
  <2>3. QED
    BY <2>1, <2>2
<1>3. QED
  BY <1>1, <1>2, PTL DEF Spec

\* Counters, queues and lines stay what they are meant to be.
THEOREM JobTypeCorrect == Spec => []TypeOK
BY JobInvariant, PTL DEF Inv

\* A job never has two requests on their way to a peer that answers what it
\* is asked (issue_request_job_katcp, field_job_katcp).
THEOREM JobOneOutstanding == Spec => []OneOutstanding
BY JobInvariant, PTL DEF Inv

\* Whatever is queued and whenever it is sent, the reply that wakes a
\* requester is the one to its own request (field_job_katcp).
THEOREM JobOwnReply == Spec => []OwnReply
BY JobInvariant, PTL DEF Inv

\* Nobody waits for a job that is deleted (run_jobs_katcp).
THEOREM JobNobodyForgotten == Spec => []NobodyForgotten
BY JobInvariant, PTL DEF Inv

\* The loop does not sleep while the job could go on: nothing is left that
\* only some other event would bring it back to (load_jobs_katcp,
\* run_jobs_katcp).
THEOREM JobSleeps == Spec => []SleepsOnlyIdle
BY JobInvariant, PTL DEF Inv, Idle

\* Requesters and the holder of the halt notice are woken once.
THEOREM JobWokenOnce == Spec => WokenOnce
<1>1. Inv /\ [Next]_vars =>
        [/\ \A r \in Requests : outcome[r] \notin {"idle", "waiting"} => outcome'[r] = outcome[r]
         /\ j_halt = "woken" => j_halt' = "woken"]_vars
  BY WokenStep DEF Inv
<1>2. QED
  BY <1>1, JobInvariant, PTL DEF Spec, WokenOnce

=============================================================================
