--------------------------- MODULE AgentRun_proofs ---------------------------
(***************************************************************************)
(* For batches of any length and any number of turns: the transcript of an *)
(* agent is closed whenever a model call is made on it, what its file holds *)
(* can always be resumed, and a turn that ends with its own outcome has     *)
(* stored its messages.                                                    *)
(*                                                                         *)
(* The argument is about one calling message, the last one: whatever       *)
(* happened, the results behind it are a beginning of those it asks for    *)
(* (PartlyClosed), so that the calls without one are an end of its calls,   *)
(* and appending results for these closes the transcript.                  *)
(***************************************************************************)
EXTENDS AgentRun, Integers, SequenceTheorems, FiniteSetTheorems, NaturalsInduction,
        WellFoundedInduction, TLAPS

(***************************************************************************)
(* Numbers and sets of positions.                                          *)
(***************************************************************************)

LEMMA LeastNat ==
    ASSUME NEW S \in SUBSET Nat, S # {}
    PROVE  \E n \in S : \A k \in S : n <= k
<1> DEFINE R == {p \in Nat \X Nat : p[1] < p[2]}
<1>1. IsWellFoundedOn(R, Nat)
  BY NatLessThanWellFounded DEF OpToRel
<1>2. \A a \in Nat, b \in Nat : a < b => <<a, b>> \in R
  OBVIOUS
<1> HIDE DEF R
<1>3. PICK n \in S : \A k \in S : ~ (<<k, n>> \in R)
  BY <1>1, WFMin
<1>4. n \in Nat /\ \A k \in S : k \in Nat /\ ~ (k < n)
  BY <1>2, <1>3
<1> QED BY <1>4

LEMMA GreatestPosition ==
    ASSUME NEW n \in Nat, NEW S \in SUBSET (1..n), S # {}
    PROVE  \E i \in S : \A j \in S : j <= i
<1> DEFINE T == {k \in Nat : \A j \in S : j <= k}
<1>1. n \in T
  OBVIOUS
<1>2. PICK t \in T : \A k \in T : t <= k
  BY <1>1, LeastNat
<1>3. t \in S
  <2> SUFFICES ASSUME t \notin S PROVE FALSE
    OBVIOUS
  <2>1. \A j \in S : j \in Nat /\ j >= 1 /\ j <= t /\ j # t
    BY <1>2
  <2>2. t >= 1 /\ t \in Nat
    <3>1. PICK j \in S : TRUE
      OBVIOUS
    <3> QED BY <1>2, <2>1, <3>1
  <2>3. t - 1 \in T
    BY <2>1, <2>2
  <2> QED BY <1>2, <2>2, <2>3
<1> QED BY <1>2, <1>3

\* The elements of an interval below one of them.
LEMMA IntervalBelow ==
    ASSUME NEW n \in Nat, NEW l \in Nat, NEW c \in n+1..l
    PROVE  Cardinality({d \in n+1..l : d < c}) = c - 1 - n
<1>1. {d \in n+1..l : d < c} = n+1..c-1
  OBVIOUS
<1>2. Cardinality(n+1..c-1) = IF n+1 > c-1 THEN 0 ELSE c-1-(n+1)+1
  BY FS_Interval
<1>3. Cardinality({d \in n+1..l : d < c}) = Cardinality(n+1..c-1)
  BY <1>1
<1>4. c \in Int /\ n+1 <= c
  OBVIOUS
<1> HIDE <1>1
<1> QED BY <1>2, <1>3, <1>4

(***************************************************************************)
(* Messages.                                                               *)
(***************************************************************************)

LEMMA PlanIsSeq ==
    ASSUME NEW plan \in CallPlans
    PROVE  /\ Len(plan) \in Nat /\ DOMAIN plan = 1..Len(plan)
           /\ plan = <<>> <=> Len(plan) = 0
<1> DEFINE S == UNION {{plan[i] : i \in DOMAIN plan}}
<1>1. plan \in Seq(S)
  BY AgentAssumption DEF AgentAssumption
<1> HIDE DEF S
<1> QED BY <1>1, EmptySeq, LenProperties

LEMMA MessageShape ==
    /\ User \in Messages /\ User.role = "user" /\ User.calls = <<>>
    /\ \A plan \in CallPlans :
         Assistant(plan) \in Messages /\ Assistant(plan).role = "assistant"
                                      /\ Assistant(plan).calls = plan
    /\ \A call, own : /\ Answers(ToolResult(call, own), call)
                      /\ ToolResult(call, own).calls = <<>>
                      /\ ToolResult(call, own).call = call
                      /\ ToolResult(call, own).own = own
    /\ \A plan \in CallPlans : \A call \in DOMAIN plan :
         \A own \in BOOLEAN : ToolResult(call, own) \in Messages
    /\ \A msg \in Messages :
         /\ msg.calls \in CallPlans
         /\ msg.role \in {"user", "assistant", "tool"}
         /\ msg.role # "assistant" => msg.calls = <<>>
         /\ msg.own \in BOOLEAN
         /\ msg.role # "tool" => msg.own = FALSE
<1>1. <<>> \in CallPlans
  BY AgentAssumption DEF AgentAssumption
<1>2. User \in Messages /\ User.role = "user" /\ User.calls = <<>>
  BY DEF Messages, User, Message
<1>3. ASSUME NEW plan \in CallPlans
      PROVE  Assistant(plan) \in Messages /\ Assistant(plan).role = "assistant"
                                          /\ Assistant(plan).calls = plan
  <2>1. Assistant(plan) \in Messages
    BY DEF Messages
  <2>2. Assistant(plan).role = "assistant" /\ Assistant(plan).calls = plan
    BY DEF Assistant, Message
  <2> QED BY <2>1, <2>2
<1>4. ASSUME NEW call, NEW own
      PROVE  /\ Answers(ToolResult(call, own), call)
             /\ ToolResult(call, own).calls = <<>>
             /\ ToolResult(call, own).call = call
             /\ ToolResult(call, own).own = own
  BY DEF ToolResult, Message, Answers
<1>5. ASSUME NEW plan \in CallPlans, NEW call \in DOMAIN plan, NEW own \in BOOLEAN
      PROVE  ToolResult(call, own) \in Messages
  <2>1. call \in UNION {DOMAIN p : p \in CallPlans}
    OBVIOUS
  <2>2. ToolResult(call, own) \in {ToolResult(call, TRUE), StandIn(call)}
    BY DEF StandIn
  <2> QED BY <2>1, <2>2 DEF Messages
<1>6. ASSUME NEW msg \in Messages
      PROVE  /\ msg.calls \in CallPlans
             /\ msg.role \in {"user", "assistant", "tool"}
             /\ msg.role # "assistant" => msg.calls = <<>>
             /\ msg.own \in BOOLEAN
             /\ msg.role # "tool" => msg.own = FALSE
  <2>1. CASE msg = User
    BY <1>1, <2>1 DEF User, Message
  <2>2. CASE \E plan \in CallPlans : msg = Assistant(plan)
    BY <2>2 DEF Assistant, Message
  <2>3. CASE \E call : \E own \in BOOLEAN : msg = ToolResult(call, own)
    BY <1>1, <2>3 DEF ToolResult, Message
  <2>4. \/ msg = User
        \/ \E plan \in CallPlans : msg = Assistant(plan)
        \/ \E call : \E own \in BOOLEAN : msg = ToolResult(call, own)
    BY DEF Messages, StandIn
  <2> QED BY <2>1, <2>2, <2>3, <2>4
<1> QED BY <1>2, <1>3, <1>4, <1>5, <1>6

LEMMA CallsOf ==
    ASSUME NEW msg \in Messages
    PROVE  /\ Len(msg.calls) \in Nat /\ DOMAIN msg.calls = 1..Len(msg.calls)
           /\ msg.calls = <<>> <=> Len(msg.calls) = 0
<1>1. msg.calls \in CallPlans
  BY MessageShape
<1> QED BY <1>1, PlanIsSeq

LEMMA AnswerShape ==
    ASSUME NEW msg \in Messages, NEW call, Answers(msg, call)
    PROVE  msg.role = "tool" /\ msg.call = call /\ msg.calls = <<>>
BY MessageShape DEF Answers

LEMMA CallOfResult ==
    ASSUME NEW msg \in Messages, msg.role = "tool"
    PROVE  msg.call \in Nat /\ msg.call >= 1
<1>1. \E plan \in CallPlans : msg.call \in DOMAIN plan
  <2>1. msg # User /\ \A plan \in CallPlans : msg # Assistant(plan)
    BY DEF User, Assistant, Message
  <2>2. PICK call \in UNION {DOMAIN plan : plan \in CallPlans} :
          msg \in {ToolResult(call, TRUE), StandIn(call)}
    BY <2>1 DEF Messages
  <2>3. msg.call = call
    BY <2>2 DEF StandIn, ToolResult, Message
  <2> QED BY <2>2, <2>3
<1> QED BY <1>1, PlanIsSeq

LEMMA LastCallerIsLast ==
    ASSUME NEW m \in Seq(Messages), Callers(m) # {}
    PROVE  /\ LastCaller(m) \in 1..Len(m)
           /\ m[LastCaller(m)] \in Messages
           /\ m[LastCaller(m)].calls # <<>>
           /\ \A j \in 1..Len(m) : m[j].calls # <<>> => j <= LastCaller(m)
<1>1. Len(m) \in Nat /\ Callers(m) \in SUBSET (1..Len(m))
  BY LenProperties DEF Callers
<1>2. \E i \in Callers(m) : \A j \in Callers(m) : j <= i
  BY <1>1, GreatestPosition
<1>3. LastCaller(m) \in Callers(m) /\ \A j \in Callers(m) : j <= LastCaller(m)
  BY <1>2 DEF LastCaller
<1>4. DOMAIN m = 1..Len(m)
  BY LenProperties
<1> QED BY <1>1, <1>3, <1>4, ElementOfSeq DEF Callers

(***************************************************************************)
(* Transcripts.  PartlyClosed is Closed without the promise that the       *)
(* results of the last calling message are all there yet.                  *)
(***************************************************************************)

PartlyClosed(m) ==
    /\ \A i \in DOMAIN m : \A k \in DOMAIN m[i].calls :
         i + k \in DOMAIN m => Answers(m[i + k], k)
    /\ \A i \in DOMAIN m : m[i].role = "tool" =>
         m[i].call < i /\ m[i].call \in DOMAIN m[i - m[i].call].calls

\* How many calls of the last calling message have their results.
Done(m) ==
    IF Len(m) - LastCaller(m) < Len(m[LastCaller(m)].calls)
    THEN Len(m) - LastCaller(m) ELSE Len(m[LastCaller(m)].calls)

LEMMA ClosedIsPartlyClosed ==
    ASSUME NEW m \in Seq(Messages)
    PROVE  Closed(m) <=> /\ PartlyClosed(m)
                         /\ \A i \in DOMAIN m : \A k \in DOMAIN m[i].calls : i + k \in DOMAIN m
BY DEF Closed, PartlyClosed

\* What follows a calling message by less than its calls are not calling messages.
LEMMA ResultIsNoCaller ==
    ASSUME NEW m \in Seq(Messages), PartlyClosed(m),
           NEW i \in 1..Len(m), NEW j \in 1..Len(m),
           i < j, j - i \in DOMAIN m[i].calls
    PROVE  Answers(m[j], j - i) /\ m[j].calls = <<>> /\ m[j].role = "tool"
<1>1. DOMAIN m = 1..Len(m) /\ i + (j - i) = j
  BY LenProperties
<1>2. Answers(m[i + (j - i)], j - i)
  BY <1>1 DEF PartlyClosed
<1>3. m[j] \in Messages
  BY ElementOfSeq
<1> QED BY <1>1, <1>2, <1>3, AnswerShape

LEMMA LastCallerAnswered ==
    ASSUME NEW m \in Seq(Messages), PartlyClosed(m), Callers(m) # {}
    PROVE  /\ Done(m) \in 0..Len(m[LastCaller(m)].calls)
           /\ Open(m) = Done(m)+1..Len(m[LastCaller(m)].calls)
           /\ Done(m) < Len(m[LastCaller(m)].calls) => Len(m) = LastCaller(m) + Done(m)
<1> DEFINE c == LastCaller(m)
           L == Len(m[c].calls)
           d == Done(m)
<1>1. /\ c \in 1..Len(m) /\ m[c] \in Messages /\ m[c].calls # <<>>
      /\ \A j \in 1..Len(m) : m[j].calls # <<>> => j <= c
  BY LastCallerIsLast
<1>2. Len(m) \in Nat /\ DOMAIN m = 1..Len(m)
  BY LenProperties
<1>3. L \in Nat /\ DOMAIN m[c].calls = 1..L
  BY <1>1, CallsOf
<1>4. /\ d \in 0..L /\ d <= Len(m) - c
      /\ d < L => Len(m) = c + d
  BY <1>1, <1>2, <1>3 DEF Done
<1>5. Answered(m) \cap (1..L) = 1..d
  <2>1. ASSUME NEW k \in 1..d PROVE k \in Answered(m)
    <3>1. c + k \in c+1..Len(m) /\ c + k \in 1..Len(m) /\ k \in 1..L
      BY <1>1, <1>2, <1>3, <1>4
    <3>2. Answers(m[c + k], k)
      BY <1>1, <1>2, <1>3, <3>1 DEF PartlyClosed
    <3>3. m[c + k].role = "tool" /\ m[c + k].call = k
      BY <3>2 DEF Answers
    <3> QED BY <3>1, <3>3 DEF Answered
  <2>2. ASSUME NEW x \in Answered(m), x \in 1..L PROVE x \in 1..d
    <3>1. PICK k \in c+1..Len(m) : m[k].role = "tool" /\ m[k].call = x
      BY DEF Answered
    <3>2. k \in 1..Len(m) /\ k > c /\ k \in Nat /\ c \in Nat
      BY <1>1, <1>2
    <3>3. x < k /\ x \in DOMAIN m[k - x].calls
      BY <3>1, <3>2, <1>2 DEF PartlyClosed
    <3>4. k - x \in 1..Len(m) /\ x \in Nat /\ x >= 1
      BY <2>2, <3>2, <3>3, <1>3, <1>2
    <3>5. m[k - x] \in Messages
      BY <3>4, ElementOfSeq
    <3>6. m[k - x].calls # <<>> /\ DOMAIN m[k - x].calls = 1..Len(m[k - x].calls)
          /\ Len(m[k - x].calls) \in Nat
      BY <3>3, <3>5, CallsOf
    <3>7. k - x <= c
      BY <1>1, <3>4, <3>6
    <3>8. k - x = c
      <4> SUFFICES ASSUME k - x < c PROVE FALSE
        BY <3>7, <3>4, <3>2
      <4>1. c - (k - x) \in 1..Len(m[k - x].calls)
        BY <3>2, <3>3, <3>4, <3>6
      <4>2. m[c].calls = <<>>
        BY <1>1, <3>4, <3>6, <4>1, ResultIsNoCaller
      <4> QED BY <4>2, <1>1
    <3>9. c \in Nat /\ L \in Nat /\ d \in Nat /\ Len(m) \in Nat
          /\ x \in Nat /\ k \in Nat /\ k <= Len(m) /\ x <= L
      BY <1>1, <1>2, <1>3, <1>4, <2>2, <3>1, <3>2
    <3> HIDE DEF c, L, d
    <3> QED BY <3>4, <3>8, <3>9, <1>4
  <2> QED BY <2>1, <2>2, <1>3, <1>4
<1>6. Open(m) = (1..L) \ Answered(m)
  BY <1>3 DEF Open
<1>7. Open(m) = d+1..L
  BY <1>5, <1>6, <1>4, <1>3
<1> QED BY <1>4, <1>7

LEMMA MissingCalls ==
    ASSUME NEW m \in Seq(Messages), PartlyClosed(m), Callers(m) # {}
    PROVE  /\ DOMAIN Missing(m) = 1..Len(m[LastCaller(m)].calls) - Done(m)
           /\ \A k \in DOMAIN Missing(m) : Missing(m)[k] = Done(m) + k
<1> DEFINE L == Len(m[LastCaller(m)].calls)
           d == Done(m)
<1>1. d \in 0..L /\ Open(m) = d+1..L
  BY LastCallerAnswered
<1>2. L \in Nat /\ d \in Nat
  BY <1>1, LastCallerIsLast, CallsOf
<1> HIDE DEF L, d
<1>3. Cardinality(Open(m)) = L - d
  <2>1. Cardinality(d+1..L) = IF d+1 > L THEN 0 ELSE L-(d+1)+1
    BY <1>2, FS_Interval
  <2>2. d <= L
    BY <1>1
  <2>3. Cardinality(Open(m)) = Cardinality(d+1..L)
    BY <1>1
  <2> QED BY <1>2, <2>1, <2>2, <2>3
<1>4. ASSUME NEW k \in 1..L - d
      PROVE  (CHOOSE call \in Open(m) : Cardinality({c \in Open(m) : c < call}) = k - 1) = d + k
  <2>1. \A call \in Open(m) : Cardinality({c \in Open(m) : c < call}) = call - 1 - d
    BY <1>1, <1>2, IntervalBelow
  <2>2. d + k \in Open(m)
    BY <1>1, <1>2
  <2>3. \A call \in Open(m) : call \in Int
    BY <1>1, <1>2
  <2>4. \A call \in Open(m) :
          Cardinality({c \in Open(m) : c < call}) = k - 1 <=> call = d + k
    <3> TAKE call \in Open(m)
    <3> DEFINE below == Cardinality({c \in Open(m) : c < call})
    <3>1. below = call - 1 - d /\ call \in Int /\ k \in Int
      BY <2>1, <2>3, <1>2
    <3> HIDE DEF below
    <3>2. below = k - 1 <=> call = d + k
      BY <3>1, <1>2
    <3> QED BY <3>2 DEF below
  <2> QED BY <2>2, <2>4
<1>5. Missing(m) = [k \in 1..L - d |->
                      CHOOSE call \in Open(m) : Cardinality({c \in Open(m) : c < call}) = k - 1]
  BY <1>3 DEF Missing
<1> QED BY <1>4, <1>5 DEF L, d

LEMMA ResultsExtend ==
    ASSUME NEW m \in Seq(Messages), PartlyClosed(m), Callers(m) # {},
           NEW e \in Seq(Messages), Len(m) <= Len(e),
           \A i \in 1..Len(m) : e[i] = m[i],
           \A i \in Len(m)+1..Len(e) : /\ Answers(e[i], i - LastCaller(m))
                                       /\ i - LastCaller(m) \in DOMAIN m[LastCaller(m)].calls
    PROVE  PartlyClosed(e) /\ Callers(e) # {}
<1> DEFINE c == LastCaller(m)
<1>1. /\ c \in 1..Len(m) /\ m[c] \in Messages /\ m[c].calls # <<>>
      /\ \A j \in 1..Len(m) : m[j].calls # <<>> => j <= c
  BY LastCallerIsLast
<1>2. /\ Len(m) \in Nat /\ DOMAIN m = 1..Len(m)
      /\ Len(e) \in Nat /\ DOMAIN e = 1..Len(e)
  BY LenProperties
<1>3. \A i \in Len(m)+1..Len(e) : Answers(e[i], i - c) /\ i - c \in DOMAIN m[c].calls
  OBVIOUS
<1> HIDE DEF c
<1>4. ASSUME NEW i \in 1..Len(e), NEW k \in DOMAIN e[i].calls, i + k \in 1..Len(e)
      PROVE  Answers(e[i + k], k)
  <2>1. e[i] \in Messages
    BY ElementOfSeq
  <2>2. Len(e[i].calls) \in Nat /\ DOMAIN e[i].calls = 1..Len(e[i].calls) /\ e[i].calls # <<>>
    BY <2>1, CallsOf
  <2>3. i <= Len(m)
    <3> SUFFICES ASSUME i > Len(m) PROVE FALSE
      BY <1>2
    <3>1. Answers(e[i], i - c)
      BY <1>2, <1>3
    <3> QED BY <3>1, <2>1, <2>2, AnswerShape
  <2>4. e[i] = m[i] /\ i \in 1..Len(m) /\ k \in Nat /\ k >= 1 /\ i <= c
    BY <1>1, <1>2, <2>2, <2>3
  <2>5. CASE i + k <= Len(m)
    <3>1. i + k \in 1..Len(m) /\ k \in DOMAIN m[i].calls
      BY <2>4, <2>5, <1>2
    <3>2. Answers(m[i + k], k)
      BY <2>4, <3>1, <1>2 DEF PartlyClosed
    <3>3. e[i + k] = m[i + k]
      BY <3>1
    <3> QED BY <3>2, <3>3
  <2>6. CASE i + k > Len(m)
    <3>1. i = c
      <4> SUFFICES ASSUME i < c PROVE FALSE
        BY <1>1, <2>4
      <4>1. c - i \in DOMAIN m[i].calls
        BY <1>1, <1>2, <2>2, <2>4, <2>6
      <4> QED BY <1>1, <2>4, <4>1, ResultIsNoCaller
    <3>2. Answers(e[i + k], (i + k) - c)
      <4>1. i + k \in Len(m)+1..Len(e)
        BY <1>2, <2>4, <2>6, <1>4
      <4> QED BY <4>1, <1>3
    <3>3. (i + k) - c = k
      BY <3>1, <2>4
    <3> QED BY <3>2, <3>3
  <2> QED BY <2>4, <2>5, <2>6, <1>2
<1>5. ASSUME NEW i \in 1..Len(e), e[i].role = "tool"
      PROVE  e[i].call < i /\ e[i].call \in DOMAIN e[i - e[i].call].calls
  <2>1. CASE i <= Len(m)
    <3>1. e[i] = m[i] /\ i \in 1..Len(m)
      BY <2>1, <1>2
    <3>2. m[i].call < i /\ m[i].call \in DOMAIN m[i - m[i].call].calls
      BY <3>1, <1>2, <1>5 DEF PartlyClosed
    <3>3. m[i].call \in Nat /\ m[i].call >= 1
      <4>1. m[i] \in Messages /\ m[i].role = "tool"
        BY <3>1, <1>5, ElementOfSeq
      <4> QED BY <4>1, CallOfResult
    <3>4. i - m[i].call \in 1..Len(m)
      BY <3>1, <3>2, <3>3, <1>2
    <3>5. e[i - m[i].call] = m[i - m[i].call]
      BY <3>4
    <3> QED BY <3>1, <3>2, <3>5
  <2>2. CASE i > Len(m)
    <3>1. Answers(e[i], i - c) /\ i - c \in DOMAIN m[c].calls
      BY <2>2, <1>2, <1>3
    <3>2. e[i].call = i - c
      BY <3>1 DEF Answers
    <3>3. i - (i - c) = c /\ i - c < i /\ e[c] = m[c]
      BY <1>1, <1>2
    <3> QED BY <3>1, <3>2, <3>3
  <2> QED BY <2>1, <2>2, <1>2
<1>6. PartlyClosed(e)
  BY <1>2, <1>4, <1>5 DEF PartlyClosed
<1>7. c \in Callers(e)
  BY <1>1, <1>2 DEF Callers
<1> QED BY <1>6, <1>7

\* A turn's transcript whose batch has all of its results is closed.
LEMMA NothingMissing ==
    ASSUME NEW m \in Seq(Messages), PartlyClosed(m), Callers(m) # {}, Missing(m) = <<>>
    PROVE  Closed(m)
<1> DEFINE c == LastCaller(m)
           L == Len(m[c].calls)
<1>1. /\ c \in 1..Len(m) /\ m[c] \in Messages /\ m[c].calls # <<>>
      /\ \A j \in 1..Len(m) : m[j].calls # <<>> => j <= c
  BY LastCallerIsLast
<1>2. Len(m) \in Nat /\ DOMAIN m = 1..Len(m)
  BY LenProperties
<1>3. L \in Nat /\ DOMAIN m[c].calls = 1..L
  BY <1>1, CallsOf
<1>4. Done(m) = L
  <2>1. DOMAIN Missing(m) = {}
    BY EmptySeq
  <2>2. 1..L - Done(m) = {} /\ Done(m) \in 0..L
    BY <2>1, MissingCalls, LastCallerAnswered
  <2> QED
    <3> SUFFICES ASSUME Done(m) < L PROVE FALSE
      BY <2>2, <1>3
    <3>1. 1 \in 1..L - Done(m)
      BY <2>2, <1>3
    <3> QED BY <2>2, <3>1
<1>5. c + L <= Len(m)
  BY <1>1, <1>2, <1>3, <1>4 DEF Done
<1>6. ASSUME NEW i \in 1..Len(m), NEW k \in DOMAIN m[i].calls
      PROVE  i + k \in 1..Len(m)
  <2>1. m[i] \in Messages
    BY ElementOfSeq
  <2>2. Len(m[i].calls) \in Nat /\ DOMAIN m[i].calls = 1..Len(m[i].calls) /\ m[i].calls # <<>>
    BY <2>1, CallsOf
  <2>3. i <= c
    BY <1>1, <2>2
  <2>4. CASE i = c
    BY <2>2, <2>4, <1>2, <1>3, <1>5
  <2>5. CASE i < c /\ i + k >= c
    <3>1. c - i \in DOMAIN m[i].calls
      BY <1>1, <2>2, <2>5
    <3> QED BY <3>1, <1>1, <2>5, ResultIsNoCaller
  <2>6. CASE i + k < c
    BY <1>1, <1>2, <2>2, <2>6
  <2> QED BY <2>2, <2>3, <2>4, <2>5, <2>6, <1>1
<1> QED BY <1>2, <1>6, ClosedIsPartlyClosed

\* The next result goes where the batch wants it.
LEMMA AppendResult ==
    ASSUME NEW m \in Seq(Messages), PartlyClosed(m), Callers(m) # {}, Missing(m) # <<>>,
           NEW own \in BOOLEAN
    PROVE  /\ ToolResult(Head(Missing(m)), own) \in Messages
           /\ Head(Missing(m)) \in DOMAIN m[LastCaller(m)].calls
           /\ Append(m, ToolResult(Head(Missing(m)), own)) \in Seq(Messages)
           /\ PartlyClosed(Append(m, ToolResult(Head(Missing(m)), own)))
           /\ Callers(Append(m, ToolResult(Head(Missing(m)), own))) # {}
<1> DEFINE c == LastCaller(m)
           L == Len(m[c].calls)
           e == Append(m, ToolResult(Head(Missing(m)), own))
<1>1. c \in 1..Len(m) /\ m[c] \in Messages
  BY LastCallerIsLast
<1>2. Len(m) \in Nat
  BY LenProperties
<1>3. L \in Nat /\ DOMAIN m[c].calls = 1..L /\ m[c].calls \in CallPlans
  BY <1>1, CallsOf, MessageShape
<1>4. Done(m) \in 0..L /\ 1 \in DOMAIN Missing(m) /\ Done(m) < L
  <2>1. Missing(m) = [k \in 1..L - Done(m) |-> Done(m) + k] /\ Done(m) \in 0..L
    BY MissingCalls, LastCallerAnswered DEF Missing
  <2>2. L - Done(m) # 0
    <3> SUFFICES ASSUME L - Done(m) = 0 PROVE FALSE
      OBVIOUS
    <3>1. 1..L - Done(m) = {}
      BY <2>1, <1>3
    <3> QED BY <3>1, <2>1
  <2> QED BY <1>3, <2>1, <2>2
<1>5. Head(Missing(m)) = Done(m) + 1
  <2>1. Missing(m)[1] = Done(m) + 1
    BY <1>4, MissingCalls
  <2> QED BY <2>1
<1>6. Len(m) = c + Done(m) /\ Done(m) + 1 \in DOMAIN m[c].calls
  BY <1>3, <1>4, LastCallerAnswered
<1>7. ToolResult(Head(Missing(m)), own) \in Messages
  BY <1>3, <1>5, <1>6, MessageShape
<1>8. /\ e \in Seq(Messages) /\ Len(e) = Len(m) + 1
      /\ \A i \in 1..Len(m) : e[i] = m[i]
      /\ Answers(e[Len(m) + 1], Done(m) + 1)
  BY <1>5, <1>7, AppendProperties, MessageShape
<1>9. \A i \in Len(m)+1..Len(e) : Answers(e[i], i - c) /\ i - c \in DOMAIN m[c].calls
  <2> SUFFICES ASSUME NEW i \in Len(m)+1..Len(e)
               PROVE  Answers(e[i], i - c) /\ i - c \in DOMAIN m[c].calls
    OBVIOUS
  <2>1. i = Len(m) + 1 /\ i - c = Done(m) + 1
    BY <1>1, <1>2, <1>4, <1>6, <1>8
  <2> QED BY <2>1, <1>6, <1>8
<1> HIDE DEF e
<1>10. Len(m) <= Len(e)
  BY <1>2, <1>8
<1>11. PartlyClosed(e) /\ Callers(e) # {}
  BY <1>8, <1>9, <1>10, ResultsExtend
<1> QED BY <1>5, <1>6, <1>7, <1>8, <1>11 DEF e

\* The repair appends stand-ins for the calls without a result, in call order.
LEMMA RepairAppends ==
    ASSUME NEW m \in Seq(Messages), PartlyClosed(m), Callers(m) # {}
    PROVE  /\ CloseOpenToolCalls(m) \in Seq(Messages)
           /\ Len(CloseOpenToolCalls(m)) = Len(m) + (Len(m[LastCaller(m)].calls) - Done(m))
           /\ \A i \in 1..Len(m) : CloseOpenToolCalls(m)[i] = m[i]
           /\ \A i \in Len(m)+1..Len(CloseOpenToolCalls(m)) :
                CloseOpenToolCalls(m)[i] = StandIn(Done(m) + (i - Len(m)))
<1> DEFINE c == LastCaller(m)
           L == Len(m[c].calls)
           r == [k \in DOMAIN Missing(m) |-> StandIn(Missing(m)[k])]
           e == m \o r
<1>1. c \in 1..Len(m) /\ m[c] \in Messages
  BY LastCallerIsLast
<1>2. Len(m) \in Nat
  BY LenProperties
<1>3. L \in Nat /\ DOMAIN m[c].calls = 1..L /\ m[c].calls \in CallPlans
  BY <1>1, CallsOf, MessageShape
<1>4. Done(m) \in 0..L
  BY LastCallerAnswered
<1>5. DOMAIN r = 1..L - Done(m) /\ \A k \in 1..L - Done(m) : r[k] = StandIn(Done(m) + k)
  BY MissingCalls
<1> HIDE DEF r
<1>6. r \in Seq(Messages) /\ Len(r) = L - Done(m)
  <2>1. \A k \in 1..L - Done(m) : r[k] \in Messages
    <3> TAKE k \in 1..L - Done(m)
    <3>1. Done(m) + k \in DOMAIN m[c].calls
      BY <1>3, <1>4
    <3> QED BY <3>1, <1>3, <1>5, MessageShape DEF StandIn
  <2>2. r = [k \in 1..L - Done(m) |-> r[k]]
    BY <1>5 DEF r
  <2>3. L - Done(m) \in Nat
    BY <1>3, <1>4
  <2>4. r \in [1..L - Done(m) -> Messages]
    BY <2>1, <2>2
  <2> QED BY <2>3, <2>4
<1> HIDE DEF L, c
<1>7. /\ e \in Seq(Messages) /\ Len(e) = Len(m) + Len(r)
      /\ \A i \in 1..Len(m) : e[i] = m[i]
      /\ \A i \in Len(m)+1..Len(m)+Len(r) : e[i] = r[i - Len(m)]
  <2> HIDE DEF e
  <2>1. e \in Seq(Messages) /\ Len(e) = Len(m) + Len(r)
    BY <1>6, ConcatProperties DEF e
  <2>2. \A i \in 1..Len(m)+Len(r) : e[i] = IF i <= Len(m) THEN m[i] ELSE r[i - Len(m)]
    BY <1>6, ConcatProperties DEF e
  <2>3. Len(r) \in Nat
    BY <1>6, LenProperties
  <2> QED BY <1>2, <2>1, <2>2, <2>3
<1>8. CloseOpenToolCalls(m) = e
  BY DEF CloseOpenToolCalls, r
<1> HIDE DEF e
<1>9. \A i \in Len(m)+1..Len(e) : e[i] = StandIn(Done(m) + (i - Len(m)))
  <2> TAKE i \in Len(m)+1..Len(e)
  <2>1. i - Len(m) \in 1..L - Done(m)
    BY <1>2, <1>3, <1>4, <1>6, <1>7
  <2> QED BY <2>1, <1>5, <1>7
<1> QED BY <1>6, <1>7, <1>8, <1>9 DEF L, c

\* The repair, on any transcript a turn leaves behind.
LEMMA RepairCloses ==
    ASSUME NEW m \in Seq(Messages), PartlyClosed(m)
    PROVE  CloseOpenToolCalls(m) \in Seq(Messages) /\ Closed(CloseOpenToolCalls(m))
<1>1. CASE Callers(m) = {}
  <2>1. CloseOpenToolCalls(m) = m
    BY <1>1 DEF CloseOpenToolCalls
  <2>2. \A i \in DOMAIN m : \A k \in DOMAIN m[i].calls : i + k \in DOMAIN m
    <3> SUFFICES ASSUME NEW i \in DOMAIN m, NEW k \in DOMAIN m[i].calls PROVE FALSE
      OBVIOUS
    <3>1. m[i].calls = <<>>
      BY <1>1 DEF Callers
    <3> QED BY <3>1
  <2> QED BY <2>1, <2>2, ClosedIsPartlyClosed
<1>2. CASE Callers(m) # {}
  <2> DEFINE c == LastCaller(m)
             L == Len(m[c].calls)
             e == CloseOpenToolCalls(m)
  <2>1. /\ c \in 1..Len(m) /\ m[c] \in Messages
        /\ \A j \in 1..Len(m) : m[j].calls # <<>> => j <= c
    BY <1>2, LastCallerIsLast
  <2>2. Len(m) \in Nat
    BY LenProperties
  <2>3. L \in Nat /\ DOMAIN m[c].calls = 1..L /\ m[c].calls \in CallPlans
    BY <2>1, CallsOf, MessageShape
  <2>4. Done(m) \in 0..L /\ (Done(m) < L => Len(m) = c + Done(m))
    BY <1>2, LastCallerAnswered
  <2>7. /\ e \in Seq(Messages) /\ Len(e) = Len(m) + (L - Done(m))
        /\ \A i \in 1..Len(m) : e[i] = m[i]
        /\ \A i \in Len(m)+1..Len(e) : e[i] = StandIn(Done(m) + (i - Len(m)))
    BY <1>2, RepairAppends
  <2> HIDE DEF e, L, c
  <2>9. \A i \in Len(m)+1..Len(e) : Answers(e[i], i - c) /\ i - c \in 1..L
    <3> TAKE i \in Len(m)+1..Len(e)
    <3>1. i - Len(m) \in 1..L - Done(m) /\ Done(m) < L
      BY <2>2, <2>3, <2>4, <2>7
    <3>2. Done(m) + (i - Len(m)) = i - c /\ i - c \in 1..L
      <4>1. c \in Int /\ L \in Int /\ Done(m) \in Nat /\ Len(m) \in Int /\ i \in Int
        BY <2>1, <2>2, <2>3, <2>4, <3>1
      <4>2. Len(m) = c + Done(m)
        BY <2>4, <3>1
      <4> QED BY <3>1, <4>1, <4>2
    <3>3. e[i] = StandIn(Done(m) + (i - Len(m)))
      BY <2>7
    <3>4. e[i] = ToolResult(i - c, FALSE)
      BY <3>2, <3>3 DEF StandIn
    <3>5. Answers(ToolResult(i - c, FALSE), i - c)
      BY MessageShape
    <3> QED BY <3>2, <3>4, <3>5
  <2>10. PartlyClosed(e) /\ Callers(e) # {}
    <3>1. Len(m) <= Len(e)
      BY <2>2, <2>3, <2>4, <2>7
    <3> QED BY <3>1, <1>2, <2>3, <2>7, <2>9, ResultsExtend DEF c
  <2>11. LastCaller(e) = c
    <3>1. /\ LastCaller(e) \in 1..Len(e) /\ e[LastCaller(e)].calls # <<>>
          /\ \A j \in 1..Len(e) : e[j].calls # <<>> => j <= LastCaller(e)
      BY <2>7, <2>10, LastCallerIsLast
    <3>2. e[c] = m[c] /\ m[c].calls # <<>> /\ c \in 1..Len(e)
      BY <1>2, <2>1, <2>2, <2>3, <2>4, <2>7, LastCallerIsLast DEF c
    <3>3. LastCaller(e) <= Len(m)
      <4> SUFFICES ASSUME LastCaller(e) > Len(m) PROVE FALSE
        BY <2>2, <3>1
      <4>1. e[LastCaller(e)] \in Messages
        BY <2>7, <3>1, ElementOfSeq
      <4> QED BY <2>2, <2>9, <3>1, <4>1, AnswerShape
    <3>4. e[LastCaller(e)] = m[LastCaller(e)] /\ LastCaller(e) \in 1..Len(m)
      BY <2>2, <2>7, <3>1, <3>3
    <3>5. LastCaller(e) <= c /\ c <= LastCaller(e)
      BY <2>1, <3>1, <3>2, <3>4
    <3> QED BY <3>1, <3>5, <2>1, <2>2
  <2>12. Missing(e) = <<>>
    <3>1. Len(e[LastCaller(e)].calls) = L /\ Len(e) >= c + L
      <4>1. Len(m) - c >= Done(m)
        BY <2>1, <2>2, <2>3 DEF Done, c, L
      <4>2. e[LastCaller(e)] = m[c]
        BY <2>1, <2>7, <2>11
      <4>3. Len(e) = Len(m) + (L - Done(m))
        BY <2>7
      <4>4. c \in Int /\ L \in Int /\ Done(m) \in Int /\ Len(m) \in Int
        BY <2>1, <2>2, <2>3, <2>4
      <4>5. Len(e) >= c + L
        BY <4>1, <4>3, <4>4
      <4> QED BY <4>2, <4>5 DEF L
    <3>2. Done(e) = L
      <4>1. Len(e) - c >= L
        BY <3>1, <2>1, <2>2, <2>3, <2>4, <2>7
      <4>2. Done(e) = IF Len(e) - c < L THEN Len(e) - c ELSE L
        BY <3>1, <2>11 DEF Done
      <4> QED BY <4>1, <4>2, <2>1, <2>2, <2>3, <2>4, <2>7
    <3>3. DOMAIN Missing(e) = 1..L - L
      BY <2>7, <2>10, <3>1, <3>2, MissingCalls
    <3>4. Missing(e) = [k \in 1..0 |-> Missing(e)[k]]
      BY <3>3, <2>3 DEF Missing
    <3> QED BY <3>4
  <2> QED BY <2>7, <2>10, <2>12, NothingMissing DEF e
<1> QED BY <1>1, <1>2

LEMMA AppendMessage ==
    ASSUME NEW m \in Seq(Messages), Closed(m), NEW msg \in Messages, msg.role # "tool"
    PROVE  /\ Append(m, msg) \in Seq(Messages)
           /\ PartlyClosed(Append(m, msg))
           /\ msg.calls # <<>> => Callers(Append(m, msg)) # {}
           /\ msg.calls = <<>> => Closed(Append(m, msg))
<1> DEFINE e == Append(m, msg)
<1>1. /\ Len(m) \in Nat /\ DOMAIN m = 1..Len(m)
      /\ e \in Seq(Messages) /\ Len(e) = Len(m) + 1 /\ DOMAIN e = 1..Len(m) + 1
      /\ \A i \in 1..Len(m) : e[i] = m[i]
      /\ e[Len(m) + 1] = msg
  BY AppendProperties, LenProperties
<1> HIDE DEF e
<1>2. Len(msg.calls) \in Nat /\ DOMAIN msg.calls = 1..Len(msg.calls)
  BY CallsOf
<1>3. ASSUME NEW i \in 1..Len(m), NEW k \in DOMAIN e[i].calls
      PROVE  i + k \in 1..Len(m) /\ Answers(e[i + k], k)
  <2>1. e[i] = m[i]
    BY <1>1
  <2>2. i + k \in 1..Len(m) /\ Answers(m[i + k], k)
    BY <1>1, <2>1 DEF Closed
  <2> QED BY <1>1, <2>2
<1>4. ASSUME NEW k \in DOMAIN msg.calls
      PROVE  (Len(m) + 1) + k \notin 1..Len(m) + 1
  BY <1>1, <1>2
<1>5. ASSUME NEW i \in 1..Len(m) + 1, e[i].role = "tool"
      PROVE  e[i].call < i /\ e[i].call \in DOMAIN e[i - e[i].call].calls
  <2>1. i \in 1..Len(m) /\ e[i] = m[i]
    BY <1>1, <1>5
  <2>2. m[i].call < i /\ m[i].call \in DOMAIN m[i - m[i].call].calls
    BY <1>1, <1>5, <2>1 DEF Closed
  <2>3. m[i].call \in Nat /\ m[i].call >= 1
    <3>1. m[i] \in Messages /\ m[i].role = "tool"
      BY <2>1, <1>5, ElementOfSeq
    <3> QED BY <3>1, CallOfResult
  <2>4. i - m[i].call \in 1..Len(m)
    BY <2>1, <2>2, <2>3, <1>1
  <2> QED BY <2>1, <2>2, <2>4, <1>1
<1>6. \A i \in DOMAIN e : \A k \in DOMAIN e[i].calls : i + k \in DOMAIN e => Answers(e[i + k], k)
  <2> TAKE i \in DOMAIN e
  <2> TAKE k \in DOMAIN e[i].calls
  <2>1. CASE i \in 1..Len(m)
    BY <1>3, <2>1
  <2>2. CASE i = Len(m) + 1
    BY <1>1, <1>4, <2>2
  <2> QED BY <1>1, <2>1, <2>2
<1>7. PartlyClosed(e)
  BY <1>1, <1>5, <1>6 DEF PartlyClosed
<1>8. ASSUME msg.calls # <<>> PROVE Callers(e) # {}
  <2>1. Len(m) + 1 \in DOMAIN e
    BY <1>1
  <2> QED BY <1>1, <1>8, <2>1 DEF Callers
<1>9. ASSUME msg.calls = <<>> PROVE Closed(e)
  <2>1. ASSUME NEW i \in DOMAIN e, NEW k \in DOMAIN e[i].calls PROVE i + k \in DOMAIN e
    <3>1. i \in 1..Len(m)
      BY <1>1, <1>2, <1>9
    <3>2. i + k \in 1..Len(m)
      BY <1>3, <3>1
    <3> QED BY <1>1, <3>2
  <2> QED BY <1>1, <1>7, <2>1, ClosedIsPartlyClosed
<1> QED BY <1>1, <1>7, <1>8, <1>9 DEF e

\* A retry cuts the transcript before a user message: never inside a batch.
LEMMA RewindCloses ==
    ASSUME NEW m \in Seq(Messages), Closed(m), Users(m) # {}
    PROVE  BeforeLastUser(m) \in Seq(Messages) /\ Closed(BeforeLastUser(m))
<1> DEFINE u == CHOOSE i \in Users(m) : \A j \in Users(m) : j <= i
           e == SubSeq(m, 1, u - 1)
<1>1. Len(m) \in Nat /\ DOMAIN m = 1..Len(m) /\ Users(m) \in SUBSET (1..Len(m))
  BY LenProperties DEF Users
<1>2. \E i \in Users(m) : \A j \in Users(m) : j <= i
  BY <1>1, GreatestPosition
<1>3. u \in Users(m)
  BY <1>2
<1> HIDE DEF u
<1>4. u \in 1..Len(m) /\ m[u].role = "user"
  BY <1>1, <1>3 DEF Users
<1>5. /\ e \in Seq(Messages) /\ Len(e) = u - 1 /\ DOMAIN e = 1..u - 1
      /\ \A i \in 1..u - 1 : e[i] = m[i]
  <2>1. \A i \in 1..u - 1 : m[i] \in Messages
    BY <1>1, <1>4, ElementOfSeq
  <2>2. u - 1 \in Nat
    BY <1>1, <1>4
  <2>3. /\ e \in Seq(Messages) /\ Len(e) = IF 1 <= u - 1 THEN (u - 1) - 1 + 1 ELSE 0
        /\ \A i \in 1..(u - 1) - 1 + 1 : e[i] = m[1 + i - 1]
    BY <2>1, <2>2, SubSeqProperties
  <2>4. Len(e) = u - 1
    BY <2>2, <2>3
  <2>5. \A i \in 1..u - 1 : e[i] = m[i]
    BY <2>2
  <2> QED BY <2>3, <2>4, <2>5, LenProperties
<1> HIDE DEF e
<1>6. ASSUME NEW i \in 1..u - 1, NEW k \in DOMAIN e[i].calls
      PROVE  i + k \in 1..u - 1 /\ Answers(e[i + k], k)
  <2>1. i \in 1..Len(m) /\ e[i] = m[i] /\ m[i] \in Messages
    BY <1>1, <1>4, <1>5, ElementOfSeq
  <2>2. Len(m[i].calls) \in Nat /\ DOMAIN m[i].calls = 1..Len(m[i].calls)
    BY <2>1, CallsOf
  <2>3. i + k \in 1..Len(m) /\ Answers(m[i + k], k)
    BY <1>1, <2>1 DEF Closed
  <2>4. i + k < u
    <3> SUFFICES ASSUME i + k >= u PROVE FALSE
      BY <1>1, <1>4, <2>3
    <3>1. u - i \in DOMAIN m[i].calls
      BY <1>1, <1>4, <2>1, <2>2
    <3>2. PartlyClosed(m) /\ i < u
      BY <1>1, <1>4, ClosedIsPartlyClosed
    <3>3. m[u].role = "tool"
      BY <3>1, <3>2, <1>4, <2>1, ResultIsNoCaller
    <3> QED BY <3>3, <1>4
  <2>5. i + k \in 1..u - 1
    BY <1>1, <1>4, <2>3, <2>4
  <2> QED BY <1>5, <2>3, <2>5
<1>7. ASSUME NEW i \in 1..u - 1, e[i].role = "tool"
      PROVE  e[i].call < i /\ e[i].call \in DOMAIN e[i - e[i].call].calls
  <2>1. i \in 1..Len(m) /\ e[i] = m[i] /\ m[i] \in Messages
    BY <1>1, <1>4, <1>5, ElementOfSeq
  <2>2. m[i].call < i /\ m[i].call \in DOMAIN m[i - m[i].call].calls
    BY <1>1, <1>7, <2>1 DEF Closed
  <2>3. m[i].call \in Nat /\ m[i].call >= 1
    BY <1>7, <2>1, CallOfResult
  <2>4. i - m[i].call \in 1..u - 1
    BY <2>1, <2>2, <2>3, <1>1, <1>4
  <2> QED BY <2>1, <2>2, <2>4, <1>5
<1>8. Closed(e)
  BY <1>5, <1>6, <1>7 DEF Closed
<1> QED BY <1>5, <1>8 DEF BeforeLastUser, e, u

\* What follows the last calling message adds to what the transcript reports of its calls.
LEMMA ReportedExtends ==
    ASSUME NEW m \in Seq(Messages), NEW e \in Seq(Messages), Len(m) <= Len(e),
           \A i \in 1..Len(m) : e[i] = m[i],
           \A i \in Len(m)+1..Len(e) : e[i].calls = <<>>
    PROVE  /\ Callers(e) = Callers(m)
           /\ LastCaller(e) = LastCaller(m)
           /\ Callers(m) = {} => Reported(e) = {} /\ Reported(m) = {}
           /\ Callers(m) # {} =>
                /\ Reported(e) = Reported(m) \cup {e[k].call : k \in {k \in Len(m)+1..Len(e) : e[k].own}}
                /\ Answered(e) = Answered(m)
                     \cup {e[k].call : k \in {k \in Len(m)+1..Len(e) : e[k].role = "tool"}}
<1>1. /\ Len(m) \in Nat /\ DOMAIN m = 1..Len(m)
      /\ Len(e) \in Nat /\ DOMAIN e = 1..Len(e)
  BY LenProperties
<1>2. Callers(e) = Callers(m)
  BY <1>1 DEF Callers
<1>3. LastCaller(e) = LastCaller(m)
  BY <1>2 DEF LastCaller
<1>4. CASE Callers(m) = {}
  BY <1>2, <1>3, <1>4 DEF Reported
<1>5. CASE Callers(m) # {}
  <2> DEFINE c == LastCaller(m)
  <2>1. c \in 1..Len(m)
    BY <1>5, LastCallerIsLast
  <2> HIDE DEF c
  <2>2. \A k : k \in c+1..Len(e) <=> k \in c+1..Len(m) \/ k \in Len(m)+1..Len(e)
    BY <1>1, <2>1
  <2>3. \A k \in c+1..Len(m) : e[k] = m[k]
    BY <1>1, <2>1
  <2>4. Reported(e) = {e[k].call : k \in {k \in c+1..Len(e) : e[k].own}}
    BY <1>2, <1>3, <1>5 DEF Reported, c
  <2>5. Reported(m) = {m[k].call : k \in {k \in c+1..Len(m) : m[k].own}}
    BY <1>5 DEF Reported, c
  <2>6. Reported(e) = Reported(m) \cup {e[k].call : k \in {k \in Len(m)+1..Len(e) : e[k].own}}
    BY <2>2, <2>3, <2>4, <2>5
  <2>7. Answered(e) = {e[k].call : k \in {k \in c+1..Len(e) : e[k].role = "tool"}}
    BY <1>3 DEF Answered, c
  <2>8. Answered(m) = {m[k].call : k \in {k \in c+1..Len(m) : m[k].role = "tool"}}
    BY DEF Answered, c
  <2>9. Answered(e) = Answered(m)
          \cup {e[k].call : k \in {k \in Len(m)+1..Len(e) : e[k].role = "tool"}}
    BY <2>2, <2>3, <2>7, <2>8
  <2> QED BY <1>2, <1>3, <1>5, <2>6, <2>9
<1> QED BY <1>2, <1>3, <1>4, <1>5

\* Stand-ins, summaries of nothing and user messages report no outcome.
LEMMA RepairReportsNothing ==
    ASSUME NEW m \in Seq(Messages), PartlyClosed(m)
    PROVE  Reported(CloseOpenToolCalls(m)) = Reported(m)
<1>1. CASE Callers(m) = {}
  BY <1>1 DEF CloseOpenToolCalls
<1>2. CASE Callers(m) # {}
  <2> DEFINE e == CloseOpenToolCalls(m)
  <2>1. /\ e \in Seq(Messages) /\ Len(e) = Len(m) + (Len(m[LastCaller(m)].calls) - Done(m))
        /\ \A i \in 1..Len(m) : e[i] = m[i]
        /\ \A i \in Len(m)+1..Len(e) : e[i] = StandIn(Done(m) + (i - Len(m)))
    BY <1>2, RepairAppends
  <2>2. Len(m) <= Len(e)
    <3> DEFINE L == Len(m[LastCaller(m)].calls)
    <3>1. L \in Nat /\ Done(m) \in 0..L /\ Len(m) \in Nat /\ Len(e) = Len(m) + (L - Done(m))
      BY <1>2, <2>1, LastCallerIsLast, CallsOf, LastCallerAnswered, LenProperties
    <3> HIDE DEF L, e
    <3> QED BY <3>1
  <2> HIDE DEF e
  <2>3. \A i \in Len(m)+1..Len(e) : e[i].calls = <<>> /\ e[i].own = FALSE
    <3> TAKE i \in Len(m)+1..Len(e)
    <3>1. e[i] = ToolResult(Done(m) + (i - Len(m)), FALSE)
      BY <2>1 DEF StandIn
    <3> QED BY <3>1 DEF ToolResult, Message
  <2>4. Reported(e) = Reported(m) \cup {e[k].call : k \in {k \in Len(m)+1..Len(e) : e[k].own}}
    BY <1>2, <2>1, <2>2, <2>3, ReportedExtends
  <2> QED BY <2>3, <2>4 DEF e
<1> QED BY <1>1, <1>2

LEMMA AppendReports ==
    ASSUME NEW m \in Seq(Messages), NEW msg \in Messages, msg.calls = <<>>
    PROVE  /\ LastCaller(Append(m, msg)) = LastCaller(m)
           /\ ~ msg.own => Reported(Append(m, msg)) = Reported(m)
           /\ Callers(m) # {} =>
                /\ msg.own => Reported(Append(m, msg)) = Reported(m) \cup {msg.call}
                /\ msg.role = "tool" => Answered(Append(m, msg)) = Answered(m) \cup {msg.call}
<1> DEFINE e == Append(m, msg)
<1>1. /\ Len(m) \in Nat /\ e \in Seq(Messages) /\ Len(e) = Len(m) + 1
      /\ \A i \in 1..Len(m) : e[i] = m[i]
      /\ e[Len(m) + 1] = msg
  BY AppendProperties, LenProperties
<1> HIDE DEF e
<1>2. Len(m) <= Len(e) /\ \A i : i \in Len(m)+1..Len(e) <=> i = Len(m) + 1
  BY <1>1
<1>3. \A i \in Len(m)+1..Len(e) : e[i].calls = <<>>
  BY <1>1, <1>2
<1>4. /\ LastCaller(e) = LastCaller(m)
      /\ Callers(m) = {} => Reported(e) = {} /\ Reported(m) = {}
      /\ Callers(m) # {} =>
           /\ Reported(e) = Reported(m) \cup {e[k].call : k \in {k \in Len(m)+1..Len(e) : e[k].own}}
           /\ Answered(e) = Answered(m)
                \cup {e[k].call : k \in {k \in Len(m)+1..Len(e) : e[k].role = "tool"}}
  BY <1>1, <1>2, <1>3, ReportedExtends
<1>5. ~ msg.own => {e[k].call : k \in {k \in Len(m)+1..Len(e) : e[k].own}} = {}
  BY <1>1, <1>2
<1>6. msg.own => {e[k].call : k \in {k \in Len(m)+1..Len(e) : e[k].own}} = {msg.call}
  BY <1>1, <1>2
<1>7. msg.role = "tool" =>
        {e[k].call : k \in {k \in Len(m)+1..Len(e) : e[k].role = "tool"}} = {msg.call}
  BY <1>1, <1>2
<1> QED BY <1>4, <1>5, <1>6, <1>7 DEF e

\* A new batch has no results.
LEMMA CallerReports ==
    ASSUME NEW m \in Seq(Messages), NEW msg \in Messages, msg.calls # <<>>
    PROVE  /\ Reported(Append(m, msg)) = {} /\ Answered(Append(m, msg)) = {}
           /\ Append(m, msg)[LastCaller(Append(m, msg))] = msg
<1> DEFINE e == Append(m, msg)
<1>1. /\ Len(m) \in Nat /\ e \in Seq(Messages) /\ Len(e) = Len(m) + 1
      /\ DOMAIN e = 1..Len(m) + 1 /\ e[Len(m) + 1] = msg
  BY AppendProperties, LenProperties
<1> HIDE DEF e
<1>2. Len(m) + 1 \in Callers(e)
  BY <1>1 DEF Callers
<1>3. LastCaller(e) = Len(m) + 1
  <2>1. LastCaller(e) \in 1..Len(e) /\ \A j \in 1..Len(e) : e[j].calls # <<>> => j <= LastCaller(e)
    BY <1>1, <1>2, LastCallerIsLast
  <2>2. Len(m) + 1 <= LastCaller(e)
    BY <1>1, <2>1
  <2> QED BY <1>1, <2>1, <2>2
<1>4. LastCaller(e)+1..Len(e) = {}
  BY <1>1, <1>3
<1>5. Reported(e) = {} /\ Answered(e) = {}
  BY <1>4 DEF Reported, Answered
<1> QED BY <1>1, <1>3, <1>5 DEF e

LEMMA EmptyClosed == <<>> \in Seq(Messages) /\ Closed(<<>>)
<1>1. DOMAIN <<>> = {}
  OBVIOUS
<1>2. <<>> \in Seq(Messages)
  BY EmptySeq
<1>3. Closed(<<>>)
  BY <1>1 DEF Closed
<1> QED BY <1>2, <1>3

LEMMA SummaryClosed == Summary \in Seq(Messages) /\ Closed(Summary)
<1>1. <<>> \in CallPlans
  BY AgentAssumption DEF AgentAssumption
<1>2. Summary = Append(Append(<<>>, User), Assistant(<<>>))
  BY DEF Summary
<1>3. Append(<<>>, User) \in Seq(Messages) /\ Closed(Append(<<>>, User))
  BY EmptyClosed, MessageShape, AppendMessage
<1>4. /\ Assistant(<<>>) \in Messages /\ Assistant(<<>>).role = "assistant"
      /\ Assistant(<<>>).calls = <<>>
  BY <1>1, MessageShape
<1> QED BY <1>2, <1>3, <1>4, AppendMessage

(***************************************************************************)
(* Where the transcript and the file are closed.                           *)
(***************************************************************************)

Batch == {"serial", "parallel", "gather"}

\* Only a batch leaves the transcript open; the file may hold what any moment left.
Transcripts ==
    /\ pc \in Points
    /\ msgs \in Seq(Messages) /\ PartlyClosed(msgs)
    /\ stored \in Seq(Messages) /\ PartlyClosed(stored)
    /\ pc \notin Batch => Closed(msgs)
    /\ pc \in Batch => Callers(msgs) # {}

LEMMA ClosedStep ==
    ASSUME Transcripts, pc' \in Points \ Batch,
           msgs' \in Seq(Messages), Closed(msgs'), stored' \in {stored, msgs'}
    PROVE  Transcripts'
<1>1. PartlyClosed(msgs')
  BY ClosedIsPartlyClosed
<1>2. stored' \in Seq(Messages) /\ PartlyClosed(stored')
  BY <1>1 DEF Transcripts
<1> QED BY <1>1, <1>2 DEF Transcripts

LEMMA BatchStep ==
    ASSUME Transcripts, pc' \in Batch, msgs' \in Seq(Messages), PartlyClosed(msgs'),
           Callers(msgs') # {}, stored' \in {stored, msgs'}
    PROVE  Transcripts'
<1>1. stored' \in Seq(Messages) /\ PartlyClosed(stored')
  BY DEF Transcripts
<1> QED BY <1>1 DEF Transcripts, Batch, Points

\* What a repair writes, wherever it happens.
LEMMA RepairStep ==
    ASSUME Transcripts, Checkpoint(CloseOpenToolCalls(msgs)), pc' \in Points \ Batch
    PROVE  Transcripts'
<1>1. msgs' = CloseOpenToolCalls(msgs) /\ stored' \in {stored, msgs'}
  BY DEF Checkpoint
<1>2. msgs' \in Seq(Messages) /\ Closed(msgs')
  BY <1>1, RepairCloses DEF Transcripts
<1> QED BY <1>1, <1>2, ClosedStep

LEMMA CompactedStep ==
    ASSUME Transcripts, Checkpoint(Summary), pc' \in Points \ Batch
    PROVE  Transcripts'
<1>1. msgs' = Summary /\ stored' \in {stored, msgs'}
  BY DEF Checkpoint
<1> QED BY <1>1, SummaryClosed, ClosedStep

\* Steps between batches that keep the messages and may store them.
LEMMA SameMessagesStep ==
    ASSUME Transcripts, pc \notin Batch, msgs' = msgs, stored' \in {stored, msgs},
           pc' \in Points \ Batch
    PROVE  Transcripts'
<1>1. msgs' \in Seq(Messages) /\ Closed(msgs')
  BY DEF Transcripts
<1> QED BY <1>1, ClosedStep

LEMMA TranscriptsInBatch ==
    ASSUME Transcripts, pc \in Batch
    PROVE  /\ \A own \in BOOLEAN : AppendNext(own) => Transcripts'
           /\ BatchDone => Transcripts'
           /\ BatchCancelled => Transcripts'
<1>1. ASSUME NEW own \in BOOLEAN, AppendNext(own) PROVE Transcripts'
  <2>1. /\ msgs' = Append(msgs, ToolResult(Head(Missing(msgs)), own)) /\ stored' \in {stored, msgs'}
        /\ pc' = pc
    BY <1>1 DEF AppendNext, Checkpoint
  <2>2. msgs' \in Seq(Messages) /\ PartlyClosed(msgs') /\ Callers(msgs') # {}
    BY <1>1, <2>1, AppendResult DEF AppendNext, Transcripts
  <2> QED BY <2>1, <2>2, BatchStep
<1>2. ASSUME BatchDone PROVE Transcripts'
  <2>1. msgs' = msgs /\ stored' = stored /\ pc' = "turn"
    BY <1>2 DEF BatchDone
  <2>2. msgs' \in Seq(Messages) /\ Closed(msgs')
    BY <1>2, <2>1, NothingMissing DEF BatchDone, Transcripts
  <2>3. pc' \in Points \ Batch
    BY <2>1 DEF Points, Batch
  <2> QED BY <2>1, <2>2, <2>3, ClosedStep
<1>3. ASSUME BatchCancelled PROVE Transcripts'
  <2>1. pc' \in Points \ Batch /\ Checkpoint(CloseOpenToolCalls(msgs))
    BY <1>3 DEF BatchCancelled, Finish, Points, Batch
  <2> QED BY <2>1, RepairStep
<1> QED BY <1>1, <1>2, <1>3

LEMMA TranscriptsInRun ==
    ASSUME Transcripts, RunStep
    PROVE  Transcripts'
<1> USE DEF Points, Batch
<1>1. CASE OutOfTurns
  BY <1>1, SameMessagesStep DEF OutOfTurns, Finish
<1>2. CASE TurnCancelled
  BY <1>2, RepairStep DEF TurnCancelled, Finish
<1>3. CASE TurnStarts
  BY <1>3, SameMessagesStep DEF TurnStarts
<1>4. CASE PreCompact
  <2>1. CASE Compacted
    BY <1>4, <2>1, CompactedStep DEF PreCompact, Compacted
  <2>2. CASE UNCHANGED <<msgs, stored, persistErr, auto>>
    BY <1>4, <2>2, SameMessagesStep DEF PreCompact
  <2> QED BY <1>4, <2>1, <2>2 DEF PreCompact
<1>5. CASE ChatFails
  <2>1. pc \notin Batch /\ msgs' = msgs /\ stored' \in {stored, msgs} /\ pc' \in Points \ Batch
    BY <1>5 DEF ChatFails, Checkpoint, Finish
  <2> QED BY <2>1, SameMessagesStep
<1>6. CASE ChatOverflows
  BY <1>6, SameMessagesStep DEF ChatOverflows
<1>7. CASE OverflowCompacted
  BY <1>7, CompactedStep DEF OverflowCompacted, Compacted
<1>8. CASE OverflowFails
  <2>1. pc \notin Batch /\ pc' \in Points \ Batch
    BY <1>8 DEF OverflowFails, Finish
  <2>2. CASE Checkpoint(msgs)
    BY <2>1, <2>2, SameMessagesStep DEF Checkpoint
  <2>3. CASE Checkpoint(Summary)
    BY <2>1, <2>3, CompactedStep
  <2> QED BY <1>8, <2>2, <2>3 DEF OverflowFails
<1>9. ASSUME NEW plan \in CallPlans, ChatAnswers(plan) PROVE Transcripts'
  <2>1. pc \notin Batch /\ msgs' = Append(msgs, Assistant(plan)) /\ stored' \in {stored, msgs'}
    BY <1>9 DEF ChatAnswers, Checkpoint
  <2>2. /\ Assistant(plan) \in Messages /\ Assistant(plan).role # "tool"
        /\ Assistant(plan).calls = plan
    BY MessageShape
  <2>3. msgs \in Seq(Messages) /\ Closed(msgs)
    BY <2>1 DEF Transcripts
  <2>4. /\ msgs' \in Seq(Messages) /\ PartlyClosed(msgs')
        /\ plan # <<>> => Callers(msgs') # {}
        /\ plan = <<>> => Closed(msgs')
    BY <2>1, <2>2, <2>3, AppendMessage
  <2>5. CASE plan = <<>>
    <3>1. pc' \in Points \ Batch
      BY <1>9, <2>5 DEF ChatAnswers, Finish
    <3> QED BY <2>1, <2>4, <2>5, <3>1, ClosedStep
  <2>6. CASE plan # <<>>
    <3>1. pc' \in Batch
      BY <1>9, <2>6 DEF ChatAnswers
    <3> QED BY <2>1, <2>4, <2>6, <3>1, BatchStep
  <2> QED BY <2>5, <2>6
<1>10. CASE Serial
  BY <1>10, TranscriptsInBatch DEF Serial
<1>11. CASE Gather \/ \E i \in DOMAIN worker : WorkerSelects(i) \/ WorkerStarts(i) \/ WorkerFinishes(i)
  <2>1. pc \in Batch /\ pc' \in Batch /\ msgs' = msgs /\ stored' = stored
    BY <1>11 DEF Gather, WorkerSelects, WorkerStarts, WorkerFinishes
  <2>2. msgs' \in Seq(Messages) /\ PartlyClosed(msgs') /\ Callers(msgs') # {}
    BY <2>1 DEF Transcripts
  <2> QED BY <2>1, <2>2, BatchStep
<1>12. CASE GatherResult
  BY <1>12, TranscriptsInBatch DEF GatherResult, OwnResult
<1> QED BY <1>1, <1>2, <1>3, <1>4, <1>5, <1>6, <1>7, <1>8, <1>9, <1>10, <1>11, <1>12 DEF RunStep

LEMMA TranscriptsStep ==
    ASSUME Transcripts, [Next]_vars
    PROVE  Transcripts'
<1> USE DEF Points, Batch
<1>1. CASE RunRefused
  BY <1>1, SameMessagesStep DEF RunRefused
<1>2. CASE Run
  <2>1. /\ msgs' = Append(CloseOpenToolCalls(msgs), User) /\ stored' \in {stored, msgs'}
        /\ pc' = "turn"
    BY <1>2 DEF Run, Checkpoint
  <2>2. CloseOpenToolCalls(msgs) \in Seq(Messages) /\ Closed(CloseOpenToolCalls(msgs))
    BY RepairCloses DEF Transcripts
  <2>3. User \in Messages /\ User.role # "tool" /\ User.calls = <<>>
    BY MessageShape
  <2>4. msgs' \in Seq(Messages) /\ Closed(msgs')
    BY <2>1, <2>2, <2>3, AppendMessage
  <2> QED BY <2>1, <2>4, ClosedStep
<1>3. CASE RewindLastUser
  <2>1. pc \notin Batch /\ msgs' = BeforeLastUser(msgs) /\ stored' = stored /\ pc' = "rewound"
    BY <1>3 DEF RewindLastUser
  <2>2. msgs' \in Seq(Messages) /\ Closed(msgs')
    BY <1>3, <2>1, RewindCloses DEF RewindLastUser, Transcripts
  <2> QED BY <2>1, <2>2, ClosedStep
<1>4. CASE Cancel \/ UNCHANGED vars
  BY <1>4 DEF Cancel, vars, Transcripts
<1>5. CASE RunStep
  BY <1>5, TranscriptsInRun
<1>6. CASE ManualCompact
  BY <1>6, CompactedStep DEF ManualCompact
<1>7. CASE SaveIdle
  BY <1>7, SameMessagesStep DEF SaveIdle, Checkpoint
<1>8. CASE Export
  BY <1>8, SameMessagesStep DEF Export
<1>9. CASE Reset
  BY <1>9, EmptyClosed, ClosedStep DEF Reset
<1>10. CASE Crash
  BY <1>10, EmptyClosed, ClosedStep DEF Crash
<1>11. CASE Resume
  <2>1. msgs' = CloseOpenToolCalls(stored) /\ stored' = stored /\ pc' = "idle"
    BY <1>11 DEF Resume
  <2>2. msgs' \in Seq(Messages) /\ Closed(msgs')
    BY <2>1, RepairCloses DEF Transcripts
  <2> QED BY <2>1, <2>2, ClosedStep
<1> QED BY <1>1, <1>2, <1>3, <1>4, <1>5, <1>6, <1>7, <1>8, <1>9, <1>10, <1>11 DEF Next

LEMMA TranscriptsAlways == Spec => []Transcripts
<1>1. Init => Transcripts
  <2> SUFFICES ASSUME Init PROVE Transcripts
    OBVIOUS
  <2>1. pc = "idle" /\ msgs = <<>> /\ stored = <<>>
    BY DEF Init
  <2>2. PartlyClosed(<<>>)
    BY EmptyClosed, ClosedIsPartlyClosed
  <2> QED BY <2>1, <2>2, EmptyClosed DEF Transcripts, Points, Batch
<1>2. Transcripts /\ [Next]_vars => Transcripts'
  BY TranscriptsStep
<1> QED BY <1>1, <1>2, PTL DEF Spec

(***************************************************************************)
(* Where the turn is, and what its end says of the file.                   *)
(***************************************************************************)

Counters ==
    /\ pc \in Points /\ outcome \in Outcomes
    /\ persistErr \in BOOLEAN /\ cancelled \in BOOLEAN
    /\ turn \in 0..MaxTurns /\ auto \in 0..MaxAuto
    /\ pc \notin Between \cup {"turn"} => turn < MaxTurns
    /\ pc \in {"precompact", "overflow"} => auto < MaxAuto

LEMMA Bounds ==
    /\ 0 \in 0..MaxTurns /\ 0 \in 0..MaxAuto
    /\ \A n \in 0..MaxTurns : n < MaxTurns => n + 1 \in 0..MaxTurns
    /\ \A n \in 0..MaxAuto : n < MaxAuto => n + 1 \in 0..MaxAuto
    /\ \A n \in 0..MaxTurns : n < MaxTurns \/ n = MaxTurns
<1>1. MaxTurns \in Nat
  BY AgentAssumption DEF AgentAssumption
<1>2. MaxAuto \in Nat
  BY DEF MaxAuto
<1> QED BY <1>1, <1>2

LEMMA CheckpointErr ==
    ASSUME NEW STATE m, Checkpoint(m)
    PROVE  persistErr' \in BOOLEAN
BY DEF Checkpoint

LEMMA FinishCounters ==
    ASSUME NEW result \in {"done", "error"}, Finish(result), persistErr' \in BOOLEAN
    PROVE  Counters'
<1>1. pc' = "idle" /\ cancelled' = FALSE /\ turn' = 0 /\ auto' = 0
  BY DEF Finish, RunReturns
<1>2. outcome' \in Outcomes
  BY DEF Finish, Outcomes
<1> QED BY <1>1, <1>2, Bounds DEF Counters, Points, Between

LEMMA CountersStep ==
    ASSUME Counters, [Next]_vars
    PROVE  Counters'
<1> USE DEF Points, Between, Outcomes
<1>1. CASE RunRefused
  BY <1>1 DEF RunRefused, Counters
<1>2. CASE Run
  <2>1. persistErr' \in BOOLEAN
    BY <1>2 DEF Run, Checkpoint
  <2> QED BY <1>2, <2>1 DEF Run, Counters
<1>3. CASE RewindLastUser
  BY <1>3 DEF RewindLastUser, Counters
<1>4. CASE Cancel \/ UNCHANGED vars
  BY <1>4 DEF Cancel, vars, Counters
<1>5. CASE OutOfTurns
  BY <1>5, FinishCounters DEF OutOfTurns, Counters
<1>6. CASE TurnCancelled
  BY <1>6, FinishCounters DEF TurnCancelled, Checkpoint
<1>7. CASE TurnStarts
  BY <1>7, Bounds DEF TurnStarts, Counters, MayCompact, TurnsLeft
<1>8. CASE PreCompact
  <2>1. pc' = "chat" /\ turn' = turn /\ cancelled' = cancelled /\ outcome' = outcome /\ turn < MaxTurns
    BY <1>8 DEF PreCompact, Counters
  <2>2. auto' \in {auto, auto + 1} /\ persistErr' \in BOOLEAN
    BY <1>8 DEF PreCompact, Compacted, Checkpoint, Counters
  <2>3. auto' \in 0..MaxAuto
    BY <1>8, <2>2, Bounds DEF PreCompact, Counters
  <2> QED BY <2>1, <2>2, <2>3 DEF Counters
<1>9. CASE ChatFails
  BY <1>9, FinishCounters DEF ChatFails, Checkpoint
<1>10. CASE ChatOverflows
  BY <1>10 DEF ChatOverflows, Counters, MayCompact
<1>11. CASE OverflowCompacted
  <2>1. pc' = "rechat" /\ turn' = turn /\ cancelled' = cancelled /\ outcome' = outcome /\ turn < MaxTurns
    BY <1>11 DEF OverflowCompacted, Counters
  <2>2. auto' \in {auto, auto + 1} /\ persistErr' \in BOOLEAN
    BY <1>11 DEF OverflowCompacted, Compacted, Checkpoint
  <2>3. auto' \in 0..MaxAuto
    BY <1>11, <2>2, Bounds DEF OverflowCompacted, Counters
  <2> QED BY <2>1, <2>2, <2>3 DEF Counters
<1>12. CASE OverflowFails
  BY <1>12, FinishCounters DEF OverflowFails, Checkpoint
<1>13. ASSUME NEW plan \in CallPlans, ChatAnswers(plan) PROVE Counters'
  <2>1. persistErr' \in BOOLEAN
    BY <1>13 DEF ChatAnswers, Checkpoint
  <2>2. CASE plan = <<>>
    BY <1>13, <2>1, <2>2, FinishCounters DEF ChatAnswers
  <2>3. CASE plan # <<>>
    <3>1. /\ pc' \in {"parallel", "serial"} /\ turn < MaxTurns
          /\ turn' = turn /\ auto' = auto /\ cancelled' = cancelled /\ outcome' = outcome
      BY <1>13, <2>3 DEF ChatAnswers, Counters
    <3> QED BY <2>1, <3>1 DEF Counters
  <2> QED BY <2>2, <2>3
<1>14. CASE Serial \/ GatherResult
  <2>1. pc \in {"serial", "gather"} /\ turn < MaxTurns
    BY <1>14 DEF Serial, GatherResult, Counters
  <2>2. ASSUME NEW own, AppendNext(own) PROVE Counters'
    <3>1. persistErr' \in BOOLEAN
      BY <2>2 DEF AppendNext, Checkpoint
    <3> QED BY <2>2, <3>1 DEF AppendNext, Counters
  <2>3. CASE BatchDone
    <3>1. turn' \in 0..MaxTurns
      BY <2>1, <2>3, Bounds DEF BatchDone, Counters
    <3> QED BY <2>3, <3>1 DEF BatchDone, Counters
  <2>4. CASE BatchCancelled
    BY <2>4, FinishCounters DEF BatchCancelled, Checkpoint
  <2> QED BY <1>14, <2>2, <2>3, <2>4 DEF Serial, GatherResult
<1>15. CASE Gather
  BY <1>15 DEF Gather, Counters
<1>16. ASSUME NEW i \in DOMAIN worker, WorkerSelects(i) \/ WorkerStarts(i) \/ WorkerFinishes(i) PROVE Counters'
  BY <1>16 DEF WorkerSelects, WorkerStarts, WorkerFinishes, Counters
<1>17. CASE ManualCompact \/ SaveIdle \/ Export
  <2>1. /\ pc' = pc /\ turn' = turn /\ auto' = auto /\ cancelled' = cancelled
    BY <1>17 DEF ManualCompact, SaveIdle, Export
  <2>2. persistErr' \in BOOLEAN
    BY <1>17 DEF ManualCompact, SaveIdle, Export, Checkpoint, Counters
  <2>3. outcome' \in Outcomes
    BY <1>17 DEF ManualCompact, SaveIdle, Export, Counters
  <2> QED BY <2>1, <2>2, <2>3 DEF Counters
<1>18. CASE Reset
  BY <1>18 DEF Reset, Counters
<1>19. CASE Crash
  BY <1>19, Bounds DEF Crash, RunReturns, Counters
<1>20. CASE Resume
  BY <1>20 DEF Resume, Counters
<1> QED BY <1>1, <1>2, <1>3, <1>4, <1>5, <1>6, <1>7, <1>8, <1>9, <1>10, <1>11, <1>12, <1>13,
           <1>14, <1>15, <1>16, <1>17, <1>18, <1>19, <1>20 DEF Next, RunStep

LEMMA CountersAlways == Spec => []Counters
<1>1. Init => Counters
  BY Bounds DEF Init, Counters, Points, Outcomes, Between
<1>2. Counters /\ [Next]_vars => Counters'
  BY CountersStep
<1> QED BY <1>1, <1>2, PTL DEF Spec

\* While a turn runs, a file without a pending write error holds the transcript.
Saved ==
    /\ pc \notin Between => outcome = "none" /\ (persistErr = FALSE => stored = msgs)
    /\ pc = "dead" => outcome = "none"
    /\ EndedTurnIsStored
    /\ StoredUnlessError

LEMMA CheckpointSaves ==
    ASSUME NEW STATE m, Checkpoint(m), persistErr' = FALSE
    PROVE  stored' = msgs'
BY DEF Checkpoint

LEMMA FinishSaves ==
    ASSUME NEW result \in {"done", "error"}, Finish(result), persistErr' \in BOOLEAN,
           persistErr' = FALSE => stored' = msgs'
    PROVE  Saved'
<1>1. pc' = "idle" /\ outcome' = IF persistErr' THEN "session save" ELSE result
  BY DEF Finish
<1>2. CASE persistErr' = TRUE
  BY <1>1, <1>2 DEF Saved, EndedTurnIsStored, StoredUnlessError, Between
<1>3. CASE persistErr' = FALSE
  BY <1>1, <1>3 DEF Saved, EndedTurnIsStored, StoredUnlessError, Between
<1> QED BY <1>2, <1>3

\* Inside a turn.
LEMMA TurnSaves ==
    ASSUME pc' \notin Between, outcome' = "none", persistErr' \in BOOLEAN,
           persistErr' = FALSE => stored' = msgs'
    PROVE  Saved'
BY DEF Saved, EndedTurnIsStored, StoredUnlessError, Between

LEMMA SavedInRun ==
    ASSUME Counters, Saved, RunStep
    PROVE  Saved'
<1>0. persistErr \in BOOLEAN
  BY DEF Counters
<1>1. pc \notin Between
  BY DEF RunStep, OutOfTurns, TurnCancelled, TurnStarts, PreCompact, ChatFails, ChatOverflows,
         OverflowCompacted, OverflowFails, ChatAnswers, Serial, Gather, GatherResult,
         WorkerSelects, WorkerStarts, WorkerFinishes, Between
<1>2. outcome = "none" /\ (persistErr = FALSE => stored = msgs)
  BY <1>1 DEF Saved
<1>3. CASE OutOfTurns
  BY <1>0, <1>2, <1>3, FinishSaves DEF OutOfTurns
<1>4. CASE TurnCancelled
  BY <1>4, FinishSaves, CheckpointErr, CheckpointSaves DEF TurnCancelled
<1>5. CASE TurnStarts \/ ChatOverflows \/ Gather
           \/ \E i \in DOMAIN worker : WorkerSelects(i) \/ WorkerStarts(i) \/ WorkerFinishes(i)
  <2>1. /\ msgs' = msgs /\ stored' = stored /\ persistErr' = persistErr /\ outcome' = outcome
        /\ pc' \notin Between
    BY <1>5, <1>1 DEF TurnStarts, ChatOverflows, Gather, WorkerSelects, WorkerStarts, WorkerFinishes, Between
  <2> QED BY <1>0, <1>2, <2>1, TurnSaves
<1>6. CASE PreCompact
  <2>1. outcome' = outcome /\ pc' \notin Between
    BY <1>6 DEF PreCompact, Between
  <2>2. persistErr' \in BOOLEAN /\ (persistErr' = FALSE => stored' = msgs')
    BY <1>0, <1>2, <1>6, CheckpointErr, CheckpointSaves DEF PreCompact, Compacted
  <2> QED BY <1>2, <2>1, <2>2, TurnSaves
<1>7. CASE ChatFails
  BY <1>7, FinishSaves, CheckpointErr, CheckpointSaves DEF ChatFails
<1>8. CASE OverflowCompacted
  <2>1. outcome' = outcome /\ pc' \notin Between
    BY <1>8 DEF OverflowCompacted, Between
  <2>2. persistErr' \in BOOLEAN /\ (persistErr' = FALSE => stored' = msgs')
    BY <1>8, CheckpointErr, CheckpointSaves DEF OverflowCompacted, Compacted
  <2> QED BY <1>2, <2>1, <2>2, TurnSaves
<1>9. CASE OverflowFails
  BY <1>9, FinishSaves, CheckpointErr, CheckpointSaves DEF OverflowFails
<1>10. ASSUME NEW plan \in CallPlans, ChatAnswers(plan) PROVE Saved'
  <2>1. persistErr' \in BOOLEAN /\ (persistErr' = FALSE => stored' = msgs')
    BY <1>10, CheckpointErr, CheckpointSaves DEF ChatAnswers
  <2>2. CASE plan = <<>>
    BY <1>10, <2>1, <2>2, FinishSaves DEF ChatAnswers
  <2>3. CASE plan # <<>>
    <3>1. outcome' = outcome /\ pc' \notin Between
      BY <1>10, <2>3 DEF ChatAnswers, Between
    <3> QED BY <1>2, <2>1, <3>1, TurnSaves
  <2> QED BY <2>2, <2>3
<1>11. ASSUME NEW own, AppendNext(own) PROVE Saved'
  <2>1. outcome' = outcome /\ pc' \notin Between
    BY <1>1, <1>11 DEF AppendNext
  <2>2. persistErr' \in BOOLEAN /\ (persistErr' = FALSE => stored' = msgs')
    BY <1>11, CheckpointErr, CheckpointSaves DEF AppendNext
  <2> QED BY <1>2, <2>1, <2>2, TurnSaves
<1>12. CASE BatchDone
  BY <1>0, <1>2, <1>12, TurnSaves DEF BatchDone, Between
<1>13. CASE BatchCancelled
  BY <1>13, FinishSaves, CheckpointErr, CheckpointSaves DEF BatchCancelled
<1> QED BY <1>3, <1>4, <1>5, <1>6, <1>7, <1>8, <1>9, <1>10, <1>11, <1>12, <1>13
        DEF RunStep, Serial, GatherResult

LEMMA SavedStep ==
    ASSUME Counters, Saved, [Next]_vars
    PROVE  Saved'
<1>0. persistErr \in BOOLEAN
  BY DEF Counters
<1>1. CASE RunRefused
  BY <1>1 DEF RunRefused, Saved, EndedTurnIsStored, StoredUnlessError, Between
<1>2. CASE Run
  <2>1. persistErr' \in BOOLEAN /\ (persistErr' = FALSE => stored' = msgs')
    BY <1>2, CheckpointErr, CheckpointSaves DEF Run
  <2>2. outcome' = "none" /\ pc' \notin Between
    BY <1>2 DEF Run, Between
  <2> QED BY <2>1, <2>2, TurnSaves
<1>3. CASE RewindLastUser
  BY <1>3 DEF RewindLastUser, Saved, EndedTurnIsStored, StoredUnlessError, Between
<1>4. CASE Cancel \/ UNCHANGED vars
  BY <1>4 DEF Cancel, vars, Saved, EndedTurnIsStored, StoredUnlessError
<1>5. CASE RunStep
  BY <1>5, SavedInRun
<1>6. CASE ManualCompact
  <2>1. persistErr' \in BOOLEAN /\ (persistErr' = FALSE => stored' = msgs')
    BY <1>6, CheckpointErr, CheckpointSaves DEF ManualCompact
  <2>2. pc' = "idle" /\ outcome' = IF persistErr' THEN "session save" ELSE "done"
    BY <1>6 DEF ManualCompact
  <2>3. CASE persistErr' = TRUE
    BY <2>2, <2>3 DEF Saved, EndedTurnIsStored, StoredUnlessError, Between
  <2>4. CASE persistErr' = FALSE
    BY <2>1, <2>2, <2>4 DEF Saved, EndedTurnIsStored, StoredUnlessError, Between
  <2> QED BY <2>1, <2>3, <2>4
<1>7. CASE SaveIdle
  <2>1. persistErr' \in BOOLEAN /\ (persistErr' = FALSE => stored' = msgs')
    BY <1>7, CheckpointErr, CheckpointSaves DEF SaveIdle
  <2>2. pc = "idle" /\ pc' = "idle" /\ outcome' = outcome /\ msgs' = msgs /\ stored' \in {stored, msgs}
    BY <1>7 DEF SaveIdle, Checkpoint
  <2> QED BY <2>1, <2>2 DEF Saved, EndedTurnIsStored, StoredUnlessError, Between
<1>8. CASE Export
  BY <1>8 DEF Export, Saved, EndedTurnIsStored, StoredUnlessError, Between
<1>9. CASE Reset
  BY <1>9 DEF Reset, Saved, EndedTurnIsStored, StoredUnlessError, Between
<1>10. CASE Crash
  BY <1>10 DEF Crash, Saved, EndedTurnIsStored, StoredUnlessError, Between
<1>11. CASE Resume
  BY <1>11 DEF Resume, Saved, EndedTurnIsStored, StoredUnlessError, Between
<1> QED BY <1>1, <1>2, <1>3, <1>4, <1>5, <1>6, <1>7, <1>8, <1>9, <1>10, <1>11 DEF Next

LEMMA SavedAlways == Spec => []Saved
<1>1. Init => Saved
  BY DEF Init, Saved, EndedTurnIsStored, StoredUnlessError, Between
<1>2. Counters /\ Saved /\ [Next]_vars => Saved'
  BY SavedStep
<1> QED BY <1>1, <1>2, CountersAlways, PTL DEF Spec

(***************************************************************************)
(* The goroutines of a batch.                                              *)
(***************************************************************************)

WorkerStates == {"queued", "slot", "running", "finished", "refused"}

Workers ==
    /\ DOMAIN worker \in SUBSET Nat
    /\ worker = [i \in DOMAIN worker |-> worker[i]]
    /\ \A i \in DOMAIN worker : worker[i] \in WorkerStates

\* A batch that has just been queued, or none at all.
LEMMA FreshWorkers ==
    ASSUME NEW n \in Nat, worker' = [i \in 1..n |-> "queued"]
    PROVE  Workers'
BY DEF Workers, WorkerStates

LEMMA NoWorkersRun ==
    ASSUME worker' = NoWorkers
    PROVE  Workers'
<1>1. NoWorkers = [i \in 1..0 |-> "queued"]
  BY DEF NoWorkers
<1> QED BY <1>1, FreshWorkers

LEMMA OneWorkerStep ==
    ASSUME Workers, NEW i \in DOMAIN worker, WorkerSelects(i) \/ WorkerStarts(i) \/ WorkerFinishes(i)
    PROVE  Workers'
<1>1. PICK st \in WorkerStates : worker' = [worker EXCEPT ![i] = st]
  BY DEF WorkerSelects, WorkerStarts, WorkerFinishes, WorkerStates
<1>2. DOMAIN worker' = DOMAIN worker
  BY <1>1
<1> QED BY <1>1, <1>2 DEF Workers

LEMMA WorkersStep ==
    ASSUME Workers, [Next]_vars
    PROVE  Workers'
<1>1. CASE worker' = worker
  BY <1>1 DEF Workers
<1>2. CASE worker' = NoWorkers
  BY <1>2, NoWorkersRun
<1>3. ASSUME NEW plan \in CallPlans, ChatAnswers(plan) PROVE Workers'
  <2>1. CASE worker' = [i \in DOMAIN plan |-> "queued"]
    <3>1. Len(plan) \in Nat /\ DOMAIN plan = 1..Len(plan)
      BY PlanIsSeq
    <3> QED BY <2>1, <3>1, FreshWorkers
  <2> QED BY <1>2, <1>3, <2>1 DEF ChatAnswers, Finish, RunReturns
<1>4. ASSUME NEW i \in DOMAIN worker, WorkerSelects(i) \/ WorkerStarts(i) \/ WorkerFinishes(i) PROVE Workers'
  BY <1>4, OneWorkerStep
<1>5. CASE RunRefused \/ Run \/ RewindLastUser \/ Cancel \/ ManualCompact \/ SaveIdle \/ Export
           \/ Reset \/ Crash \/ Resume \/ UNCHANGED vars
  BY <1>1, <1>2, <1>5 DEF RunRefused, Run, RewindLastUser, Cancel, ManualCompact, SaveIdle,
     Export, Reset, Crash, Resume, RunReturns, vars
<1>6. CASE OutOfTurns \/ TurnCancelled \/ TurnStarts \/ PreCompact \/ ChatFails
           \/ ChatOverflows \/ OverflowCompacted \/ OverflowFails \/ Serial \/ Gather \/ GatherResult
  BY <1>1, <1>2, <1>6 DEF OutOfTurns, TurnCancelled, TurnStarts, PreCompact, ChatFails,
     ChatOverflows, OverflowCompacted, OverflowFails, Serial, Gather, GatherResult, AppendNext,
     BatchDone, BatchCancelled, Finish, RunReturns
<1> QED BY <1>3, <1>4, <1>5, <1>6 DEF Next, RunStep

LEMMA WorkersAlways == Spec => []Workers
<1>1. Init => Workers
  <2> SUFFICES ASSUME Init PROVE Workers
    OBVIOUS
  <2>1. worker = [i \in 1..0 |-> "queued"]
    BY DEF Init, NoWorkers
  <2> QED BY <2>1 DEF Workers
<1>2. Workers /\ [Next]_vars => Workers'
  BY WorkersStep
<1> QED BY <1>1, <1>2, PTL DEF Spec

(***************************************************************************)
(* What the transcript reports of the last batch.                          *)
(***************************************************************************)

Parallel == {"parallel", "gather"}

\* In a parallel batch the goroutines are those of the last calling message, a tool was
\* started exactly where the goroutine says so, and before wg.Wait nothing is appended.
Told ==
    /\ pc \notin Parallel => Reported(msgs) = ran
    /\ pc \in Parallel =>
         /\ DOMAIN worker = DOMAIN msgs[LastCaller(msgs)].calls
         /\ ran = {i \in DOMAIN worker : worker[i] \in {"running", "finished"}}
         /\ Reported(msgs) = ran \cap Answered(msgs)
    /\ pc = "parallel" => Answered(msgs) = {}
    /\ pc = "gather" => \A i \in DOMAIN worker : worker[i] # "running"

LEMMA ToldOutside ==
    ASSUME pc' \notin Parallel, Reported(msgs') = ran'
    PROVE  Told'
BY DEF Told, Parallel

\* Steps outside of a batch that keep what is reported.
LEMMA ToldKept ==
    ASSUME Told, pc \notin Parallel, pc' \notin Parallel, ran' = ran,
           Reported(msgs') = Reported(msgs)
    PROVE  Told'
BY ToldOutside DEF Told

\* The next result of a batch.
LEMMA NextReported ==
    ASSUME Transcripts, pc \in Batch, NEW own \in BOOLEAN, AppendNext(own)
    PROVE  /\ LastCaller(msgs') = LastCaller(msgs)
           /\ msgs'[LastCaller(msgs')] = msgs[LastCaller(msgs)]
           /\ Head(Missing(msgs)) \in DOMAIN msgs[LastCaller(msgs)].calls
           /\ Reported(msgs') = IF own THEN Reported(msgs) \cup {Head(Missing(msgs))} ELSE Reported(msgs)
           /\ Answered(msgs') = Answered(msgs) \cup {Head(Missing(msgs))}
<1> DEFINE h == Head(Missing(msgs))
           msg == ToolResult(h, own)
<1>1. msgs \in Seq(Messages) /\ PartlyClosed(msgs) /\ Callers(msgs) # {}
  BY DEF Transcripts
<1>2. Missing(msgs) # <<>> /\ msgs' = Append(msgs, msg)
  BY DEF AppendNext, Checkpoint
<1>3. msg \in Messages /\ h \in DOMAIN msgs[LastCaller(msgs)].calls
  BY <1>1, <1>2, AppendResult
<1>4. msg.calls = <<>> /\ msg.role = "tool" /\ msg.call = h /\ msg.own = own
  BY DEF ToolResult, Message
<1> HIDE DEF h, msg
<1>5. /\ LastCaller(msgs') = LastCaller(msgs)
      /\ ~ own => Reported(msgs') = Reported(msgs)
      /\ own => Reported(msgs') = Reported(msgs) \cup {h}
      /\ Answered(msgs') = Answered(msgs) \cup {h}
  BY <1>1, <1>2, <1>3, <1>4, AppendReports
<1>6. msgs'[LastCaller(msgs)] = msgs[LastCaller(msgs)]
  BY <1>1, <1>2, <1>3, LastCallerIsLast, AppendProperties
<1> QED BY <1>3, <1>5, <1>6 DEF h

\* A gathered batch without missing results has reported everything that ran.
LEMMA GatheredAll ==
    ASSUME Transcripts, Told, pc = "gather", Missing(msgs) = <<>>
    PROVE  Reported(msgs) = ran
<1>1. msgs \in Seq(Messages) /\ PartlyClosed(msgs) /\ Callers(msgs) # {}
  BY DEF Transcripts, Batch
<1> DEFINE L == Len(msgs[LastCaller(msgs)].calls)
<1>2. L \in Nat /\ DOMAIN msgs[LastCaller(msgs)].calls = 1..L
  BY <1>1, LastCallerIsLast, CallsOf
<1>3. Done(msgs) \in 0..L /\ Open(msgs) = Done(msgs)+1..L
  BY <1>1, LastCallerAnswered
<1>4. 1..L - Done(msgs) = {}
  <2>1. DOMAIN Missing(msgs) = {}
    BY EmptySeq
  <2> QED BY <1>1, <2>1, MissingCalls
<1> HIDE DEF L
<1>5. Open(msgs) = {}
  <2>1. ~ (L - Done(msgs) >= 1)
    <3> SUFFICES ASSUME L - Done(msgs) >= 1 PROVE FALSE
      OBVIOUS
    <3>1. 1 \in 1..L - Done(msgs)
      BY <1>2, <1>3
    <3> QED BY <3>1, <1>4
  <2> QED BY <1>2, <1>3, <2>1
<1>6. DOMAIN msgs[LastCaller(msgs)].calls \subseteq Answered(msgs)
  BY <1>5 DEF Open
<1>7. ran \subseteq Answered(msgs)
  BY <1>6 DEF Told, Parallel
<1> QED BY <1>7 DEF Told, Parallel

\* A repair that ends a turn, or precedes the next message.
LEMMA ToldRepaired ==
    ASSUME Transcripts, Checkpoint(CloseOpenToolCalls(msgs)), Reported(msgs) = ran,
           ran' = ran, pc' \notin Parallel
    PROVE  Told'
<1>1. msgs' = CloseOpenToolCalls(msgs)
  BY DEF Checkpoint
<1>2. Reported(msgs') = Reported(msgs)
  BY <1>1, RepairReportsNothing DEF Transcripts
<1> QED BY <1>2, ToldOutside

LEMMA ToldInBatch ==
    ASSUME Transcripts, Told, Serial \/ Gather \/ GatherResult
    PROVE  Told'
<1> USE DEF Batch, Parallel
<1>1. CASE pc = "serial" /\ AppendNext(TRUE) /\ ran' = ran \cup {Head(Missing(msgs))}
  <2>1. Reported(msgs') = Reported(msgs) \cup {Head(Missing(msgs))}
    BY <1>1, NextReported
  <2>2. pc' = pc
    BY <1>1 DEF AppendNext
  <2> QED BY <1>1, <2>1, <2>2, ToldOutside DEF Told
<1>2. CASE pc = "serial" /\ BatchCancelled
  BY <1>2, ToldRepaired DEF BatchCancelled, Finish, Told
<1>3. CASE pc = "serial" /\ BatchDone
  BY <1>3, ToldKept DEF BatchDone
<1>4. CASE Gather
  <2>1. /\ pc = "parallel" /\ pc' = "gather" /\ msgs' = msgs /\ worker' = worker /\ ran' = ran
        /\ \A i \in DOMAIN worker : worker[i] \in {"finished", "refused"}
    BY <1>4 DEF Gather
  <2> QED BY <2>1 DEF Told
<1>5. CASE pc = "gather" /\ AppendNext(OwnResult(Head(Missing(msgs)))) /\ UNCHANGED ran
  <2> DEFINE h == Head(Missing(msgs))
             c == LastCaller(msgs)
  <2>1. OwnResult(h) \in BOOLEAN
    BY DEF OwnResult
  <2>2. /\ LastCaller(msgs') = c /\ msgs'[c] = msgs[c] /\ h \in DOMAIN msgs[c].calls
        /\ Reported(msgs') = IF OwnResult(h) THEN Reported(msgs) \cup {h} ELSE Reported(msgs)
        /\ Answered(msgs') = Answered(msgs) \cup {h}
    BY <1>5, <2>1, NextReported
  <2>3. pc' = pc /\ worker' = worker /\ ran' = ran
    BY <1>5 DEF AppendNext
  <2> HIDE DEF h, c
  <2>4. OwnResult(h) <=> h \in ran
    BY <1>5, <2>2 DEF Told, OwnResult, c
  <2>5. Reported(msgs') = ran \cap Answered(msgs')
    BY <1>5, <2>2, <2>4 DEF Told
  <2> QED BY <1>5, <2>2, <2>3, <2>5 DEF Told, c
<1>6. CASE pc = "gather" /\ Missing(msgs) = <<>> /\ BatchCancelled
  <2>1. Reported(msgs) = ran
    BY <1>6, GatheredAll
  <2> QED BY <1>6, <2>1, ToldRepaired DEF BatchCancelled, Finish
<1>7. CASE pc = "gather" /\ BatchDone
  <2>1. Missing(msgs) = <<>> /\ msgs' = msgs /\ ran' = ran /\ pc' = "turn"
    BY <1>7 DEF BatchDone
  <2>2. Reported(msgs) = ran
    BY <1>7, <2>1, GatheredAll
  <2> QED BY <2>1, <2>2, ToldOutside
<1> QED BY <1>1, <1>2, <1>3, <1>4, <1>5, <1>6, <1>7 DEF Serial, GatherResult

LEMMA ToldByWorkers ==
    ASSUME Told, NEW i \in DOMAIN worker,
           WorkerSelects(i) \/ WorkerStarts(i) \/ WorkerFinishes(i)
    PROVE  Told'
<1>1. pc = "parallel" /\ pc' = "parallel" /\ msgs' = msgs
  BY DEF WorkerSelects, WorkerStarts, WorkerFinishes
<1>2. DOMAIN worker' = DOMAIN worker
  BY DEF WorkerSelects, WorkerStarts, WorkerFinishes
<1>3. ran' = {k \in DOMAIN worker' : worker'[k] \in {"running", "finished"}}
  <2>1. ran = {k \in DOMAIN worker : worker[k] \in {"running", "finished"}}
    BY <1>1 DEF Told, Parallel
  <2>2. CASE WorkerSelects(i)
    BY <2>1, <2>2 DEF WorkerSelects
  <2>3. CASE WorkerStarts(i)
    BY <2>1, <2>3 DEF WorkerStarts
  <2>4. CASE WorkerFinishes(i)
    BY <2>1, <2>4 DEF WorkerFinishes
  <2> QED BY <2>2, <2>3, <2>4
<1>4. DOMAIN worker = DOMAIN msgs[LastCaller(msgs)].calls /\ Reported(msgs) = ran \cap Answered(msgs)
      /\ Answered(msgs) = {}
  BY <1>1 DEF Told, Parallel
<1> QED BY <1>1, <1>2, <1>3, <1>4 DEF Told, Parallel

LEMMA ToldByAnswer ==
    ASSUME Transcripts, Told, NEW plan \in CallPlans, ChatAnswers(plan)
    PROVE  Told'
<1> USE DEF Parallel
<1>1. msgs \in Seq(Messages) /\ pc \notin Parallel /\ msgs' = Append(msgs, Assistant(plan))
  BY DEF Transcripts, ChatAnswers, Checkpoint
<1>2. Assistant(plan) \in Messages /\ Assistant(plan).calls = plan /\ Assistant(plan).own = FALSE
  BY MessageShape DEF Assistant, Message
<1>3. CASE plan = <<>>
  <2>1. Reported(msgs') = Reported(msgs)
    BY <1>1, <1>2, <1>3, AppendReports
  <2>2. pc' = "idle" /\ ran' = ran
    BY <1>3 DEF ChatAnswers, Finish
  <2> QED BY <1>1, <2>1, <2>2, ToldKept
<1>4. CASE plan # <<>>
  <2>1. /\ Reported(msgs') = {} /\ Answered(msgs') = {}
        /\ msgs'[LastCaller(msgs')].calls = plan
    BY <1>1, <1>2, <1>4, CallerReports
  <2>2. ran' = {} /\ pc' \in {"parallel", "serial"}
    BY <1>4 DEF ChatAnswers
  <2>3. pc' = "parallel" => worker' = [i \in DOMAIN plan |-> "queued"]
    BY <1>4 DEF ChatAnswers
  <2>4. CASE pc' = "serial"
    BY <2>1, <2>2, <2>4, ToldOutside
  <2>5. CASE pc' = "parallel"
    <3>1. DOMAIN worker' = DOMAIN plan /\ \A i \in DOMAIN worker' : worker'[i] = "queued"
      BY <2>3, <2>5
    <3> QED BY <2>1, <2>2, <2>5, <3>1 DEF Told
  <2> QED BY <2>2, <2>4, <2>5
<1> QED BY <1>3, <1>4

LEMMA ToldStep ==
    ASSUME Transcripts, Told, [Next]_vars
    PROVE  Told'
<1> USE DEF Parallel
\* The last calling message may have changed: what ran is what is reported.
<1>1. CASE pc' \notin Parallel /\ LastBatchChanges
  BY <1>1, ToldOutside DEF LastBatchChanges
\* Nothing the property speaks of has changed.
<1>2. CASE pc \notin Parallel /\ pc' \notin Parallel /\ msgs' = msgs /\ ran' = ran
  BY <1>2, ToldKept
<1>3. CASE RunRefused \/ SaveIdle \/ Export
  BY <1>2, <1>3 DEF RunRefused, SaveIdle, Export, Checkpoint
<1>4. CASE Run
  <2> DEFINE m == CloseOpenToolCalls(msgs)
  <2>1. pc \notin Parallel /\ pc' = "turn" /\ ran' = ran /\ msgs' = Append(m, User)
    BY <1>4 DEF Run, Checkpoint
  <2>2. m \in Seq(Messages) /\ Reported(m) = Reported(msgs)
    BY RepairCloses, RepairReportsNothing DEF Transcripts
  <2> HIDE DEF m
  <2>3. User \in Messages /\ User.calls = <<>> /\ User.own = FALSE
    BY MessageShape DEF User, Message
  <2>4. Reported(msgs') = Reported(m)
    BY <2>1, <2>2, <2>3, AppendReports
  <2> QED BY <2>1, <2>2, <2>4, ToldKept
<1>5. CASE RewindLastUser \/ ManualCompact \/ Reset \/ Crash \/ Resume
  BY <1>1, <1>5 DEF RewindLastUser, ManualCompact, Reset, Crash, Resume
<1>6. CASE Cancel \/ UNCHANGED vars
  BY <1>6 DEF Cancel, vars, Told
<1>7. CASE OutOfTurns \/ TurnStarts \/ ChatFails \/ ChatOverflows
  BY <1>2, <1>7 DEF OutOfTurns, TurnStarts, ChatFails, ChatOverflows, Finish, Checkpoint
<1>8. CASE TurnCancelled
  BY <1>8, ToldRepaired DEF TurnCancelled, Finish, Told
<1>9. CASE PreCompact
  BY <1>1, <1>2, <1>9 DEF PreCompact
<1>10. CASE OverflowCompacted
  BY <1>1, <1>10 DEF OverflowCompacted
<1>11. CASE OverflowFails
  <2>1. pc = "overflow" /\ pc' = "idle"
    BY <1>11 DEF OverflowFails, Finish
  <2>2. (msgs' = msgs /\ ran' = ran) \/ LastBatchChanges
    BY <1>11 DEF OverflowFails, Checkpoint
  <2> QED BY <1>1, <1>2, <2>1, <2>2
<1>12. CASE \E plan \in CallPlans : ChatAnswers(plan)
  BY <1>12, ToldByAnswer
<1>13. CASE Serial \/ Gather \/ GatherResult
  BY <1>13, ToldInBatch
<1>14. CASE \E i \in DOMAIN worker : WorkerSelects(i) \/ WorkerStarts(i) \/ WorkerFinishes(i)
  BY <1>14, ToldByWorkers
<1> QED BY <1>3, <1>4, <1>5, <1>6, <1>7, <1>8, <1>9, <1>10, <1>11, <1>12, <1>13, <1>14
        DEF Next, RunStep

LEMMA ToldAlways == Spec => []Told
<1>1. Init => Told
  <2> SUFFICES ASSUME Init PROVE Told
    OBVIOUS
  <2>1. msgs = <<>> /\ pc = "idle" /\ ran = {}
    BY DEF Init
  <2>2. Callers(<<>>) = {}
    BY DEF Callers
  <2> QED BY <2>1, <2>2 DEF Told, Parallel, Reported
<1>2. Transcripts /\ Told /\ [Next]_vars => Told'
  BY ToldStep
<1> QED BY <1>1, <1>2, TranscriptsAlways, PTL DEF Spec

(***************************************************************************)
(* The theorems.                                                           *)
(***************************************************************************)

\* Type correctness of one agent, with the bounds of Run's counters.
THEOREM TypeCorrect == Spec => []TypeOK
<1>1. Transcripts /\ Counters /\ Workers => TypeOK
  <2> SUFFICES ASSUME Transcripts, Counters, Workers PROVE TypeOK
    OBVIOUS
  <2>1. pc \in Batch => \E i \in DOMAIN msgs : msgs[i].calls # <<>>
    BY DEF Transcripts, Callers
  <2> QED BY <2>1 DEF Transcripts, Counters, Workers, WorkerStates, TypeOK, Batch
<1> QED BY <1>1, TranscriptsAlways, CountersAlways, WorkersAlways, PTL

\* Every transcript a model call is made on, and every transcript a turn leaves, answers
\* each of its calls, at once and in order.
THEOREM TranscriptsAreClosed == Spec => []TranscriptClosed
<1>1. Transcripts => TranscriptClosed
  BY DEF Transcripts, TranscriptClosed, Batch
<1> QED BY <1>1, TranscriptsAlways, PTL

\* Whenever the process dies, LoadFile makes a closed transcript of the file.
THEOREM FileIsResumable == Spec => []StoredIsResumable
<1>1. Transcripts => StoredIsResumable
  BY RepairCloses DEF Transcripts, StoredIsResumable
<1> QED BY <1>1, TranscriptsAlways, PTL

\* Without a pending write error the file holds the transcript.
THEOREM FileFollowsTranscript == Spec => []StoredUnlessError
<1>1. Saved => StoredUnlessError
  BY DEF Saved
<1> QED BY <1>1, SavedAlways, PTL

\* A turn that ends with its own outcome has left all of its messages in the file.
THEOREM EndedTurnsAreStored == Spec => []EndedTurnIsStored
<1>1. Saved => EndedTurnIsStored
  BY DEF Saved
<1> QED BY <1>1, SavedAlways, PTL

\* For batches of any size and any number of slots: a call has its tool's own outcome in
\* the transcript exactly if its tool was started, however the cancellation falls.
THEOREM ResultsAreTold == Spec => []ResultsTellTheTruth
<1>1. Told => ResultsTellTheTruth
  BY DEF Told, Parallel, ResultsTellTheTruth
<1> QED BY <1>1, ToldAlways, PTL
=============================================================================
