----------------------------- MODULE SolarChat -----------------------------
(***************************************************************************)
(* One call of the service: Solar.Chat (internal/provider/upstage.go) with   *)
(* the attempts of PostJSONStream (internal/upstage/client.go) and the       *)
(* assembly of the streamed answer (internal/provider/sse.go); ProbeKey,     *)
(* which asks once and then posts with attempts of its own; an upload of     *)
(* document_parse or document_ocr, which is tried once.                      *)
(*                                                                         *)
(* The body of an answer is a sequence of lines: "data" with a chunk,       *)
(* "blank", "note" (whatever readSSE passes over) and "done".  Text is a    *)
(* sequence of atoms, of which Space is white space; reasoning is kept like *)
(* the content and left out, so are usage and the reason to stop.           *)
(***************************************************************************)
EXTENDS Integers, Sequences, FiniteSets

Seqs == INSTANCE SequencesExt
Sets == INSTANCE FiniteSetsExt

CONSTANTS
    MaxAttempts,  \* requests of one PostJSONStream (3 in the code)
    MaxAnswer,    \* atoms of an answer (8 MiB in the code)
    Scripts       \* bound: bodies a server may send

VARIABLES
    kind,     \* chat; probe, then post; upload
    phase,    \* try, sent, pause, open, returned
    attempt, options,  \* attempt of PostJSONStream; the request has stream_options
    cancelled,
    script, pos,  \* the body, and lines of it read
    data,     \* readSSE's lines of the event so far
    content, calls,  \* streamAcc
    shown,    \* what OnDelta was given
    result,   \* of Chat
    cut       \* history: the stream ended before its body

\* The lines of a body.  A chunk carries text and fragments of any number of calls.
Fragment == [index : Int, id : STRING, args : Seq(STRING)]
Chunk == [text : Seq(STRING), calls : Seq(Fragment), error : BOOLEAN]
Lines == [kind : {"blank", "note", "done"}] \cup [kind : {"data"}, chunk : Chunk]

IsBody(s) == s \in Seq(Lines)

streamVars == <<script, pos, data, content, calls, shown, cut>>
vars == <<kind, phase, attempt, options, cancelled, streamVars, result>>

None == [ok |-> FALSE, content |-> <<>>, calls |-> <<>>]
NoCall == [id |-> "", args |-> <<>>]

Init ==
    /\ kind \in {"chat", "probe", "upload"}
    /\ phase = "try" /\ attempt = 0 /\ options = (kind = "chat") /\ cancelled = FALSE
    /\ script = <<>> /\ pos = 0 /\ data = <<>>
    /\ content = <<>> /\ calls = <<>> /\ shown = <<>>
    /\ result = None /\ cut = FALSE

(***************************************************************************)
(* Requests.                                                               *)
(***************************************************************************)

Streams == kind = "chat"
Once == kind \in {"probe", "upload"}

Fail == phase' = "returned" /\ result' = None

\* The error of the first PostJSONStream may blame stream_options: once more without.
Refused(blame) ==
    IF options /\ blame
    THEN options' = FALSE /\ attempt' = 0 /\ phase' = "try" /\ UNCHANGED result
    ELSE Fail /\ UNCHANGED <<options, attempt>>

\* The end of an attempt that may be followed by another.  Mutant: it does not count.
SameAttempt == attempt
NextAttempt == attempt + 1
GoOn(blame) ==
    IF attempt + 1 < MaxAttempts
    THEN attempt' = NextAttempt /\ phase' = "try" /\ UNCHANGED <<options, result>>
    ELSE Refused(blame)

\* waitRetry has slept, or the context is cancelled.
Try ==
    /\ phase = "try"
    /\ \/ ~cancelled /\ phase' = "sent" /\ UNCHANGED result
       \/ cancelled /\ Fail
    /\ UNCHANGED <<kind, attempt, options, cancelled, streamVars>>

\* No connection, a broken one or, unless it is a stream, 180 seconds over.
Unreachable ==
    /\ phase = "sent"
    /\ IF cancelled \/ Once THEN Fail /\ UNCHANGED <<options, attempt>> ELSE GoOn(FALSE)
    /\ UNCHANGED <<kind, cancelled, streamVars>>

\* retryableStatus: 429, 502, 503, 504.
Status(retryable, blame) ==
    /\ phase = "sent" /\ ~Once
    /\ IF retryable THEN phase' = "pause" /\ UNCHANGED <<options, attempt, result>> ELSE Refused(blame)
    /\ UNCHANGED <<kind, cancelled, streamVars>>

\* sleepRetryAfter, after the last attempt too.
Paused(blame) ==
    /\ phase = "pause"
    /\ IF cancelled THEN Fail /\ UNCHANGED <<options, attempt>> ELSE GoOn(blame)
    /\ UNCHANGED <<kind, cancelled, streamVars>>

\* do: ProbeKey goes on to a chat of one token when the status is not about the key.
OnceStatus(denied) ==
    /\ phase = "sent" /\ Once
    /\ IF kind = "probe" /\ ~denied
       THEN kind' = "post" /\ phase' = "try" /\ UNCHANGED result
       ELSE Fail /\ UNCHANGED kind
    /\ UNCHANGED <<attempt, options, cancelled, streamVars>>

\* readCapped: the body, whole; too much of it, a broken connection or, of an upload,
\* no text in it is the end, without another attempt.
PlainBody(good) ==
    /\ phase = "sent" /\ ~Streams
    /\ phase' = "returned" /\ result' = [None EXCEPT !.ok = good]
    /\ UNCHANGED <<kind, attempt, options, cancelled, streamVars>>

Opens(s) ==
    /\ phase = "sent" /\ Streams
    /\ phase' = "open"
    /\ script' = s /\ pos' = 0
    /\ UNCHANGED <<kind, attempt, options, cancelled, data, content, calls, shown, result, cut>>

(***************************************************************************)
(* The answer.                                                             *)
(***************************************************************************)

\* Mutant: the latest fragment is taken for the whole.
ReplacedArgs(old, new) == new
JoinedArgs(old, new) == old \o new

Called(of, c) ==
    LET old == IF c.index \in DOMAIN of THEN of[c.index] ELSE NoCall
        new == [id |-> IF c.id # "" THEN c.id ELSE old.id, args |-> JoinedArgs(old.args, c.args)]
    IN  [i \in DOMAIN of \cup {c.index} |-> IF i = c.index THEN new ELSE of[i]]

\* apply: the text, then the fragments one by one.
AllCalled(of, fragments) ==
    LET after[n \in 0..Len(fragments)] == IF n = 0 THEN of ELSE Called(after[n - 1], fragments[n])
    IN  after[Len(fragments)]

NewContent(chunk) == content \o chunk.text
NewCalls(chunk) == AllCalled(calls, chunk.calls)

Size(text, of) == Len(text) + Sets!MapThenSumSet(LAMBDA i : Len(of[i].args), DOMAIN of)
TooLarge(chunk) == Size(NewContent(chunk), NewCalls(chunk)) > MaxAnswer

\* flush of an event that apply refuses: two chunks in one event, an error, a flood.
Spoilt == data # <<>> /\ (Len(data) > 1 \/ Head(data).error \/ TooLarge(Head(data)))

Flushed ==
    /\ data' = <<>>
    /\ IF data = <<>> THEN UNCHANGED <<content, calls, shown>>
       ELSE /\ content' = NewContent(Head(data)) /\ calls' = NewCalls(Head(data))
            /\ shown' = shown \o Head(data).text

\* strings.TrimSpace, and the arguments of a call that has none.
Space == " "
Trim(text) ==
    LET solid == {n \in 1..Len(text) : text[n] # Space}
    IN  IF solid = {} THEN <<>> ELSE SubSeq(text, Sets!Min(solid), Sets!Max(solid))
Input(args) == IF Trim(args) = <<>> THEN <<"{}">> ELSE Trim(args)

\* response: by index, as many as there are.
Response(text, of) ==
    LET at(i) == IF i \in DOMAIN of THEN <<[of[i] EXCEPT !.args = Input(@)]>> ELSE <<>>
    IN  [ok |-> TRUE, content |-> Trim(text),
         calls |-> Seqs!FlattenSeq([n \in 1..Cardinality(DOMAIN of) |-> at(n - 1)])]

Line == script[pos + 1]
More == phase = "open" /\ pos < Len(script)

TakeLine ==
    /\ More /\ Line.kind \in {"data", "note"}
    /\ pos' = pos + 1
    /\ data' = IF Line.kind = "data" THEN Append(data, Line.chunk) ELSE data
    /\ UNCHANGED <<kind, phase, attempt, options, cancelled, script, content, calls, shown, result, cut>>

EndEvent ==
    /\ More /\ Line.kind = "blank" /\ ~Spoilt
    /\ pos' = pos + 1
    /\ Flushed
    /\ UNCHANGED <<kind, phase, attempt, options, cancelled, script, result, cut>>

\* The last line, or a connection that is closed in good order before it.
Answered ==
    /\ phase = "open" /\ ~Spoilt
    /\ Flushed
    /\ phase' = "returned"
    /\ cut' = (More /\ Line.kind # "done")
    /\ result' = Response(content', calls')
    /\ UNCHANGED <<kind, attempt, options, cancelled, script, pos>>

\* At a blank line, at the end of the body or when the connection breaks.
Spoils ==
    /\ phase = "open" /\ Spoilt
    /\ Fail
    /\ UNCHANGED <<kind, attempt, options, cancelled, streamVars>>

\* The connection breaks, or the context is cancelled: the event so far is still handled.
Breaks ==
    /\ phase = "open" /\ ~Spoilt
    /\ Flushed
    /\ Fail
    /\ UNCHANGED <<kind, attempt, options, cancelled, script, pos, cut>>

Cancel ==
    /\ ~cancelled /\ phase # "returned"
    /\ cancelled' = TRUE
    /\ UNCHANGED <<kind, phase, attempt, options, streamVars, result>>

Timer == Try \/ \E blame \in BOOLEAN : Paused(blame)

Next ==
    \/ Timer \/ Unreachable
    \/ \E retryable, blame \in BOOLEAN : Status(retryable, blame)
    \/ \E denied \in BOOLEAN : OnceStatus(denied)
    \/ \E good \in BOOLEAN : PlainBody(good)
    \/ \E s \in Scripts : Opens(s)
    \/ TakeLine \/ EndEvent \/ Answered \/ Spoils \/ Breaks \/ Cancel

Spec == Init /\ [][Next]_vars

\* Timers run out, the time limit of the HTTP client among them, and a request whose
\* context is cancelled ends.  That a server answers, or goes on with its answer, is not
\* assumed: a stream has no time limit.
Fairness ==
    /\ WF_vars(Timer)
    /\ WF_vars(~Streams /\ (Unreachable \/ PlainBody(FALSE)))
    /\ WF_vars(cancelled /\ (Unreachable \/ Breaks \/ Spoils))

FairSpec == Spec /\ Fairness

(***************************************************************************)
(* Properties.                                                             *)
(***************************************************************************)

\* What the first n lines of a body say: the text of their chunks, and by index the
\* fragments of each call.
Text(line) == IF line.kind = "data" THEN line.chunk.text ELSE <<>>
Fragments(line) == IF line.kind = "data" THEN line.chunk.calls ELSE <<>>
ArgsOf(fragments, i) ==
    Seqs!FlattenSeq([k \in 1..Len(fragments) |->
        IF fragments[k].index = i THEN fragments[k].args ELSE <<>>])
IndicesOf(fragments) == {fragments[k].index : k \in 1..Len(fragments)}

SaidText(s, n) == Seqs!FlattenSeq([k \in 1..n |-> Text(s[k])])
SaidArgs(s, n, i) == Seqs!FlattenSeq([k \in 1..n |-> ArgsOf(Fragments(s[k]), i)])
Indices(s, n) == UNION {IndicesOf(Fragments(s[k])) : k \in 1..n}
Gapless(s, n) == Indices(s, n) = 0..(Cardinality(Indices(s, n)) - 1)

\* The lines before [DONE].
Ends(s, n) == n = Len(s) \/ s[n + 1].kind = "done"
Before(s, n) == \A k \in 1..n : s[k].kind # "done"

\* Hazard: fragments of several calls come interleaved, an attempt may have failed
\* before, and the stream may end anywhere.  An answer that Chat returns is what the
\* server has said as far as it was read, which is to the end unless the stream was closed
\* early: its text, without the white space around it, and the arguments of its calls, by
\* index; the user was shown that text meanwhile.  Of calls with a gap in their indices
\* some are missing (sse.go apply and response, upstage.go Chat).
Tells(answer, s, n) ==
    /\ answer.content = Trim(SaidText(s, n))
    /\ \A m \in 1..Len(answer.calls) : \E i \in Indices(s, n) :
          answer.calls[m].args = Input(SaidArgs(s, n, i)) /\ (Gapless(s, n) => i = m - 1)
    /\ Gapless(s, n) => Len(answer.calls) = Cardinality(Indices(s, n))

AnswerIsServers ==
    result.ok =>
        \E n \in 0..Len(script) :
           /\ Before(script, n) /\ (cut \/ Ends(script, n))
           /\ shown = SaidText(script, n) /\ Tells(result, script, n)

\* Hazard: two rounds of attempts with two sleeps between them, and servers that refuse,
\* vanish or stall.  A call returns; only a stream may wait for a server that neither
\* answers nor closes the connection, and then for a cancellation (client.go
\* PostJSONStream, PostJSON, do).
Stalled == Streams /\ phase \in {"sent", "open"} /\ ~cancelled
Over == phase \notin {"try", "sent", "pause", "open"}
ChatReturns == <>[](Over \/ Stalled) /\ (cancelled ~> Over)
=============================================================================
