--------------------------- MODULE TurnCalls_proofs ---------------------------
(***************************************************************************)
(* For bodies of any length, in any number of pieces: what Chat returns is  *)
(* what the server has said as far as it was read.  And the tools behave    *)
(* between calls of the model as ToolRun_proofs shows they do without it.   *)
(*                                                                         *)
(* Applied says what the assembly holds after n lines of the body, LoopAt   *)
(* what it holds after the first k fragments of a line.  The lemmas about   *)
(* sequences put together from pieces come first.                          *)
(***************************************************************************)
EXTENDS TurnCalls, ToolRun_proofs

(***************************************************************************)
(* Sequences put together from pieces.                                     *)
(***************************************************************************)

\* f holds what the first pieces make, for each number of them up to n.
IsFlat(f, seqs, n) == f = [i \in 1..n |-> IF i = 1 THEN seqs[i] ELSE f[i - 1] \o seqs[i]]

LEMMA FlatExists ==
    ASSUME NEW seqs, NEW N \in Nat
    PROVE  \E f : IsFlat(f, seqs, N)
<1> DEFINE Bad == {n \in Nat : ~ \E f : IsFlat(f, seqs, n)}
<1>1. SUFFICES ASSUME Bad # {} PROVE FALSE
  OBVIOUS
<1>2. PICK n \in Bad : \A m \in Bad : n <= m
  BY <1>1, LeastNat
<1>3. CASE n = 0
  <2>1. IsFlat([i \in 1..0 |-> 0], seqs, 0)
    BY DEF IsFlat
  <2> QED BY <1>2, <1>3, <2>1
<1>4. CASE n # 0
  <2>1. n - 1 \in Nat /\ n - 1 \notin Bad
    BY <1>2, <1>4
  <2>2. PICK f : IsFlat(f, seqs, n - 1)
    BY <2>1
  <2> DEFINE g == [i \in 1..n |-> IF i < n THEN f[i] ELSE IF n = 1 THEN seqs[n] ELSE f[n - 1] \o seqs[n]]
  <2>3. \A i \in 1..n : g[i] = IF i = 1 THEN seqs[i] ELSE g[i - 1] \o seqs[i]
    <3> SUFFICES ASSUME NEW i \in 1..n PROVE g[i] = IF i = 1 THEN seqs[i] ELSE g[i - 1] \o seqs[i]
      OBVIOUS
    <3>1. i < n => i \in 1..(n - 1)
      BY <1>2
    <3>2. i < n => f[i] = IF i = 1 THEN seqs[i] ELSE f[i - 1] \o seqs[i]
      BY <2>2, <3>1 DEF IsFlat
    <3>3. i # 1 => i - 1 \in 1..n /\ i - 1 < n
      BY <1>2
    <3> QED BY <3>2, <3>3, <1>2
  <2>4. IsFlat(g, seqs, n)
    BY <2>3 DEF IsFlat
  <2> QED BY <1>2, <2>4
<1> QED BY <1>3, <1>4

LEMMA FlatAgree ==
    ASSUME NEW seqs, NEW more, NEW N \in Nat, NEW M \in Nat, M <= N, NEW f, NEW g,
           IsFlat(f, more, N), IsFlat(g, seqs, M), \A i \in 1..M : more[i] = seqs[i]
    PROVE  \A i \in 1..M : f[i] = g[i]
<1> DEFINE Bad == {i \in 1..M : f[i] # g[i]}
<1>1. SUFFICES ASSUME Bad # {} PROVE FALSE
  OBVIOUS
<1>2. PICK i \in Bad : \A j \in Bad : i <= j
  <2>1. Bad \in SUBSET Nat
    OBVIOUS
  <2> QED BY <1>1, <2>1, LeastNat
<1>3. i \in 1..M /\ i \in 1..N
  BY <1>2
<1>4. f[i] = IF i = 1 THEN more[i] ELSE f[i - 1] \o more[i]
  BY <1>3 DEF IsFlat
<1>5. g[i] = IF i = 1 THEN seqs[i] ELSE g[i - 1] \o seqs[i]
  BY <1>3 DEF IsFlat
<1>6. i # 1 => f[i - 1] = g[i - 1]
  <2>1. i # 1 => i - 1 \in 1..M /\ ~ (i <= i - 1)
    BY <1>3
  <2> QED BY <1>2, <2>1
<1> QED BY <1>2, <1>3, <1>4, <1>5, <1>6

LEMMA FlatIs ==
    ASSUME NEW seqs, NEW n \in Nat, Len(seqs) = n, n > 0, NEW f, IsFlat(f, seqs, n)
    PROVE  Chat!Seqs!FlattenSeq(seqs) = f[n]
<1> DEFINE h == CHOOSE g : IsFlat(g, seqs, n)
<1>1. IsFlat(h, seqs, n)
  OBVIOUS
<1>2. Chat!Seqs!FlattenSeq(seqs) = h[n]
  BY DEF Chat!Seqs!FlattenSeq, IsFlat
<1>3. h[n] = f[n]
  <2> HIDE DEF h
  <2> QED BY <1>1, FlatAgree
<1> QED BY <1>2, <1>3

\* One piece more: it comes at the end.
LEMMA FlatNext ==
    ASSUME NEW n \in Nat, n > 0, NEW seqs, NEW more, Len(seqs) = n, Len(more) = n + 1,
           \A i \in 1..n : more[i] = seqs[i]
    PROVE  Chat!Seqs!FlattenSeq(more) = Chat!Seqs!FlattenSeq(seqs) \o more[n + 1]
<1>0. PICK m \in Nat : m = n + 1
  OBVIOUS
<1>1. PICK f : IsFlat(f, more, m)
  BY FlatExists
<1>2. PICK g : IsFlat(g, seqs, n)
  BY FlatExists
<1>3. Chat!Seqs!FlattenSeq(more) = f[m]
  BY <1>0, <1>1, FlatIs
<1>4. Chat!Seqs!FlattenSeq(seqs) = g[n]
  BY <1>2, FlatIs
<1>5. f[m] = f[n] \o more[m]
  <2>1. m \in 1..m /\ m - 1 = n /\ m # 1
    BY <1>0
  <2> QED BY <1>1, <2>1 DEF IsFlat
<1>6. f[n] = g[n]
  <2>1. n <= m /\ n \in 1..n
    BY <1>0
  <2>2. \A i \in 1..n : f[i] = g[i]
    BY <1>1, <1>2, <2>1, FlatAgree
  <2> QED BY <2>1, <2>2
<1> QED BY <1>0, <1>3, <1>4, <1>5, <1>6

LEMMA FlattenNext ==
    ASSUME NEW S, NEW n \in Nat, NEW seqs \in Seq(Seq(S)), NEW more \in Seq(Seq(S)),
           Len(seqs) = n, Len(more) = n + 1, \A i \in 1..n : more[i] = seqs[i]
    PROVE  Chat!Seqs!FlattenSeq(more) = Chat!Seqs!FlattenSeq(seqs) \o more[n + 1]
<1>1. CASE n > 0
  BY <1>1, FlatNext
<1>2. CASE n = 0
  <2>1. PICK m \in Nat : m = n + 1
    OBVIOUS
  <2>2. PICK f : IsFlat(f, more, m)
    BY FlatExists
  <2>3. Chat!Seqs!FlattenSeq(more) = f[m]
    BY <2>1, <2>2, FlatIs
  <2>4. f[m] = more[m]
    <3>1. m = 1 /\ m \in 1..m
      BY <1>2, <2>1
    <3> QED BY <2>2, <3>1 DEF IsFlat
  <2>5. Chat!Seqs!FlattenSeq(seqs) = <<>>
    BY <1>2 DEF Chat!Seqs!FlattenSeq
  <2>6. more[m] \in Seq(S)
    BY <2>1
  <2>7. <<>> \o more[m] = more[m]
    BY <2>6
  <2> QED BY <2>1, <2>3, <2>4, <2>5, <2>7
<1> QED BY <1>1, <1>2

LEMMA FlattenNone == Chat!Seqs!FlattenSeq(<<>>) = <<>>
BY DEF Chat!Seqs!FlattenSeq

LEMMA FlattenType ==
    ASSUME NEW S, NEW pieces \in Seq(Seq(S))
    PROVE  Chat!Seqs!FlattenSeq(pieces) \in Seq(S)
<1>0. PICK N \in Nat : N = Len(pieces) /\ pieces = [m \in 1..N |-> pieces[m]]
  OBVIOUS
<1> DEFINE Bad == {k \in 0..N : Chat!Seqs!FlattenSeq([m \in 1..k |-> pieces[m]]) \notin Seq(S)}
<1>1. SUFFICES ASSUME Bad # {} PROVE FALSE
  <2>1. Bad = {} => N \notin Bad /\ N \in 0..N
    OBVIOUS
  <2> QED BY <1>0, <2>1
<1>2. PICK k \in Bad : \A j \in Bad : k <= j
  <2>1. Bad \in SUBSET Nat
    OBVIOUS
  <2> QED BY <1>1, <2>1, LeastNat
<1>3. CASE k = 0
  <2>1. [m \in 1..0 |-> pieces[m]] = <<>> /\ <<>> \in Seq(S)
    OBVIOUS
  <2> QED BY <1>2, <1>3, <2>1, FlattenNone, Zenon
<1>4. CASE k # 0
  <2>1. PICK j \in Nat : k = j + 1
    <3>1. k - 1 \in Nat /\ k = (k - 1) + 1
      BY <1>2, <1>4
    <3> QED BY <3>1
  <2> DEFINE seqs == [m \in 1..j |-> pieces[m]]
             more == [m \in 1..(j + 1) |-> pieces[m]]
  <2>2. Chat!Seqs!FlattenSeq(seqs) \in Seq(S)
    <3>1. j \in 0..N /\ ~ (k <= j)
      BY <1>2, <2>1
    <3> QED BY <1>2, <3>1
  <2>3. /\ seqs \in Seq(Seq(S)) /\ more \in Seq(Seq(S))
        /\ Len(seqs) = j /\ Len(more) = j + 1 /\ \A i \in 1..j : more[i] = seqs[i]
        /\ more[j + 1] \in Seq(S)
    <3>1. 1..j \subseteq 1..N /\ 1..(j + 1) \subseteq 1..N /\ j + 1 \in 1..N
      BY <1>2, <2>1
    <3>2. \A m \in 1..N : pieces[m] \in Seq(S)
      BY <1>0
    <3>3. \A m \in 1..(j + 1) : pieces[m] \in Seq(S)
      BY ONLY <3>1, <3>2
    <3> QED BY ONLY <3>3, j \in Nat
  <2>4. Chat!Seqs!FlattenSeq(more) = Chat!Seqs!FlattenSeq(seqs) \o more[j + 1]
    <3> HIDE DEF seqs, more
    <3> QED BY <2>3, FlattenNext
  <2>5. Chat!Seqs!FlattenSeq(more) \in Seq(S)
    <3> HIDE DEF seqs, more
    <3> QED BY <2>2, <2>3, <2>4
  <2> QED BY <1>2, <2>1, <2>5
<1> QED BY <1>3, <1>4

(***************************************************************************)
(* What a body says in one line more.                                      *)
(***************************************************************************)

LEMMA PiecesType ==
    ASSUME NEW fragments \in Seq(Chat!Fragment), NEW i
    PROVE  Chat!ArgsOf(fragments, i) \in Seq(STRING)
<1> DEFINE seqs == [k \in 1..Len(fragments) |-> IF fragments[k].index = i THEN fragments[k].args ELSE <<>>]
<1>1. ASSUME NEW k \in 1..Len(fragments) PROVE fragments[k].args \in Seq(STRING)
  <2>1. fragments[k] \in Chat!Fragment
    OBVIOUS
  <2> QED BY <2>1 DEF Chat!Fragment
<1>2. seqs \in Seq(Seq(STRING))
  <2>1. ASSUME NEW k \in 1..Len(fragments) PROVE seqs[k] \in Seq(STRING)
    <3>1. <<>> \in Seq(STRING)
      OBVIOUS
    <3>2. seqs[k] = IF fragments[k].index = i THEN fragments[k].args ELSE <<>>
      OBVIOUS
    <3> QED BY <1>1, <3>1, <3>2, Zenon
  <2> QED BY <2>1
<1>3. Chat!ArgsOf(fragments, i) = Chat!Seqs!FlattenSeq(seqs)
  BY DEF Chat!ArgsOf
<1> HIDE DEF seqs
<1> QED BY <1>2, <1>3, FlattenType

LEMMA LineType ==
    ASSUME NEW s, Chat!IsBody(s), NEW k \in 1..Len(s)
    PROVE  /\ s[k] \in Chat!Lines
           /\ Chat!Text(s[k]) \in Seq(STRING)
           /\ Chat!Fragments(s[k]) \in Seq(Chat!Fragment)
           /\ \A i : Chat!ArgsOf(Chat!Fragments(s[k]), i) \in Seq(STRING)
           /\ s[k].kind \in {"blank", "note", "done", "data"}
           /\ s[k].kind = "data" => s[k].chunk \in Chat!Chunk
<1>1. s[k] \in Chat!Lines
  BY DEF Chat!IsBody
<1>2. /\ s[k].kind \in {"blank", "note", "done", "data"}
      /\ s[k].kind = "data" => s[k].chunk \in Chat!Chunk
  BY <1>1 DEF Chat!Lines
<1>3. Chat!Text(s[k]) \in Seq(STRING) /\ Chat!Fragments(s[k]) \in Seq(Chat!Fragment)
  <2>1. CASE s[k].kind # "data"
    BY <2>1 DEF Chat!Text, Chat!Fragments
  <2>2. CASE s[k].kind = "data"
    BY <1>2, <2>2 DEF Chat!Text, Chat!Fragments, Chat!Chunk
  <2> QED BY <2>1, <2>2
<1>4. \A i : Chat!ArgsOf(Chat!Fragments(s[k]), i) \in Seq(STRING)
  BY <1>3, PiecesType
<1> QED BY <1>1, <1>2, <1>3, <1>4

OneMore(s, n) ==
    /\ Chat!SaidText(s, n + 1) = Chat!SaidText(s, n) \o Chat!Text(s[n + 1])
    /\ \A i : Chat!SaidArgs(s, n + 1, i) = Chat!SaidArgs(s, n, i) \o Chat!ArgsOf(Chat!Fragments(s[n + 1]), i)
    /\ Chat!Indices(s, n + 1) = Chat!Indices(s, n) \cup Chat!IndicesOf(Chat!Fragments(s[n + 1]))

LEMMA SaidNext ==
    ASSUME NEW s, Chat!IsBody(s), NEW n \in 0..(Len(s) - 1)
    PROVE  OneMore(s, n)
<1>0. Len(s) \in Nat
  BY DEF Chat!IsBody
<1>1. /\ n \in Nat /\ n + 1 \in 1..Len(s)
      /\ 1..n \subseteq 1..Len(s) /\ 1..(n + 1) \subseteq 1..Len(s)
  BY <1>0
<1>2. Chat!SaidText(s, n + 1) = Chat!SaidText(s, n) \o Chat!Text(s[n + 1])
  <2> DEFINE seqs == [k \in 1..n |-> Chat!Text(s[k])]
             more == [k \in 1..(n + 1) |-> Chat!Text(s[k])]
  <2>1. \A k \in 1..Len(s) : Chat!Text(s[k]) \in Seq(STRING)
    BY LineType
  <2>2. /\ seqs \in Seq(Seq(STRING)) /\ more \in Seq(Seq(STRING))
        /\ Len(seqs) = n /\ Len(more) = n + 1 /\ \A i \in 1..n : more[i] = seqs[i]
        /\ more[n + 1] = Chat!Text(s[n + 1])
    BY <1>1, <2>1
  <2>3. Chat!SaidText(s, n) = Chat!Seqs!FlattenSeq(seqs) /\ Chat!SaidText(s, n + 1) = Chat!Seqs!FlattenSeq(more)
    BY DEF Chat!SaidText
  <2> HIDE DEF seqs, more
  <2>4. n \in Nat
    BY <1>1
  <2>5. Chat!Seqs!FlattenSeq(more) = Chat!Seqs!FlattenSeq(seqs) \o more[n + 1]
    BY ONLY <2>2, <2>4, FlattenNext
  <2> QED BY <2>2, <2>3, <2>5
<1>3. ASSUME NEW i
      PROVE  Chat!SaidArgs(s, n + 1, i) = Chat!SaidArgs(s, n, i) \o Chat!ArgsOf(Chat!Fragments(s[n + 1]), i)
  <2> DEFINE seqs == [k \in 1..n |-> Chat!ArgsOf(Chat!Fragments(s[k]), i)]
             more == [k \in 1..(n + 1) |-> Chat!ArgsOf(Chat!Fragments(s[k]), i)]
  <2>1. \A k \in 1..Len(s) : Chat!ArgsOf(Chat!Fragments(s[k]), i) \in Seq(STRING)
    BY LineType
  <2>2. /\ seqs \in Seq(Seq(STRING)) /\ more \in Seq(Seq(STRING))
        /\ Len(seqs) = n /\ Len(more) = n + 1 /\ \A k \in 1..n : more[k] = seqs[k]
        /\ more[n + 1] = Chat!ArgsOf(Chat!Fragments(s[n + 1]), i)
    BY <1>1, <2>1
  <2>3. Chat!SaidArgs(s, n, i) = Chat!Seqs!FlattenSeq(seqs) /\ Chat!SaidArgs(s, n + 1, i) = Chat!Seqs!FlattenSeq(more)
    BY DEF Chat!SaidArgs
  <2> HIDE DEF seqs, more
  <2>4. n \in Nat
    BY <1>1
  <2>5. Chat!Seqs!FlattenSeq(more) = Chat!Seqs!FlattenSeq(seqs) \o more[n + 1]
    BY ONLY <2>2, <2>4, FlattenNext
  <2> QED BY <2>2, <2>3, <2>5
<1>4. 1..(n + 1) = 1..n \cup {n + 1}
  BY <1>1
<1>5. Chat!Indices(s, n + 1) = Chat!Indices(s, n) \cup Chat!IndicesOf(Chat!Fragments(s[n + 1]))
  <2> DEFINE of(k) == Chat!IndicesOf(Chat!Fragments(s[k]))
  <2>1. UNION {of(k) : k \in 1..(n + 1)} = (UNION {of(k) : k \in 1..n}) \cup of(n + 1)
    <3> HIDE DEF of
    <3> QED BY <1>4
  <2> QED BY <2>1 DEF Chat!Indices
<1> QED BY <1>2, <1>3, <1>5 DEF OneMore

LEMMA SaidNothing ==
    ASSUME NEW s
    PROVE  /\ Chat!SaidText(s, 0) = <<>>
           /\ \A i : Chat!SaidArgs(s, 0, i) = <<>>
           /\ Chat!Indices(s, 0) = {}
<1>1. \A f : [k \in 1..0 |-> f[k]] = <<>>
  OBVIOUS
<1>2. [k \in 1..0 |-> Chat!Text(s[k])] = <<>> /\ \A i : [k \in 1..0 |-> Chat!ArgsOf(Chat!Fragments(s[k]), i)] = <<>>
  OBVIOUS
<1> QED BY <1>2, FlattenNone DEF Chat!SaidText, Chat!SaidArgs, Chat!Indices

(***************************************************************************)
(* The assembly.                                                           *)
(***************************************************************************)

CallRecord == [id : STRING \cup {""}, args : Seq(STRING)]
Sound(of) ==
    DOMAIN of \in SUBSET Int /\ IsFiniteSet(DOMAIN of) /\ \A i \in DOMAIN of : of[i] \in CallRecord

\* What of has of the call with an index.
Held(of, i) == IF i \in DOMAIN of THEN of[i].args ELSE <<>>

\* text and of are what the first n lines of s say.
Applied(text, of, s, n) ==
    /\ text = Chat!SaidText(s, n) /\ text \in Seq(STRING)
    /\ Sound(of) /\ DOMAIN of = Chat!Indices(s, n)
    /\ \A i : Held(of, i) = Chat!SaidArgs(s, n, i)

LEMMA HeldType ==
    ASSUME NEW of, Sound(of), NEW i
    PROVE  Held(of, i) \in Seq(STRING)
<1>1. CASE i \in DOMAIN of
  BY <1>1 DEF Held, Sound, CallRecord
<1>2. CASE i \notin DOMAIN of
  BY <1>2 DEF Held
<1> QED BY <1>1, <1>2

LEMMA NothingApplied ==
    ASSUME NEW s
    PROVE  Applied(<<>>, <<>>, s, 0)
<1>1. DOMAIN <<>> = {} /\ <<>> \in Seq(STRING)
  OBVIOUS
<1>2. IsFiniteSet({})
  BY FS_EmptySet
<1>3. Sound(<<>>)
  BY <1>1, <1>2 DEF Sound
<1>4. \A i : Held(<<>>, i) = <<>>
  BY <1>1 DEF Held
<1> QED BY <1>1, <1>3, <1>4, SaidNothing DEF Applied

\* A line that is not a chunk says nothing.
LEMMA QuietLine ==
    ASSUME NEW s, Chat!IsBody(s), NEW n \in 0..(Len(s) - 1), s[n + 1].kind # "data",
           NEW text, NEW of, Applied(text, of, s, n)
    PROVE  Applied(text, of, s, n + 1)
<1>0. OneMore(s, n)
  BY SaidNext
<1>1. Chat!Text(s[n + 1]) = <<>> /\ Chat!Fragments(s[n + 1]) = <<>>
  BY DEF Chat!Text, Chat!Fragments
<1>2. \A i : Chat!ArgsOf(<<>>, i) = <<>>
  <2> TAKE i
  <2>1. \A f : [k \in 1..Len(<<>>) |-> IF f[k].index = i THEN f[k].args ELSE <<>>] = <<>>
    OBVIOUS
  <2> QED BY <2>1, FlattenNone DEF Chat!ArgsOf
<1>3. Chat!IndicesOf(<<>>) = {}
  BY DEF Chat!IndicesOf
<1>4. Chat!Indices(s, n + 1) = Chat!Indices(s, n)
  BY <1>0, <1>1, <1>3 DEF OneMore
<1>5. Chat!SaidText(s, n + 1) = text
  <2>1. Chat!SaidText(s, n + 1) = Chat!SaidText(s, n) \o <<>>
    BY <1>0, <1>1 DEF OneMore
  <2>2. text = Chat!SaidText(s, n) /\ text \in Seq(STRING)
    BY DEF Applied
  <2> QED BY <2>1, <2>2, ConcatEmptySeq
<1>6. ASSUME NEW i PROVE Held(of, i) = Chat!SaidArgs(s, n + 1, i)
  <2>1. Chat!SaidArgs(s, n + 1, i) = Chat!SaidArgs(s, n, i) \o <<>>
    BY <1>0, <1>1, <1>2, Zenon DEF OneMore
  <2>2. Held(of, i) = Chat!SaidArgs(s, n, i) /\ Held(of, i) \in Seq(STRING)
    BY HeldType DEF Applied
  <2> QED BY <2>1, <2>2, ConcatEmptySeq
<1> QED BY <1>4, <1>5, <1>6, Zenon DEF Applied

\* One fragment: what apply makes of it.
LEMMA CalledHolds ==
    ASSUME NEW of, Sound(of), NEW c \in Chat!Fragment
    PROVE  /\ Sound(Chat!Called(of, c))
           /\ DOMAIN Chat!Called(of, c) = DOMAIN of \cup {c.index}
           /\ \A i : Held(Chat!Called(of, c), i) = Held(of, i) \o (IF c.index = i THEN c.args ELSE <<>>)
<1> DEFINE new == Chat!Called(of, c)
<1>1. c.index \in Int /\ c.id \in STRING /\ c.args \in Seq(STRING)
  BY DEF Chat!Fragment
<1>2. PICK old : old = IF c.index \in DOMAIN of THEN of[c.index] ELSE Chat!NoCall
  OBVIOUS
<1>3. old \in CallRecord /\ old.args = Held(of, c.index)
  <2>1. CASE c.index \in DOMAIN of
    BY <1>2, <2>1 DEF Sound, Held
  <2>2. CASE c.index \notin DOMAIN of
    <3>1. old = [id |-> "", args |-> <<>>]
      BY <1>2, <2>2 DEF Chat!NoCall
    <3>2. <<>> \in Seq(STRING)
      OBVIOUS
    <3>3. old \in CallRecord /\ old.args = <<>>
      <4>1. PICK id \in STRING \cup {""}, args \in Seq(STRING) : id = "" /\ args = <<>>
        BY <3>2, Zenon
      <4>2. old = [id |-> id, args |-> args]
        BY <3>1, <4>1, Zenon
      <4>3. old \in CallRecord /\ old.args = args
        BY <4>2 DEF CallRecord
      <4> QED BY <4>1, <4>3, Zenon
    <3> QED BY <2>2, <3>3, Zenon DEF Held
  <2> QED BY <2>1, <2>2
<1>4. PICK id, args : /\ id = IF c.id # "" THEN c.id ELSE old.id
                      /\ args = Chat!JoinedArgs(old.args, c.args)
  OBVIOUS
<1>5. id \in STRING \cup {""} /\ args \in Seq(STRING)
  <2>1. old.id \in STRING \cup {""} /\ old.args \in Seq(STRING)
    BY <1>3 DEF CallRecord
  <2>2. old.args \o c.args \in Seq(STRING)
    BY <1>1, <2>1, ConcatProperties
  <2>3. args \in Seq(STRING)
    BY <1>4, <2>2, Zenon DEF Chat!JoinedArgs
  <2>4. id \in STRING \cup {""}
    BY <1>1, <1>4, <2>1, Zenon
  <2> QED BY <2>3, <2>4
<1>6. PICK joined : joined = [id |-> id, args |-> args]
  OBVIOUS
<1>7. new = [i \in DOMAIN of \cup {c.index} |-> IF i = c.index THEN joined ELSE of[i]]
  BY <1>2, <1>4, <1>6 DEF Chat!Called
<1> HIDE DEF new
<1>8. joined \in CallRecord /\ joined.args = Held(of, c.index) \o c.args
  <2>1. joined \in CallRecord /\ joined.args = args
    BY <1>5, <1>6 DEF CallRecord
  <2> QED BY <1>3, <1>4, <2>1, Zenon DEF Chat!JoinedArgs
<1>9. DOMAIN new = DOMAIN of \cup {c.index}
  BY <1>7
<1>10. Sound(new)
  <2>1. IsFiniteSet(DOMAIN of \cup {c.index})
    BY FS_AddElement DEF Sound
  <2>2. \A i \in DOMAIN new : new[i] \in CallRecord
    BY <1>7, <1>8 DEF Sound
  <2> QED BY <1>1, <1>9, <2>1, <2>2 DEF Sound
<1>11. ASSUME NEW i PROVE Held(new, i) = Held(of, i) \o (IF c.index = i THEN c.args ELSE <<>>)
  <2>1. CASE i = c.index
    <3>1. Held(new, i) = joined.args
      BY <1>7, <1>9, <2>1 DEF Held
    <3> QED BY <1>8, <2>1, <3>1, Zenon
  <2>2. CASE i # c.index
    <3>1. Held(new, i) = Held(of, i)
      BY <1>7, <1>9, <2>2 DEF Held
    <3>2. Held(of, i) \in Seq(STRING)
      BY HeldType
    <3>3. Held(of, i) \o <<>> = Held(of, i)
      BY <3>2, ConcatEmptySeq
    <3> QED BY <2>2, <3>1, <3>3, Zenon
  <2> QED BY <2>1, <2>2
<1> QED BY <1>9, <1>10, <1>11 DEF new

\* All of a chunk: f holds what the first fragments make, for each number of them up to n.
IsLoop(f, of, fragments, n) ==
    f = [k \in 0..n |-> IF k = 0 THEN of ELSE Chat!Called(f[k - 1], fragments[k])]

LEMMA LoopExists ==
    ASSUME NEW of, NEW fragments, NEW N \in Nat
    PROVE  \E f : IsLoop(f, of, fragments, N)
<1> DEFINE Bad == {n \in Nat : ~ \E f : IsLoop(f, of, fragments, n)}
<1>1. SUFFICES ASSUME Bad # {} PROVE FALSE
  OBVIOUS
<1>2. PICK n \in Bad : \A m \in Bad : n <= m
  BY <1>1, LeastNat
<1>3. CASE n = 0
  <2> DEFINE g == [k \in 0..0 |-> of]
  <2>1. \A k \in 0..0 : g[k] = IF k = 0 THEN of ELSE Chat!Called(g[k - 1], fragments[k])
    OBVIOUS
  <2>2. IsLoop(g, of, fragments, 0)
    BY <2>1 DEF IsLoop
  <2> QED BY <1>2, <1>3, <2>2
<1>4. CASE n # 0
  <2>1. n - 1 \in Nat /\ n - 1 \notin Bad
    BY <1>2, <1>4
  <2>2. PICK f : IsLoop(f, of, fragments, n - 1)
    BY <2>1
  <2> DEFINE g == [k \in 0..n |-> IF k < n THEN f[k] ELSE Chat!Called(f[n - 1], fragments[n])]
  <2>3. \A k \in 0..n : g[k] = IF k = 0 THEN of ELSE Chat!Called(g[k - 1], fragments[k])
    <3> SUFFICES ASSUME NEW k \in 0..n
                 PROVE  g[k] = IF k = 0 THEN of ELSE Chat!Called(g[k - 1], fragments[k])
      OBVIOUS
    <3>1. k < n => k \in 0..(n - 1)
      BY <1>2
    <3>2. k < n => f[k] = IF k = 0 THEN of ELSE Chat!Called(f[k - 1], fragments[k])
      BY <2>2, <3>1 DEF IsLoop
    <3>3. k # 0 => g[k - 1] = f[k - 1]
      BY <1>2
    <3>4. k = n => g[k] = Chat!Called(f[k - 1], fragments[k])
      OBVIOUS
    <3>5. k < n => g[k] = f[k]
      OBVIOUS
    <3>6. k < n \/ k = n
      BY <1>2
    <3> HIDE DEF g
    <3> QED BY <1>4, <3>2, <3>3, <3>4, <3>5, <3>6
  <2>4. IsLoop(g, of, fragments, n)
    BY <2>3 DEF IsLoop
  <2> QED BY <1>2, <2>4
<1> QED BY <1>3, <1>4

\* The fragments of call i among the first k, and what the assembly is after them.
Said(fragments, k, i) ==
    Chat!Seqs!FlattenSeq([m \in 1..k |-> IF fragments[m].index = i THEN fragments[m].args ELSE <<>>])

LoopAt(new, of, fragments, k) ==
    /\ Sound(new)
    /\ DOMAIN new = DOMAIN of \cup {fragments[m].index : m \in 1..k}
    /\ \A i : /\ Said(fragments, k, i) \in Seq(STRING)
             /\ Held(new, i) = Held(of, i) \o Said(fragments, k, i)

LEMMA LoopNext ==
    ASSUME NEW of, Sound(of), NEW fragments \in Seq(Chat!Fragment), NEW j \in Nat, j < Len(fragments),
           NEW new, LoopAt(new, of, fragments, j)
    PROVE  LoopAt(Chat!Called(new, fragments[j + 1]), of, fragments, j + 1)
<1>1. PICK c \in Chat!Fragment : c = fragments[j + 1]
  OBVIOUS
<1> DEFINE more == Chat!Called(new, c)
<1>2. /\ Sound(more) /\ DOMAIN more = DOMAIN new \cup {c.index}
      /\ \A i : Held(more, i) = Held(new, i) \o (IF c.index = i THEN c.args ELSE <<>>)
  BY CalledHolds DEF LoopAt
<1> HIDE DEF more
<1>3. DOMAIN more = DOMAIN of \cup {fragments[m].index : m \in 1..(j + 1)}
  <2>1. 1..(j + 1) = 1..j \cup {j + 1}
    OBVIOUS
  <2> QED BY <1>1, <1>2, <2>1 DEF LoopAt
<1>4. ASSUME NEW i
      PROVE  /\ Said(fragments, j + 1, i) \in Seq(STRING)
             /\ Held(more, i) = Held(of, i) \o Said(fragments, j + 1, i)
  <2> DEFINE piece == IF c.index = i THEN c.args ELSE <<>>
             seqs == [m \in 1..j |-> IF fragments[m].index = i THEN fragments[m].args ELSE <<>>]
             longer == [m \in 1..(j + 1) |-> IF fragments[m].index = i THEN fragments[m].args ELSE <<>>]
  <2>1. piece \in Seq(STRING)
    <3>1. c.args \in Seq(STRING) /\ <<>> \in Seq(STRING)
      BY DEF Chat!Fragment
    <3> QED BY <3>1
  <2>2. ASSUME NEW m \in 1..(j + 1) PROVE fragments[m].args \in Seq(STRING)
    <3>1. fragments[m] \in Chat!Fragment
      OBVIOUS
    <3> QED BY <3>1 DEF Chat!Fragment
  <2>3. /\ seqs \in Seq(Seq(STRING)) /\ longer \in Seq(Seq(STRING))
        /\ Len(seqs) = j /\ Len(longer) = j + 1 /\ \A m \in 1..j : longer[m] = seqs[m]
    <3>1. <<>> \in Seq(STRING) /\ 1..j \subseteq 1..(j + 1)
      OBVIOUS
    <3>2. \A m \in 1..(j + 1) : longer[m] \in Seq(STRING)
      BY <2>2, <3>1
    <3>3. \A m \in 1..j : seqs[m] = longer[m]
      BY <3>1
    <3>4. \A m \in 1..j : seqs[m] \in Seq(STRING)
      BY <3>1, <3>2, <3>3
    <3> QED BY <3>2, <3>3, <3>4
  <2>4. longer[j + 1] = piece
    BY <1>1
  <2>5. Chat!Seqs!FlattenSeq(longer) = Chat!Seqs!FlattenSeq(seqs) \o longer[j + 1]
    <3> HIDE DEF seqs, longer
    <3> QED BY <2>3, FlattenNext
  <2>6. Said(fragments, j, i) = Chat!Seqs!FlattenSeq(seqs) /\ Said(fragments, j + 1, i) = Chat!Seqs!FlattenSeq(longer)
    BY DEF Said
  <2>7. Held(more, i) = Held(new, i) \o piece
    BY <1>2
  <2> HIDE DEF piece, seqs, longer
  <2>8. Said(fragments, j + 1, i) = Said(fragments, j, i) \o piece
    BY <2>4, <2>5, <2>6
  <2>9. PICK a, b : a = Held(of, i) /\ b = Said(fragments, j, i)
    OBVIOUS
  <2>10. a \in Seq(STRING) /\ b \in Seq(STRING) /\ Held(new, i) = a \o b
    BY <2>9, HeldType DEF LoopAt
  <2>11. b \o piece \in Seq(STRING) /\ (a \o b) \o piece = a \o (b \o piece)
    BY <2>1, <2>10, ConcatAssociative
  <2> QED BY <2>7, <2>8, <2>9, <2>10, <2>11, Zenon
<1>5. LoopAt(more, of, fragments, j + 1)
  BY <1>2, <1>3, <1>4 DEF LoopAt
<1> QED BY <1>1, <1>5 DEF more

LEMMA AllCalledHolds ==
    ASSUME NEW of, Sound(of), NEW fragments \in Seq(Chat!Fragment)
    PROVE  /\ Sound(Chat!AllCalled(of, fragments))
           /\ DOMAIN Chat!AllCalled(of, fragments) = DOMAIN of \cup Chat!IndicesOf(fragments)
           /\ \A i : Held(Chat!AllCalled(of, fragments), i) = Held(of, i) \o Chat!ArgsOf(fragments, i)
<1>0. PICK N \in Nat : N = Len(fragments)
  OBVIOUS
<1> DEFINE f == CHOOSE g : IsLoop(g, of, fragments, N)
<1>1. IsLoop(f, of, fragments, N)
  BY LoopExists
<1>2. Chat!AllCalled(of, fragments) = f[N]
  BY <1>0 DEF Chat!AllCalled, IsLoop
<1> HIDE DEF f
<1> DEFINE Bad == {k \in 0..N : ~ LoopAt(f[k], of, fragments, k)}
<1>3. LoopAt(f[N], of, fragments, N)
  <2>1. SUFFICES ASSUME Bad # {} PROVE FALSE
    <3>1. N \in 0..N
      OBVIOUS
    <3> QED BY <3>1
  <2>2. PICK k \in Bad : \A j \in Bad : k <= j
    <3>1. Bad \in SUBSET Nat
      OBVIOUS
    <3> QED BY <2>1, <3>1, LeastNat
  <2>3. CASE k = 0
    <3>1. f[0] = of
      BY <1>1 DEF IsLoop
    <3>2. ASSUME NEW i PROVE Said(fragments, 0, i) = <<>>
      <4>1. [m \in 1..0 |-> IF fragments[m].index = i THEN fragments[m].args ELSE <<>>] = <<>>
        OBVIOUS
      <4> QED BY <4>1, FlattenNone DEF Said
    <3>3. \A i : Held(of, i) \in Seq(STRING)
      BY HeldType
    <3>4. ASSUME NEW i PROVE Held(of, i) = Held(of, i) \o <<>> /\ <<>> \in Seq(STRING)
      BY <3>3, ConcatEmptySeq
    <3>5. {fragments[m].index : m \in 1..0} = {}
      OBVIOUS
    <3>6. LoopAt(of, of, fragments, 0)
      BY <3>2, <3>4, <3>5 DEF LoopAt
    <3> QED BY <2>2, <2>3, <3>1, <3>6, Zenon
  <2>4. CASE k # 0
    <3>1. PICK j \in Nat : k = j + 1
      <4>1. k - 1 \in Nat /\ k = (k - 1) + 1
        BY <2>2, <2>4
      <4> QED BY <4>1
    <3>2. j \in 0..N /\ j < N /\ j \notin Bad
      BY <2>2, <3>1
    <3>3. LoopAt(f[j], of, fragments, j)
      BY <3>2
    <3>4. f[k] = Chat!Called(f[j], fragments[j + 1])
      <4>1. k \in 0..N /\ k # 0 /\ k - 1 = j
        BY <2>2, <2>4, <3>1
      <4> QED BY <1>1, <3>1, <4>1 DEF IsLoop
    <3>5. LoopAt(Chat!Called(f[j], fragments[j + 1]), of, fragments, j + 1)
      BY <1>0, <3>2, <3>3, LoopNext
    <3>6. LoopAt(f[k], of, fragments, k)
      BY <3>1, <3>4, <3>5
    <3> QED BY <2>2, <3>6
  <2> QED BY <2>3, <2>4
<1>4. \A i : Said(fragments, N, i) = Chat!ArgsOf(fragments, i)
  BY <1>0 DEF Said, Chat!ArgsOf
<1>5. {fragments[m].index : m \in 1..N} = Chat!IndicesOf(fragments)
  BY <1>0 DEF Chat!IndicesOf
<1> QED BY <1>2, <1>3, <1>4, <1>5, Zenon DEF LoopAt

LEMMA ChunkLine ==
    ASSUME NEW s, Chat!IsBody(s), NEW n \in 0..(Len(s) - 1), s[n + 1].kind = "data",
           NEW text, NEW of, Applied(text, of, s, n)
    PROVE  Applied(text \o s[n + 1].chunk.text, Chat!AllCalled(of, s[n + 1].chunk.calls), s, n + 1)
<1> DEFINE line == s[n + 1]
           new == Chat!AllCalled(of, line.chunk.calls)
<1>0. n + 1 \in 1..Len(s) /\ OneMore(s, n)
  <2>1. Len(s) \in Nat
    BY DEF Chat!IsBody
  <2>2. OneMore(s, n)
    BY SaidNext
  <2> QED BY <2>1, <2>2
<1>1. line.chunk \in Chat!Chunk /\ Chat!Text(line) = line.chunk.text /\ Chat!Fragments(line) = line.chunk.calls
  BY <1>0, LineType DEF Chat!Text, Chat!Fragments
<1>2. line.chunk.text \in Seq(STRING) /\ line.chunk.calls \in Seq(Chat!Fragment)
  BY <1>1 DEF Chat!Chunk
<1>3. /\ Chat!SaidText(s, n + 1) = text \o line.chunk.text
      /\ text \o line.chunk.text \in Seq(STRING)
  BY <1>0, <1>1, <1>2 DEF OneMore, Applied
<1>4. /\ Sound(new) /\ DOMAIN new = DOMAIN of \cup Chat!IndicesOf(line.chunk.calls)
      /\ \A i : Held(new, i) = Held(of, i) \o Chat!ArgsOf(line.chunk.calls, i)
  <2>1. Sound(of)
    BY DEF Applied
  <2> HIDE DEF line
  <2> QED BY <1>2, <2>1, AllCalledHolds
<1>5. DOMAIN new = Chat!Indices(s, n + 1)
  <2>1. Chat!Indices(s, n + 1) = Chat!Indices(s, n) \cup Chat!IndicesOf(Chat!Fragments(line))
    BY <1>0 DEF OneMore
  <2>2. DOMAIN of = Chat!Indices(s, n)
    BY DEF Applied
  <2> QED BY <1>1, <1>4, <2>1, <2>2, Zenon
<1>6. ASSUME NEW i PROVE Held(new, i) = Chat!SaidArgs(s, n + 1, i)
  <2>1. Chat!SaidArgs(s, n + 1, i) = Chat!SaidArgs(s, n, i) \o Chat!ArgsOf(Chat!Fragments(line), i)
    BY <1>0 DEF OneMore
  <2>2. Held(of, i) = Chat!SaidArgs(s, n, i)
    BY DEF Applied
  <2> QED BY <1>1, <1>4, <2>1, <2>2, Zenon
<1> QED BY <1>3, <1>4, <1>5, <1>6, Zenon DEF Applied

(***************************************************************************)
(* The answer.                                                             *)
(***************************************************************************)

\* The calls of an answer up to index k, of as response sees them.
Finished(of) == [i \in DOMAIN of |-> [of[i] EXCEPT !.args = Chat!Input(@)]]
At(of, i) == IF i \in DOMAIN of THEN <<of[i]>> ELSE <<>>
Collected(of, k) == Chat!Seqs!FlattenSeq([m \in 1..k |-> At(of, m - 1)])
Consecutive(of) == DOMAIN of = 0..(Cardinality(DOMAIN of) - 1)

LEMMA CollectedNext ==
    ASSUME NEW of, NEW k \in Nat
    PROVE  Collected(of, k + 1) = Collected(of, k) \o At(of, k)
<1> DEFINE T == {of[i] : i \in DOMAIN of}
           seqs == [m \in 1..k |-> At(of, m - 1)]
           more == [m \in 1..(k + 1) |-> At(of, m - 1)]
<1>1. \A i : At(of, i) \in Seq(T)
  <2> SUFFICES ASSUME NEW i PROVE At(of, i) \in Seq(T)
    OBVIOUS
  <2>1. CASE i \in DOMAIN of
    <3>1. of[i] \in T
      BY <2>1
    <3> HIDE DEF T
    <3>2. <<of[i]>> \in Seq(T)
      BY <3>1
    <3> QED BY <2>1, <3>2 DEF At
  <2>2. CASE i \notin DOMAIN of
    BY <2>2 DEF At
  <2> QED BY <2>1, <2>2
<1> HIDE DEF T
<1>2. /\ seqs \in Seq(Seq(T)) /\ more \in Seq(Seq(T))
      /\ Len(seqs) = k /\ Len(more) = k + 1 /\ \A m \in 1..k : more[m] = seqs[m]
  BY <1>1
<1>3. more[k + 1] = At(of, k)
  <2>1. k + 1 \in 1..(k + 1) /\ (k + 1) - 1 = k
    OBVIOUS
  <2> QED BY <2>1
<1>4. Chat!Seqs!FlattenSeq(more) = Chat!Seqs!FlattenSeq(seqs) \o more[k + 1]
  <2> HIDE DEF seqs, more
  <2> QED BY <1>2, FlattenNext
<1>5. Collected(of, k) = Chat!Seqs!FlattenSeq(seqs) /\ Collected(of, k + 1) = Chat!Seqs!FlattenSeq(more)
  BY DEF Collected
<1> HIDE DEF seqs, more
<1> QED BY <1>3, <1>4, <1>5

\* r has calls of of only, in their places if there is no gap, and then k of them.
Collects(r, of, k) ==
    /\ r \in Seq({of[i] : i \in DOMAIN of})
    /\ \A m \in 1..Len(r) : \E i \in DOMAIN of : r[m] = of[i] /\ (Consecutive(of) => i = m - 1)
    /\ Consecutive(of) => Len(r) = k

LEMMA CollectsNext ==
    ASSUME NEW of, NEW k \in Nat, Consecutive(of) => k \in DOMAIN of,
           NEW r, Collects(r, of, k)
    PROVE  Collects(r \o At(of, k), of, k + 1)
<1> DEFINE T == {of[i] : i \in DOMAIN of}
<1>1. /\ r \in Seq(T) /\ (Consecutive(of) => Len(r) = k)
      /\ \A m \in 1..Len(r) : \E i \in DOMAIN of : r[m] = of[i] /\ (Consecutive(of) => i = m - 1)
  BY DEF Collects
<1>a. k \in DOMAIN of => of[k] \in T
  OBVIOUS
<1> HIDE DEF T
<1>2. CASE k \in DOMAIN of
  <2>1. of[k] \in T /\ At(of, k) = <<of[k]>>
    BY <1>a, <1>2 DEF At
  <2>2. PICK q, l : q = r \o <<of[k]>> /\ l = Len(r)
    OBVIOUS
  <2>3. /\ q \in Seq(T) /\ Len(q) = l + 1 /\ l \in Nat
        /\ q[l + 1] = of[k] /\ \A m \in 1..l : q[m] = r[m]
    <3>1. r \in Seq(T)
      BY <1>1
    <3>2. PICK e \in T : e = of[k]
      BY <2>1
    <3>3. q = r \o <<e>>
      BY <2>2, <3>2, Zenon
    <3>4. q \in Seq(T) /\ Len(q) = l + 1 /\ l \in Nat /\ q[l + 1] = e /\ \A m \in 1..l : q[m] = r[m]
      BY <2>2, <3>1, <3>2, <3>3
    <3> QED BY <3>2, <3>4, Zenon
  <2>4. ASSUME NEW m \in 1..Len(q)
        PROVE  \E i \in DOMAIN of : q[m] = of[i] /\ (Consecutive(of) => i = m - 1)
    <3>1. CASE m = l + 1
      <4>1. q[m] = of[k]
        BY <2>3, <3>1
      <4>2. Consecutive(of) => k = m - 1
        BY <1>1, <2>2, <2>3, <3>1
      <4> QED BY <1>2, <4>1, <4>2
    <3>2. CASE m # l + 1
      <4>1. m \in 1..l
        BY <2>3, <3>2
      <4>2. q[m] = r[m]
        BY <2>3, <4>1
      <4> QED BY <1>1, <2>2, <4>1, <4>2
    <3> QED BY <3>1, <3>2
  <2>5. Consecutive(of) => Len(q) = k + 1
    BY <1>1, <2>2, <2>3
  <2>6. Collects(q, of, k + 1)
    BY <2>3, <2>4, <2>5 DEF Collects, T
  <2>7. q = r \o At(of, k)
    BY <2>1, <2>2, Zenon
  <2> QED BY <2>6, <2>7
<1>3. CASE k \notin DOMAIN of
  <2>1. At(of, k) = <<>> /\ ~ Consecutive(of)
    BY <1>3 DEF At
  <2>2. r \o <<>> = r
    BY <1>1
  <2>3. r \o At(of, k) = r
    BY <2>1, <2>2, Zenon
  <2>4. Collects(r, of, k + 1)
    BY <1>1, <2>1 DEF Collects, T
  <2> QED BY <2>3, <2>4
<1> QED BY <1>2, <1>3

LEMMA AllCollected ==
    ASSUME NEW of, IsFiniteSet(DOMAIN of)
    PROVE  Collects(Collected(of, Cardinality(DOMAIN of)), of, Cardinality(DOMAIN of))
<1> DEFINE N == Cardinality(DOMAIN of)
           Bad == {k \in 0..N : ~ Collects(Collected(of, k), of, k)}
<1>1. N \in Nat
  BY FS_CardinalityType
<1> HIDE DEF N
<1>2. SUFFICES ASSUME Bad # {} PROVE FALSE
  <2>1. N \in 0..N
    BY <1>1
  <2> QED BY <2>1 DEF N
<1>3. PICK k \in Bad : \A j \in Bad : k <= j
  <2>1. Bad \in SUBSET Nat
    BY <1>1
  <2> QED BY <1>2, <2>1, LeastNat
<1>4. CASE k = 0
  <2>1. Collected(of, 0) = <<>>
    <3>1. [m \in 1..0 |-> At(of, m - 1)] = <<>>
      OBVIOUS
    <3> QED BY <3>1, FlattenNone DEF Collected
  <2>2. Collects(<<>>, of, 0)
    BY DEF Collects
  <2> QED BY <1>3, <1>4, <2>1, <2>2, Zenon
<1>5. CASE k # 0
  <2>1. PICK j \in Nat : k = j + 1
    <3>1. k - 1 \in Nat /\ k = (k - 1) + 1
      BY <1>1, <1>3, <1>5
    <3> QED BY <3>1
  <2>2. j \in 0..N /\ j \notin Bad
    BY <1>1, <1>3, <2>1
  <2>3. Collects(Collected(of, j), of, j)
    BY <2>2
  <2>4. Consecutive(of) => j \in DOMAIN of
    <3>1. j \in 0..(N - 1)
      BY <1>1, <1>3, <2>1
    <3> QED BY <3>1 DEF Consecutive, N
  <2>5. Collects(Collected(of, j) \o At(of, j), of, j + 1)
    BY <2>3, <2>4, CollectsNext
  <2>6. Collected(of, j + 1) = Collected(of, j) \o At(of, j)
    BY CollectedNext
  <2> QED BY <1>3, <2>1, <2>5, <2>6
<1> QED BY <1>4, <1>5

LEMMA SameCardinality == \A S : Chat!Cardinality(S) = Cardinality(S)
BY DEF Chat!Cardinality, Cardinality

LEMMA ResponseTells ==
    ASSUME NEW text, NEW of, NEW s, NEW n, Applied(text, of, s, n)
    PROVE  Chat!Tells(Chat!Response(text, of), s, n)
<1> DEFINE answer == Chat!Response(text, of)
           all == Finished(of)
           r == Collected(all, Cardinality(DOMAIN all))
<1>0. DOMAIN all = DOMAIN of /\ \A i \in DOMAIN of : all[i] = [of[i] EXCEPT !.args = Chat!Input(@)]
  BY DEF Finished
<1>1. answer = [ok |-> TRUE, content |-> Chat!Trim(text), calls |-> r]
  <2> DEFINE at(i) == IF i \in DOMAIN of THEN <<[of[i] EXCEPT !.args = Chat!Input(@)]>> ELSE <<>>
  <2>1. \A i : at(i) = At(all, i)
    BY <1>0 DEF At
  <2>2. answer = [ok |-> TRUE, content |-> Chat!Trim(text),
                  calls |-> Chat!Seqs!FlattenSeq([m \in 1..Chat!Cardinality(DOMAIN of) |-> at(m - 1)])]
    BY DEF Chat!Response
  <2> HIDE DEF at, answer, all
  <2>3. [m \in 1..Cardinality(DOMAIN all) |-> at(m - 1)] = [m \in 1..Cardinality(DOMAIN all) |-> At(all, m - 1)]
    BY <2>1, Zenon
  <2>4. Chat!Cardinality(DOMAIN of) = Cardinality(DOMAIN all)
    BY <1>0, SameCardinality, Zenon
  <2> QED BY <2>2, <2>3, <2>4, Zenon DEF Collected
<1> HIDE DEF answer, r, all
<1>2. answer.content = Chat!Trim(text) /\ answer.calls = r
  BY <1>1
<1>3. /\ text = Chat!SaidText(s, n) /\ DOMAIN all = Chat!Indices(s, n) /\ IsFiniteSet(DOMAIN all)
      /\ Sound(of) /\ \A i : Held(of, i) = Chat!SaidArgs(s, n, i)
  BY <1>0 DEF Applied, Sound
<1>4. Collects(r, all, Cardinality(DOMAIN all))
  BY <1>3, AllCollected DEF r
<1>5. Chat!Gapless(s, n) <=> Consecutive(all)
  <2>1. Chat!Indices(s, n) = DOMAIN all
    BY <1>3
  <2> QED BY ONLY <2>1, SameCardinality, Zenon DEF Chat!Gapless, Consecutive
<1>6. ASSUME NEW i \in DOMAIN all PROVE all[i].args = Chat!Input(Chat!SaidArgs(s, n, i))
  <2>1. of[i] \in CallRecord /\ of[i].args = Chat!SaidArgs(s, n, i)
    BY <1>0, <1>3 DEF Sound, Held
  <2>2. PICK e \in CallRecord : e = of[i]
    BY <2>1
  <2> DEFINE a == Chat!Input(e.args)
  <2>3. all[i] = [e EXCEPT !.args = a]
    BY <1>0, <2>2
  <2> HIDE DEF a
  <2>4. all[i].args = a
    BY <2>3 DEF CallRecord
  <2> QED BY <2>1, <2>2, <2>4 DEF a
<1>7. ASSUME NEW m \in 1..Len(r)
      PROVE  \E i \in Chat!Indices(s, n) :
                r[m].args = Chat!Input(Chat!SaidArgs(s, n, i)) /\ (Chat!Gapless(s, n) => i = m - 1)
  <2>1. PICK i \in DOMAIN all : r[m] = all[i] /\ (Consecutive(all) => i = m - 1)
    BY <1>4 DEF Collects
  <2>2. r[m].args = Chat!Input(Chat!SaidArgs(s, n, i))
    BY <1>6, <2>1
  <2> QED BY <1>3, <1>5, <2>1, <2>2
<1>8. Chat!Gapless(s, n) => Len(r) = Cardinality(Chat!Indices(s, n))
  BY <1>3, <1>4, <1>5 DEF Collects
<1>9. Chat!Tells(answer, s, n)
  BY <1>2, <1>3, <1>7, <1>8, SameCardinality DEF Chat!Tells
<1> QED BY <1>9 DEF answer

(***************************************************************************)
(* The calls of the model, as ChatInv says how far each is.                *)
(***************************************************************************)

\* No stream has been opened, in this turn or yet.
Unopened ==
    /\ script = <<>> /\ pos = 0 /\ data = <<>> /\ content = <<>> /\ calls = <<>>
    /\ shown = <<>> /\ cut = FALSE /\ result = Chat!None

\* The event so far, if it can still be applied, makes the assembly what was read.
Reading ==
    /\ Chat!IsBody(script) /\ pos \in 0..Len(script) /\ Chat!Before(script, pos)
    /\ shown = content /\ cut = FALSE /\ result = Chat!None
    /\ data \in Seq(Chat!Chunk)
    /\ data = <<>> => Applied(content, calls, script, pos)
    /\ Len(data) = 1 => Applied(Chat!NewContent(data[1]), Chat!NewCalls(data[1]), script, pos)

ChatInv ==
    /\ phase \in {"try", "sent", "pause", "tools"} => Unopened
    /\ phase = "open" => Reading
    /\ phase = "returned" => AnswerIsServers
    /\ result.ok => phase = "returned"

LEMMA NoneIsNoAnswer == Chat!None.ok = FALSE
BY DEF Chat!None

LEMMA ChatInvInit == Chat!Init => ChatInv
<1> SUFFICES ASSUME Chat!Init PROVE ChatInv
  OBVIOUS
<1>1. Unopened /\ phase = "try"
  BY DEF Chat!Init, Unopened
<1>2. result.ok = FALSE
  BY <1>1, NoneIsNoAnswer DEF Unopened
<1> QED BY <1>1, <1>2 DEF ChatInv

\* A call that has failed has no answer.
LEMMA FailedHasNone ==
    ASSUME Chat!Fail
    PROVE  ChatInv'
<1>1. phase' = "returned" /\ result' = Chat!None
  BY DEF Chat!Fail
<1>2. result'.ok = FALSE
  BY <1>1, NoneIsNoAnswer, Zenon
<1> QED BY <1>1, <1>2 DEF ChatInv, AnswerIsServers, Chat!AnswerIsServers

LEMMA StillUnopened ==
    ASSUME Unopened, phase' \in {"try", "sent", "pause"},
           UNCHANGED <<script, pos, data, content, calls, shown, cut, result>>
    PROVE  ChatInv'
<1>1. Unopened' /\ result' = Chat!None
  BY DEF Unopened
<1>2. result'.ok = FALSE
  BY <1>1, NoneIsNoAnswer, Zenon
<1> QED BY <1>1, <1>2 DEF ChatInv

\* A body that opens says nothing yet, and may be any of the server's.
LEMMA OpensReads ==
    ASSUME ChatInv, NEW s \in Scripts, Chat!Opens(s)
    PROVE  ChatInv'
<1>1. Unopened /\ phase' = "open"
  BY DEF ChatInv, Chat!Opens
<1>2. /\ script' = s /\ pos' = 0 /\ data' = <<>> /\ content' = <<>> /\ calls' = <<>>
      /\ shown' = <<>> /\ cut' = FALSE /\ result' = Chat!None
  BY <1>1 DEF Chat!Opens, Unopened
<1>3. Chat!IsBody(s) /\ Len(s) \in Nat
  <2>1. Chat!IsBody(s)
    BY ChatAssumption DEF ChatAssumption
  <2> QED BY <2>1 DEF Chat!IsBody
<1>4. Applied(<<>>, <<>>, s, 0)
  BY NothingApplied
<1>5. Applied(content', calls', script', pos')
  BY <1>2, <1>4, Zenon
<1>6. /\ data' \in Seq(Chat!Chunk) /\ Len(data') # 1
      /\ pos' \in 0..Len(script') /\ Chat!Before(script', pos')
  BY <1>2, <1>3 DEF Chat!Before
<1>7. Reading'
  BY <1>2, <1>3, <1>5, <1>6 DEF Reading
<1>8. result'.ok = FALSE
  BY <1>2, NoneIsNoAnswer, Zenon
<1> QED BY <1>1, <1>7, <1>8 DEF ChatInv

LEMMA TakeLineReads ==
    ASSUME ChatInv, Chat!TakeLine
    PROVE  ChatInv'
<1>1. /\ Reading /\ phase' = "open" /\ pos < Len(script) /\ pos' = pos + 1
      /\ script' = script /\ content' = content /\ calls' = calls /\ shown' = shown
      /\ cut' = cut /\ result' = result
  BY DEF ChatInv, Chat!TakeLine, Chat!More
<1> DEFINE line == script[pos + 1]
<1>n. result'.ok = FALSE
  BY <1>1, NoneIsNoAnswer, Zenon DEF Reading
<1>2. /\ line.kind \in {"data", "note"}
      /\ data' = IF line.kind = "data" THEN Append(data, line.chunk) ELSE data
  BY DEF Chat!TakeLine, Chat!Line
<1>3. /\ Chat!IsBody(script) /\ pos \in 0..(Len(script) - 1) /\ pos + 1 \in 0..Len(script)
      /\ pos + 1 \in 1..Len(script) /\ Len(script) \in Nat
  BY <1>1 DEF Reading, Chat!IsBody
<1> HIDE DEF line
<1>4. Chat!Before(script, pos + 1)
  <2> SUFFICES ASSUME NEW k \in 1..(pos + 1) PROVE script[k].kind # "done"
    BY DEF Chat!Before
  <2>1. CASE k = pos + 1
    BY <1>2, <2>1 DEF line
  <2>2. CASE k # pos + 1
    <3>1. k \in 1..pos
      BY <1>3, <2>2
    <3> QED BY <1>1, <3>1 DEF Reading, Chat!Before
  <2> QED BY <2>1, <2>2
<1>5. CASE line.kind # "data"
  <2>1. data' = data
    BY <1>2, <1>5
  <2>2. ASSUME NEW text, NEW of, Applied(text, of, script, pos)
        PROVE  Applied(text, of, script, pos + 1)
    BY <1>3, <1>5, <2>2, QuietLine DEF line
  <2>3. data = <<>> => Applied(content, calls, script, pos + 1)
    BY <1>1, <2>2 DEF Reading
  <2>4. Len(data) = 1 => Applied(Chat!NewContent(data[1]), Chat!NewCalls(data[1]), script, pos + 1)
    BY <1>1, <2>2 DEF Reading
  <2>5. /\ Chat!NewContent(data[1])' = Chat!NewContent(data[1])
        /\ Chat!NewCalls(data[1])' = Chat!NewCalls(data[1])
    BY <1>1, <2>1 DEF Chat!NewContent, Chat!NewCalls
  <2>6. Reading'
    BY <1>1, <1>3, <1>4, <2>1, <2>3, <2>4, <2>5 DEF Reading
  <2> QED BY <1>1, <1>n, <2>6 DEF ChatInv
<1>6. CASE line.kind = "data"
  <2>1. data' = Append(data, line.chunk) /\ line.chunk \in Chat!Chunk /\ data \in Seq(Chat!Chunk)
    BY <1>1, <1>2, <1>3, <1>6, LineType DEF line, Reading
  <2>2. /\ data' \in Seq(Chat!Chunk) /\ Len(data') = Len(data) + 1 /\ Len(data) \in Nat
        /\ data' # <<>> /\ data'[Len(data) + 1] = line.chunk
    BY <2>1
  <2>3. ASSUME Len(data') = 1
        PROVE  Applied(Chat!NewContent(data[1])', Chat!NewCalls(data[1])', script, pos + 1)
    <3>1. data = <<>> /\ data'[1] = line.chunk
      BY <2>1, <2>2, <2>3
    <3>2. Applied(content, calls, script, pos)
      BY <1>1, <3>1 DEF Reading
    <3>3. Applied(content \o line.chunk.text, Chat!AllCalled(calls, line.chunk.calls), script, pos + 1)
      BY <1>3, <1>6, <3>2, ChunkLine DEF line
    <3>4. Chat!NewContent(data[1])' = content \o line.chunk.text
      BY <1>1, <3>1, Zenon DEF Chat!NewContent
    <3>5. Chat!NewCalls(data[1])' = Chat!AllCalled(calls, line.chunk.calls)
      <4>1. data'[1] = line.chunk /\ calls' = calls
        BY <1>1, <3>1
      <4>2. Chat!NewCalls(data[1])' = Chat!AllCalled(calls, data[1].calls)'
        BY DEF Chat!NewCalls
      <4>3. Chat!AllCalled(calls, data[1].calls)' = Chat!AllCalled(calls', data'[1].calls)
        BY DEF Chat!AllCalled, Chat!Called
      <4> QED BY <4>1, <4>2, <4>3, Zenon
    <3> QED BY <3>3, <3>4, <3>5, Zenon
  <2>4. Reading'
    BY <1>1, <1>3, <1>4, <2>2, <2>3 DEF Reading
  <2> QED BY <1>1, <1>n, <2>4 DEF ChatInv
<1> QED BY <1>5, <1>6

\* flush: everything read is in the assembly, and has been shown.
LEMMA FlushApplies ==
    ASSUME Reading, ~ Chat!Spoilt, Chat!Flushed
    PROVE  Applied(content', calls', script, pos) /\ shown' = content' /\ data' = <<>>
<1>1. data' = <<>> /\ data \in Seq(Chat!Chunk) /\ shown = content
  BY DEF Chat!Flushed, Reading
<1>2. CASE data = <<>>
  <2>1. content' = content /\ calls' = calls /\ shown' = shown
    BY <1>2 DEF Chat!Flushed
  <2>2. Applied(content, calls, script, pos)
    BY <1>2 DEF Reading
  <2> QED BY <1>1, <2>1, <2>2
<1>3. CASE data # <<>>
  <2>1. /\ content' = Chat!NewContent(Head(data)) /\ calls' = Chat!NewCalls(Head(data))
        /\ shown' = shown \o Head(data).text
    BY <1>3 DEF Chat!Flushed
  <2>2. Len(data) \in Nat /\ Len(data) # 0 /\ ~ (Len(data) > 1)
    BY <1>1, <1>3 DEF Chat!Spoilt
  <2>3. Len(data) = 1 /\ Head(data) = data[1]
    <3>1. Len(data) = 1
      BY <2>2
    <3>2. Head(data) = data[1]
      BY <1>1, <1>3
    <3> QED BY <3>1, <3>2
  <2>4. Applied(Chat!NewContent(data[1]), Chat!NewCalls(data[1]), script, pos)
    BY <2>3 DEF Reading
  <2>5. Applied(content', calls', script, pos)
    BY <2>1, <2>3, <2>4
  <2>6. shown' = content'
    BY <1>1, <2>1, Zenon DEF Chat!NewContent
  <2> QED BY <1>1, <2>5, <2>6
<1> QED BY <1>2, <1>3

LEMMA EndEventReads ==
    ASSUME ChatInv, Chat!EndEvent
    PROVE  ChatInv'
<1>1. /\ Reading /\ phase' = "open" /\ pos < Len(script) /\ pos' = pos + 1
      /\ script' = script /\ cut' = cut /\ result' = result
      /\ script[pos + 1].kind = "blank"
  BY DEF ChatInv, Chat!EndEvent, Chat!More, Chat!Line
<1>2. result'.ok = FALSE
  BY <1>1, NoneIsNoAnswer, Zenon DEF Reading
<1>3. Applied(content', calls', script, pos) /\ shown' = content' /\ data' = <<>>
  BY <1>1, FlushApplies DEF Chat!EndEvent
<1>4. /\ Chat!IsBody(script) /\ pos \in 0..(Len(script) - 1) /\ pos + 1 \in 0..Len(script)
      /\ Len(script) \in Nat
  BY <1>1 DEF Reading, Chat!IsBody
<1>5. Chat!Before(script, pos + 1)
  <2> SUFFICES ASSUME NEW k \in 1..(pos + 1) PROVE script[k].kind # "done"
    BY DEF Chat!Before
  <2>1. CASE k = pos + 1
    BY <1>1, <2>1
  <2>2. CASE k # pos + 1
    <3>1. k \in 1..pos
      BY <1>4, <2>2
    <3> QED BY <1>1, <3>1 DEF Reading, Chat!Before
  <2> QED BY <2>1, <2>2
<1>6. Applied(content', calls', script, pos + 1)
  <2>1. script[pos + 1].kind # "data"
    BY <1>1
  <2> QED BY <1>3, <1>4, <2>1, QuietLine
<1>7. data' \in Seq(Chat!Chunk) /\ Len(data') # 1
  BY <1>3
<1>8. Reading'
  BY <1>1, <1>3, <1>4, <1>5, <1>6, <1>7 DEF Reading
<1> QED BY <1>1, <1>2, <1>8 DEF ChatInv

LEMMA AnsweredTells ==
    ASSUME ChatInv, Chat!Answered
    PROVE  ChatInv'
<1>1. /\ Reading /\ phase' = "returned" /\ script' = script /\ pos' = pos
      /\ cut' = (Chat!More /\ Chat!Line.kind # "done")
      /\ result' = Chat!Response(content', calls')
  BY DEF ChatInv, Chat!Answered
<1>2. Applied(content', calls', script, pos) /\ shown' = content'
  BY <1>1, FlushApplies DEF Chat!Answered
<1>3. PICK text, of : text = content' /\ of = calls'
  OBVIOUS
<1>4. Chat!Tells(Chat!Response(text, of), script, pos)
  BY <1>2, <1>3, ResponseTells
<1>5. Chat!Tells(result', script, pos) /\ shown' = Chat!SaidText(script, pos)
  BY <1>1, <1>2, <1>3, <1>4 DEF Applied
<1>6. pos \in 0..Len(script) /\ Chat!Before(script, pos) /\ Len(script) \in Nat
  BY <1>1 DEF Reading, Chat!IsBody
<1>7. cut' \/ Chat!Ends(script, pos)
  <2>1. CASE pos = Len(script)
    BY <2>1 DEF Chat!Ends
  <2>2. CASE pos # Len(script)
    <3>1. Chat!More
      BY <1>6, <2>2 DEF Chat!More, Chat!Answered
    <3> QED BY <1>1, <3>1 DEF Chat!Ends, Chat!Line
  <2> QED BY <2>1, <2>2
<1>8. AnswerIsServers'
  <2>1. /\ pos \in 0..Len(script')
        /\ Chat!Before(script', pos) /\ (cut' \/ Chat!Ends(script', pos))
        /\ shown' = Chat!SaidText(script', pos) /\ Chat!Tells(result', script', pos)
    BY <1>1, <1>5, <1>6, <1>7
  <2> QED BY <2>1 DEF AnswerIsServers, Chat!AnswerIsServers
<1> QED BY <1>1, <1>8 DEF ChatInv

\* What is not a stream has no text and no calls.
LEMMA PlainBodyTells ==
    ASSUME ChatInv, NEW good \in BOOLEAN, Chat!PlainBody(good)
    PROVE  ChatInv'
<1>1. /\ Unopened /\ phase' = "returned" /\ result' = [Chat!None EXCEPT !.ok = good]
      /\ script' = script /\ shown' = shown /\ cut' = cut
  BY DEF ChatInv, Chat!PlainBody, Chat!streamVars
<1>2. script' = <<>> /\ shown' = <<>>
  BY <1>1 DEF Unopened
<1>3. result'.content = <<>> /\ result'.calls = <<>>
  BY <1>1 DEF Chat!None
<1>4. Len(<<>>) = 0 /\ 0 \in 0..Len(<<>>) /\ 1..0 = {} /\ 0..(0 - 1) = {}
  OBVIOUS
<1>5. Chat!SaidText(<<>>, 0) = <<>> /\ Chat!Indices(<<>>, 0) = {} /\ Chat!Cardinality({}) = 0
  BY SaidNothing, FS_EmptySet, SameCardinality
<1>6. Chat!Tells(result', <<>>, 0)
  <2>1. Len(result'.calls) = 0
    BY <1>3, <1>4, Zenon
  <2>2. \A m \in 1..Len(result'.calls) : FALSE
    BY <1>4, <2>1
  <2>3. Len(result'.calls) = Chat!Cardinality(Chat!Indices(<<>>, 0))
    BY <1>5, <2>1
  <2>4. result'.content = Chat!Trim(Chat!SaidText(<<>>, 0))
    <3>1. {n \in 1..Len(<<>>) : <<>>[n] # Chat!Space} = {}
      OBVIOUS
    <3>2. Chat!Trim(<<>>) = <<>>
      BY <3>1 DEF Chat!Trim
    <3> QED BY <1>3, <1>5, <3>2, Zenon
  <2> QED BY <2>2, <2>3, <2>4, Zenon DEF Chat!Tells
<1>7. Chat!Before(<<>>, 0) /\ Chat!Ends(<<>>, 0)
  BY <1>4 DEF Chat!Before, Chat!Ends
<1>8. shown' = Chat!SaidText(<<>>, 0)
  BY <1>2, <1>5, Zenon
<1>9. AnswerIsServers'
  BY <1>2, <1>4, <1>6, <1>7, <1>8, Zenon DEF AnswerIsServers, Chat!AnswerIsServers
<1> QED BY <1>1, <1>9 DEF ChatInv

LEMMA ChatStepKeepsInv == ChatInv /\ phase # "tools" /\ Chat!Next => ChatInv'
<1> SUFFICES ASSUME ChatInv, Chat!Next PROVE ChatInv'
  OBVIOUS
<1>1. ASSUME Chat!Try PROVE ChatInv'
  <2>1. CASE Chat!Fail
    BY <2>1, FailedHasNone
  <2>2. CASE ~ Chat!Fail
    BY <1>1, <2>2, StillUnopened DEF Chat!Try, Chat!streamVars, ChatInv
  <2> QED BY <2>1, <2>2
<1>2. ASSUME NEW blame \in BOOLEAN, Chat!Paused(blame) PROVE ChatInv'
  <2>1. CASE Chat!Fail
    BY <2>1, FailedHasNone
  <2>2. CASE ~ Chat!Fail
    BY <1>2, <2>2, StillUnopened DEF Chat!Paused, Chat!GoOn, Chat!Refused, Chat!streamVars, ChatInv
  <2> QED BY <2>1, <2>2
<1>3. ASSUME Chat!Unreachable PROVE ChatInv'
  <2>1. CASE Chat!Fail
    BY <2>1, FailedHasNone
  <2>2. CASE ~ Chat!Fail
    BY <1>3, <2>2, StillUnopened DEF Chat!Unreachable, Chat!GoOn, Chat!Refused, Chat!streamVars, ChatInv
  <2> QED BY <2>1, <2>2
<1>4. ASSUME NEW retryable \in BOOLEAN, NEW blame \in BOOLEAN, Chat!Status(retryable, blame) PROVE ChatInv'
  <2>1. CASE Chat!Fail
    BY <2>1, FailedHasNone
  <2>2. CASE ~ Chat!Fail
    BY <1>4, <2>2, StillUnopened DEF Chat!Status, Chat!Refused, Chat!streamVars, ChatInv
  <2> QED BY <2>1, <2>2
<1>5. ASSUME NEW denied \in BOOLEAN, Chat!OnceStatus(denied) PROVE ChatInv'
  <2>1. CASE Chat!Fail
    BY <2>1, FailedHasNone
  <2>2. CASE ~ Chat!Fail
    BY <1>5, <2>2, StillUnopened DEF Chat!OnceStatus, Chat!streamVars, ChatInv
  <2> QED BY <2>1, <2>2
<1>6. ASSUME Chat!Spoils \/ Chat!Breaks PROVE ChatInv'
  BY <1>6, FailedHasNone DEF Chat!Spoils, Chat!Breaks
<1>7. ASSUME Chat!Cancel PROVE ChatInv'
  <2>1. /\ phase' = phase /\ script' = script /\ pos' = pos /\ data' = data /\ content' = content
        /\ calls' = calls /\ shown' = shown /\ cut' = cut /\ result' = result
    BY <1>7 DEF Chat!Cancel, Chat!streamVars
  <2> QED BY <2>1 DEF ChatInv, Unopened, Reading, AnswerIsServers, Chat!AnswerIsServers,
                      Chat!NewContent, Chat!NewCalls
<1>8. ASSUME \/ \E good \in BOOLEAN : Chat!PlainBody(good)
             \/ \E s \in Scripts : Chat!Opens(s)
             \/ Chat!TakeLine \/ Chat!EndEvent \/ Chat!Answered
      PROVE  ChatInv'
  BY <1>8, PlainBodyTells, OpensReads, TakeLineReads, EndEventReads, AnsweredTells
<1> QED BY <1>1, <1>2, <1>3, <1>4, <1>5, <1>6, <1>7, <1>8 DEF Chat!Next, Chat!Timer

LEMMA TurnStepKeepsInv == ChatInv /\ [TurnNext]_turnVars => ChatInv'
<1> SUFFICES ASSUME ChatInv, [TurnNext]_turnVars PROVE ChatInv'
  OBVIOUS
<1>1. ASSUME Modelled PROVE ChatInv'
  BY <1>1, ChatStepKeepsInv DEF Modelled
<1>2. ASSUME ModelAnswered PROVE ChatInv'
  <2>1. Unopened' /\ phase' = "tools" /\ result' = Chat!None
    BY <1>2 DEF ModelAnswered, Unopened
  <2>2. result'.ok = FALSE
    BY <2>1, NoneIsNoAnswer, Zenon
  <2> QED BY <2>1, <2>2 DEF ChatInv
<1>3. ASSUME UNCHANGED chatVars PROVE ChatInv'
  <2>1. /\ phase' = phase /\ script' = script /\ pos' = pos /\ data' = data /\ content' = content
        /\ calls' = calls /\ shown' = shown /\ cut' = cut /\ result' = result
    BY <1>3 DEF chatVars
  <2> QED BY <2>1 DEF ChatInv, Unopened, Reading, AnswerIsServers, Chat!AnswerIsServers,
                      Chat!NewContent, Chat!NewCalls
<1> QED BY <1>1, <1>2, <1>3 DEF TurnNext, Tooled, turnVars

(***************************************************************************)
(* The theorems.                                                           *)
(***************************************************************************)

\* For bodies of any length whose chunks carry any number of calls each: an answer that Chat
\* returns is what the server has said as far as it was read, its text without the white
\* space around it and by index the arguments of its calls, all of them if their indices
\* have no gap; the user was shown that text; and unless the stream was closed early it was
\* read to its end (sse.go apply, flush and response, upstage.go Chat).
THEOREM AnswersAreTheServers == TurnSpec => []AnswerIsServers
<1>1. TurnInit => ChatInv
  BY ChatInvInit DEF TurnInit
<1>2. ChatInv => AnswerIsServers
  <2> SUFFICES ASSUME ChatInv PROVE AnswerIsServers
    OBVIOUS
  <2>1. CASE phase = "returned"
    BY <2>1 DEF ChatInv
  <2>2. CASE phase # "returned"
    BY <2>2 DEF ChatInv, AnswerIsServers, Chat!AnswerIsServers
  <2> QED BY <2>1, <2>2
<1> QED BY <1>1, <1>2, TurnStepKeepsInv, PTL DEF TurnSpec

\* Calling the model between the tools changes nothing of theirs: every behaviour of a turn
\* is one of ToolRun (agent.go Run).
THEOREM TurnsRunTools == TurnSpec => Spec
<1>1. TurnInit => Init
  BY DEF TurnInit
<1>2. [TurnNext]_turnVars => [Next]_vars
  BY DEF TurnNext, Modelled, ModelAnswered, Tooled, turnVars
<1> QED BY <1>1, <1>2, PTL DEF TurnSpec, Spec

\* So whatever the answers of the model are, the types, .git, the jobs and the undo stack
\* are in order throughout the turns (bash.go, jobs.go, gitguard.go, checkpoint.go).
THEOREM ToolsInOrder ==
    TurnSpec => [](TypeOK /\ GitIsTheUsers /\ JobsEndWithSession /\ UndoRestores)
BY TurnsRunTools, TypeCorrect, GitStaysTheUsers, JobsEnd, UndoGoesBack, PTL
=============================================================================
