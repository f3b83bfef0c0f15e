---------------------------- MODULE AgentLoopProofs ----------------------------
(***************************************************************************)
(* Theorems about AgentLoop, for any tool calls, any number of turns and    *)
(* pauses, any backlog of the database and any crashes: requests are well   *)
(* formed, a tool call runs once, a paused session is whole in its file and *)
(* a fork starts from a safe boundary.                                      *)
(***************************************************************************)
EXTENDS AgentLoop, Counting, SequenceTheorems

Msg   == {Text} \cup {Assistant(c) : c \in Seq(Calls)} \cup {Result(c) : c \in Calls}
Entry == [seq : Nat, msg : Msg]
Step  == [len : Nat, max : Nat]

TypeOK ==
    /\ file \in Seq(Entry) /\ mirror \in Step /\ queue \in Seq(Step)
    /\ counter \in Nat /\ lost \in BOOLEAN
    /\ lrow \in {"running", "paused", "ended", "stale"} /\ cursor \in Nat
    /\ hist \in Seq(Msg) /\ batch \in Seq(Calls)
    /\ lpc \in {"start", "turn", "boundary", "tools", "results", "over", "close", "off"}
    /\ ran \in [Calls -> Nat] /\ turns \in Nat /\ pauses \in Nat
    /\ forced \in BOOLEAN /\ notice \in BOOLEAN
    /\ fork \in [at : Nat, conv : Seq(Msg)]

----------------------------------------------------------------------------
(* The kept lines of a trajectory.                                          *)

(* The members of a set up to one of its members.                           *)
Rank(S, i) == Cardinality({j \in S : j <= i})

(* A set of positions is finite.                                            *)
LEMMA FinitePositions ==
    ASSUME NEW n \in Nat, NEW S \in SUBSET (1..n)
    PROVE  IsFiniteSet(S) /\ Cardinality(S) \in Nat /\ S \in SUBSET Nat
<1>1. IsFiniteSet(S) /\ Cardinality(S) \in Nat
  BY CardUpto, FS_Subset, FS_CardinalityType
<1> QED BY <1>1

(* A rank is a number, of at most the members of the set.                   *)
LEMMA RankType ==
    ASSUME NEW S, IsFiniteSet(S), Cardinality(S) \in Nat, NEW i
    PROVE  Rank(S, i) \in Nat /\ Rank(S, i) <= Cardinality(S)
<1> DEFINE L == {j \in S : j <= i}
<1>1. L \in SUBSET S
  OBVIOUS
<1>2. IsFiniteSet(L) /\ Cardinality(L) <= Cardinality(S) /\ Cardinality(L) \in Nat
  <2> HIDE DEF L
  <2> QED BY <1>1, FS_Subset, FS_CardinalityType
<1> QED BY <1>2 DEF Rank

(* Up to its greatest member a set has all its members.                     *)
LEMMA RankTop ==
    ASSUME NEW S \in SUBSET Nat, NEW p \in S, \A j \in S : j <= p
    PROVE  Rank(S, p) = Cardinality(S)
<1>1. {j \in S : j <= p} = S
  OBVIOUS
<1> QED BY <1>1 DEF Rank

(* Nth counts through a set of positions.                                   *)
LEMMA NthMember ==
    ASSUME NEW n \in Nat, NEW S \in SUBSET (1..n), NEW k \in 1..Cardinality(S)
    PROVE  Nth(S, k) \in S
<1>0. IsFiniteSet(S) /\ Cardinality(S) \in Nat /\ S \in SUBSET Nat
  BY FinitePositions, Zenon
<1>1. ASSUME NEW i \in S PROVE Rank(S, i) \in Nat
  BY <1>0, RankType, Zenon
<1> DEFINE T == {i \in S : Rank(S, i) >= k}
<1>2. T # {}
  <2>1. S # {}
    BY <1>0, FS_EmptySet
  <2>2. PICK i \in S : \A j \in S : j <= i
    <3>1. \A j \in S : j <= n
      OBVIOUS
    <3> QED BY <1>0, <2>1, <3>1, GreatestNat, Zenon
  <2>3. Rank(S, i) = Cardinality(S)
    BY <1>0, <2>2, RankTop
  <2> QED BY <1>0, <2>3
<1>3. PICK i \in T : \A j \in T : i <= j
  <2>1. T \in SUBSET Nat
    BY <1>0
  <2> HIDE DEF T
  <2> QED BY <1>2, <2>1, LeastNat
<1> DEFINE B == {j \in S : j < i}
<1>4. IsFiniteSet(B) /\ Cardinality(B) \in Nat /\ B \in SUBSET (1..n)
  <2>1. B \in SUBSET S
    OBVIOUS
  <2> HIDE DEF B
  <2> QED BY <1>0, <2>1, FS_Subset, FS_CardinalityType
<1>5. Rank(S, i) = Cardinality(B) + 1
  <2>1. {j \in S : j <= i} = B \cup {i} /\ i \notin B
    <3>1. i \in S /\ S \in SUBSET Nat
      BY <1>0
    <3>2. ASSUME NEW j \in S PROVE j <= i <=> (j < i \/ j = i)
      BY <3>1
    <3>3. i \notin B
      BY <3>1
    <3>4. \A j : j \in {x \in S : x <= i} <=> j \in B \cup {i}
      BY <3>1, <3>2
    <3> HIDE DEF B
    <3> QED BY <3>3, <3>4
  <2>2. Cardinality(B \cup {i}) = Cardinality(B) + 1
    <3> HIDE DEF B
    <3> QED BY <1>4, <2>1, FS_AddElement
  <2> QED BY <2>1, <2>2 DEF Rank
<1>6. Cardinality(B) < k
  <2>1. CASE B = {}
    <3> HIDE DEF B
    <3> QED BY <2>1, FS_EmptySet
  <2>2. CASE B # {}
    <3>1. PICK p \in B : \A j \in B : j <= p
      <4> HIDE DEF B
      <4>1. B \in SUBSET Nat /\ \A j \in B : j <= n
        BY <1>4
      <4> QED BY <2>2, <4>1, GreatestNat
    <3>2. {j \in S : j <= p} = B
      <4>1. p \in Nat /\ p < i /\ i \in Nat /\ S \in SUBSET Nat
        BY <1>0, <3>1
      <4>2. ASSUME NEW j \in S PROVE j <= p <=> j \in B
        <5>1. j \in Nat
          BY <4>1
        <5>2. j < i => j <= p
          BY <3>1
        <5> QED BY <4>1, <5>1, <5>2
      <4>3. B \subseteq S
        OBVIOUS
      <4> HIDE DEF B
      <4> QED BY <4>2, <4>3
    <3>3. p \in S /\ p \notin T
      BY <1>0, <1>3, <3>1
    <3>4. Rank(S, p) \in Nat /\ ~(Rank(S, p) >= k)
      BY <1>1, <3>3
    <3>5. Rank(S, p) = Cardinality(B)
      BY <3>2 DEF Rank
    <3> QED BY <3>4, <3>5
  <2> QED BY <2>1, <2>2
<1>7. i \in S /\ Rank(S, i) = k
  <2>1. i \in S /\ Rank(S, i) >= k
    OBVIOUS
  <2> HIDE DEF B, T
  <2> QED BY <1>4, <1>5, <1>6, <2>1
<1> QED BY <1>7 DEF Nth, Rank

(* Counting through 1..n.                                                   *)
LEMMA NthOfInterval ==
    ASSUME NEW n \in Nat, NEW k \in 1..n
    PROVE  Nth(1..n, k) = k
<1>1. ASSUME NEW i \in 1..n PROVE Cardinality({j \in 1..n : j <= i}) = i
  <2>1. {j \in 1..n : j <= i} = 1..i
    OBVIOUS
  <2>2. i \in Nat
    OBVIOUS
  <2> QED BY <2>1, <2>2, CardUpto
<1>2. k \in 1..n /\ \A i \in 1..n : Cardinality({j \in 1..n : j <= i}) = k <=> i = k
  BY <1>1
<1> QED BY <1>2 DEF Nth

(* The last position is counted last.                                       *)
LEMMA NthLast ==
    ASSUME NEW n \in Nat \ {0}, NEW S \in SUBSET (1..n), n \in S
    PROVE  Cardinality(S) \in Nat \ {0} /\ Nth(S, Cardinality(S)) = n
<1>1. IsFiniteSet(S) /\ Cardinality(S) \in Nat /\ Cardinality(S) # 0
  BY FinitePositions, FS_EmptySet
<1>2. Rank(S, n) = Cardinality(S)
  BY RankTop
<1>3. ASSUME NEW i \in S, Rank(S, i) = Cardinality(S)
      PROVE  i = n
  <2> DEFINE L == {j \in S : j <= i}
  <2>1. L \in SUBSET S /\ Cardinality(L) = Cardinality(S)
    BY <1>3 DEF Rank
  <2>2. L = S
    <3> HIDE DEF L
    <3> QED BY <1>1, <2>1, FS_Subset
  <2>3. n \in L
    BY <2>2
  <2> QED BY <2>3
<1> QED BY <1>1, <1>2, <1>3 DEF Nth, Rank

----------------------------------------------------------------------------
(* Reading a trajectory back.                                              *)

(* What is read back are lines of the file.                                 *)
LEMMA UptoType ==
    ASSUME file \in Seq(Entry), NEW seq \in Nat
    PROVE  /\ Upto(seq) \in Seq(Entry)
           /\ \A k \in DOMAIN Upto(seq) : \E i \in DOMAIN file : Upto(seq)[k] = file[i]
<1> DEFINE K == Kept(seq)
<1>1. K \in SUBSET (1..Len(file)) /\ Len(file) \in Nat /\ DOMAIN file = 1..Len(file)
  BY DEF Kept
<1>2. Cardinality(K) \in Nat
  BY <1>1, FinitePositions, Zenon
<1>3. ASSUME NEW k \in 1..Cardinality(K) PROVE Nth(K, k) \in DOMAIN file
  <2> HIDE DEF K
  <2>1. Nth(K, k) \in K
    BY <1>1, NthMember, Zenon
  <2> QED BY <1>1, <2>1
<1>4. Upto(seq) = [k \in 1..Cardinality(K) |-> file[Nth(K, k)]]
  BY DEF Upto
<1> HIDE DEF K
<1>5. \A k \in 1..Cardinality(K) : file[Nth(K, k)] \in Entry
  BY <1>3
<1> QED BY <1>2, <1>3, <1>4, <1>5

(* When every message is at or before the cursor, they are all read.        *)
LEMMA UptoAll ==
    ASSUME file \in Seq(Entry), NEW seq \in Nat, \A i \in DOMAIN file : file[i].seq <= seq
    PROVE  Upto(seq) = file
<1>1. Kept(seq) = 1..Len(file) /\ Len(file) \in Nat
  BY DEF Kept
<1>2. Cardinality(1..Len(file)) = Len(file)
  BY <1>1, CardUpto
<1>3. \A k \in 1..Len(file) : Nth(1..Len(file), k) = k
  BY <1>1, NthOfInterval
<1>4. Upto(seq) = [k \in 1..Len(file) |-> file[k]]
  BY <1>1, <1>2, <1>3 DEF Upto
<1> QED BY <1>4

(* When the last message is, it is the last one read.                       *)
LEMMA UptoLast ==
    ASSUME file \in Seq(Entry), file # <<>>, NEW seq \in Nat, file[Len(file)].seq <= seq
    PROVE  Upto(seq) # <<>> /\ Upto(seq)[Len(Upto(seq))] = file[Len(file)]
<1> DEFINE K == Kept(seq)
<1>1. K \in SUBSET (1..Len(file)) /\ Len(file) \in Nat \ {0} /\ Len(file) \in K
  BY DEF Kept
<1>2. Cardinality(K) \in Nat \ {0} /\ Nth(K, Cardinality(K)) = Len(file)
  <2> HIDE DEF K
  <2> QED BY <1>1, NthLast, Zenon
<1>3. Upto(seq) = [k \in 1..Cardinality(K) |-> file[Nth(K, k)]]
  BY DEF Upto
<1> HIDE DEF K
<1>4. Len(Upto(seq)) = Cardinality(K)
  BY <1>2, <1>3
<1> QED BY <1>2, <1>3, <1>4

(* A conversation is as long as its lines and made of their messages.       *)
LEMMA ConversationType ==
    ASSUME NEW es \in Seq(Entry)
    PROVE  Conversation(es) \in Seq(Msg) /\ Len(Conversation(es)) = Len(es)
           /\ \A i \in DOMAIN es : i \in DOMAIN Conversation(es) /\ Conversation(es)[i] = es[i].msg
<1>1. Len(es) \in Nat /\ DOMAIN es = 1..Len(es) /\ \A i \in 1..Len(es) : es[i].msg \in Msg
  <2>1. Len(es) \in Nat /\ DOMAIN es = 1..Len(es) /\ \A i \in 1..Len(es) : es[i] \in Entry
    OBVIOUS
  <2> QED BY <2>1 DEF Entry
<1>2. Conversation(es) = [i \in 1..Len(es) |-> es[i].msg]
  BY DEF Conversation
<1> QED BY <1>1, <1>2

(* The messages a log step appends are the messages it was given.           *)
LEMMA NumberedType ==
    ASSUME NEW n \in Nat, NEW ms \in Seq(Msg)
    PROVE  /\ Numbered(n, ms) \in Seq(Entry) /\ Len(Numbered(n, ms)) = Len(ms)
           /\ \A i \in DOMAIN ms : Numbered(n, ms)[i].seq = n + i /\ Numbered(n, ms)[i].msg = ms[i]
BY DEF Numbered, Entry

(* Lines appended to a file append their messages to its conversation.      *)
LEMMA ConversationConcat ==
    ASSUME NEW es \in Seq(Entry), NEW n \in Nat, NEW ms \in Seq(Msg)
    PROVE  Conversation(es \o Numbered(n, ms)) = Conversation(es) \o ms
<1> DEFINE N == Numbered(n, ms)
<1>1. N \in Seq(Entry) /\ Len(N) = Len(ms) /\ \A i \in DOMAIN ms : N[i].msg = ms[i]
  BY NumberedType
<1> HIDE DEF N
<1>2. /\ es \o N \in Seq(Entry) /\ Len(es \o N) = Len(es) + Len(ms)
      /\ \A i \in 1..Len(es) : (es \o N)[i] = es[i]
      /\ \A i \in 1..Len(ms) : (es \o N)[Len(es) + i] = N[i]
  BY <1>1
<1> DEFINE L == Conversation(es \o N)
           R == Conversation(es) \o ms
<1>3. L \in Seq(Msg) /\ Len(L) = Len(es) + Len(ms)
  BY <1>2, ConversationType
<1> DEFINE C == Conversation(es)
<1>4. /\ C \in Seq(Msg) /\ Len(C) = Len(es) /\ Len(es) \in Nat /\ Len(ms) \in Nat
      /\ \A i \in 1..Len(es) : C[i] = es[i].msg
  <2>1. Len(es) \in Nat /\ Len(ms) \in Nat /\ DOMAIN es = 1..Len(es)
    OBVIOUS
  <2> QED BY <2>1, ConversationType
<1> HIDE DEF C
<1>7. /\ C \o ms \in Seq(Msg) /\ Len(C \o ms) = Len(es) + Len(ms)
      /\ \A i \in 1..Len(es) : (C \o ms)[i] = C[i]
      /\ \A i \in 1..Len(ms) : (C \o ms)[Len(es) + i] = ms[i]
  <2>1. /\ C \o ms \in Seq(Msg) /\ Len(C \o ms) = Len(C) + Len(ms)
        /\ \A i \in 1..Len(C) + Len(ms) : (C \o ms)[i] = IF i <= Len(C) THEN C[i] ELSE ms[i - Len(C)]
    BY <1>4, ConcatProperties, Zenon
  <2>2. \A i \in 1..Len(es) : (C \o ms)[i] = C[i]
    BY <1>4, <2>1
  <2>3. \A i \in 1..Len(ms) : (C \o ms)[Len(es) + i] = ms[i]
    BY <1>4, <2>1
  <2> QED BY <1>4, <2>1, <2>2, <2>3
<1>8. /\ R \in Seq(Msg) /\ Len(R) = Len(es) + Len(ms)
      /\ \A i \in 1..Len(es) : R[i] = es[i].msg
      /\ \A i \in 1..Len(ms) : R[Len(es) + i] = ms[i]
  BY <1>4, <1>7 DEF C
<1>9. \A i \in 1..(Len(es) + Len(ms)) : L[i] = (es \o N)[i].msg
  <2>1. DOMAIN (es \o N) = 1..(Len(es) + Len(ms))
    BY <1>2
  <2> QED BY <1>2, <2>1, ConversationType
<1>5. ASSUME NEW i \in 1..Len(L) PROVE L[i] = R[i]
  <2> HIDE DEF L, R
  <2>1. i \in 1..(Len(es) + Len(ms)) /\ L[i] = (es \o N)[i].msg
    BY <1>3, <1>9
  <2>2. CASE i \in 1..Len(es)
    BY <1>2, <1>8, <2>1, <2>2
  <2>3. CASE i \notin 1..Len(es)
    <3>1. i - Len(es) \in 1..Len(ms) /\ i = Len(es) + (i - Len(es))
      BY <1>4, <2>1, <2>3
    <3> DEFINE j == i - Len(es)
    <3>2. j \in DOMAIN ms /\ (es \o N)[i] = N[j] /\ R[i] = ms[j]
      BY <1>2, <1>8, <3>1
    <3> QED BY <1>1, <2>1, <3>2
  <2> QED BY <2>2, <2>3
<1>6. L = R
  <2> HIDE DEF L, R
  <2> QED BY <1>3, <1>5, <1>8, SeqEqual
<1> QED BY <1>6 DEF N

----------------------------------------------------------------------------
(* Conversations: what is asked and answered.                              *)

(* Results of calls, as messages.                                           *)
Results(b) == [i \in 1..Len(b) |-> Result(b[i])]
Distinct(b) == \A i, j \in DOMAIN b : b[i] = b[j] => i = j

(* A call is asked for, or answered, by some message.                       *)
LEMMA AskedMember ==
    ASSUME NEW a, NEW c
    PROVE  /\ c \in Asked(a) <=> \E i \in DOMAIN a : IsCall(a[i]) /\ c \in Elems(a[i].calls)
           /\ c \in Answered(a) <=> \E i \in DOMAIN a : a[i].kind = "tool" /\ c = a[i].call
BY DEF Asked, Answered

(* The messages of a concatenation are those of its parts.                  *)
LEMMA ConcatParts ==
    ASSUME NEW a \in Seq(Msg), NEW b \in Seq(Msg)
    PROVE  /\ a \o b \in Seq(Msg) /\ Len(a \o b) = Len(a) + Len(b) /\ Len(a) \in Nat /\ Len(b) \in Nat
           /\ DOMAIN a = 1..Len(a) /\ DOMAIN b = 1..Len(b) /\ DOMAIN (a \o b) = 1..(Len(a) + Len(b))
           /\ \A i \in 1..Len(a) : (a \o b)[i] = a[i]
           /\ \A i \in 1..Len(b) : (a \o b)[Len(a) + i] = b[i]
           /\ \A i \in 1..(Len(a) + Len(b)) : i \notin 1..Len(a) =>
                 i - Len(a) \in 1..Len(b) /\ i = Len(a) + (i - Len(a))
OBVIOUS

(* The calls of a concatenation are those of its parts.                     *)
LEMMA AskedConcat ==
    ASSUME NEW a \in Seq(Msg), NEW b \in Seq(Msg)
    PROVE  Asked(a \o b) = Asked(a) \cup Asked(b) /\ Answered(a \o b) = Answered(a) \cup Answered(b)
<1> DEFINE ab == a \o b
<1>1. \A i \in DOMAIN a : i \in DOMAIN ab /\ ab[i] = a[i]
  BY ConcatParts
<1>2. \A i \in DOMAIN b : Len(a) + i \in DOMAIN ab /\ ab[Len(a) + i] = b[i]
  BY ConcatParts
<1>3. \A i \in DOMAIN ab : \/ i \in DOMAIN a /\ ab[i] = a[i]
                           \/ i - Len(a) \in DOMAIN b /\ ab[i] = b[i - Len(a)]
  BY ConcatParts
<1> HIDE DEF ab
<1>4. ASSUME NEW c PROVE c \in Asked(ab) <=> (c \in Asked(a) \/ c \in Asked(b))
  <2>1. c \in Asked(ab) <=> \E i \in DOMAIN ab : IsCall(ab[i]) /\ c \in Elems(ab[i].calls)
    BY AskedMember
  <2>2. c \in Asked(a) <=> \E i \in DOMAIN a : IsCall(a[i]) /\ c \in Elems(a[i].calls)
    BY AskedMember
  <2>3. c \in Asked(b) <=> \E i \in DOMAIN b : IsCall(b[i]) /\ c \in Elems(b[i].calls)
    BY AskedMember
  <2> QED BY <1>1, <1>2, <1>3, <2>1, <2>2, <2>3, Zenon
<1>5. ASSUME NEW c PROVE c \in Answered(ab) <=> (c \in Answered(a) \/ c \in Answered(b))
  <2>1. c \in Answered(ab) <=> \E i \in DOMAIN ab : ab[i].kind = "tool" /\ c = ab[i].call
    BY AskedMember
  <2>2. c \in Answered(a) <=> \E i \in DOMAIN a : a[i].kind = "tool" /\ c = a[i].call
    BY AskedMember
  <2>3. c \in Answered(b) <=> \E i \in DOMAIN b : b[i].kind = "tool" /\ c = b[i].call
    BY AskedMember
  <2> QED BY <1>1, <1>2, <1>3, <2>1, <2>2, <2>3, ZenonT(30)
<1>6. Asked(ab) = Asked(a) \cup Asked(b) /\ Answered(ab) = Answered(a) \cup Answered(b)
  BY <1>4, <1>5
<1> QED BY <1>6 DEF ab

(* Each message alone.                                                      *)
LEMMA AskedSingle ==
    ASSUME NEW c \in Seq(Calls), NEW r \in Calls
    PROVE  /\ Asked(<<Text>>) = {} /\ Answered(<<Text>>) = {}
           /\ Asked(<<Assistant(c)>>) = Elems(c) /\ Answered(<<Assistant(c)>>) = {}
           /\ Asked(<<>>) = {} /\ Answered(<<>>) = {}
<1>1. Asked(<<Text>>) = {} /\ Answered(<<Text>>) = {} /\ Asked(<<>>) = {} /\ Answered(<<>>) = {}
  BY DEF Asked, Answered, Text, IsCall
<1>2. Answered(<<Assistant(c)>>) = {}
  BY DEF Answered, Assistant
<1>3. CASE c = <<>>
  <2>1. Asked(<<Assistant(c)>>) = {} /\ Elems(c) = {}
    BY <1>3 DEF Asked, Assistant, IsCall, Elems
  <2> QED BY <1>1, <1>2, <2>1
<1>4. CASE c # <<>>
  <2>1. Asked(<<Assistant(c)>>) = Elems(c)
    BY <1>4 DEF Asked, Assistant, IsCall
  <2> QED BY <1>1, <1>2, <2>1
<1> QED BY <1>3, <1>4

(* Results ask for nothing and answer their calls.                          *)
LEMMA AskedResults ==
    ASSUME NEW b \in Seq(Calls)
    PROVE  /\ Results(b) \in Seq(Msg) /\ Len(Results(b)) = Len(b)
           /\ Asked(Results(b)) = {} /\ Answered(Results(b)) = Elems(b)
<1>1. /\ Len(b) \in Nat /\ DOMAIN b = 1..Len(b)
      /\ \A i \in 1..Len(b) : b[i] \in Calls /\ Result(b[i]) \in Msg
  BY DEF Msg
<1>2. Results(b) = [i \in 1..Len(b) |-> Result(b[i])]
  BY DEF Results
<1>3. Results(b) \in Seq(Msg) /\ Len(Results(b)) = Len(b)
  BY <1>1, <1>2
<1>4. Asked(Results(b)) = {}
  <2>1. \A i \in DOMAIN Results(b) : ~IsCall(Results(b)[i])
    BY <1>2 DEF IsCall, Result
  <2> QED BY <2>1 DEF Asked
<1>5. Answered(Results(b)) = Elems(b)
  BY <1>1, <1>2 DEF Answered, Elems, Result
<1> QED BY <1>3, <1>4, <1>5

(* A prefix of a conversation that pairs does.                              *)
LEMMA PairedPrefix ==
    ASSUME NEW a \in Seq(Msg), Paired(a), NEW n \in 1..Len(a)
    PROVE  Paired(SubSeq(a, 1, n))
<1> DEFINE p == SubSeq(a, 1, n)
<1>1. /\ p \in Seq(Msg) /\ Len(p) = n /\ DOMAIN p = 1..n /\ n \in Nat /\ n <= Len(a)
      /\ \A i \in 1..n : p[i] = a[i]
  OBVIOUS
<1>2. ASSUME NEW i \in 1..n PROVE SubSeq(p, 1, i - 1) = SubSeq(a, 1, i - 1)
  OBVIOUS
<1> HIDE DEF p
<1>3. \A i \in DOMAIN p : i \in DOMAIN a /\ p[i] = a[i] /\ SubSeq(p, 1, i - 1) = SubSeq(a, 1, i - 1)
  BY <1>1, <1>2
<1>4. Paired(p)
  BY <1>3 DEF Paired
<1> QED BY <1>4 DEF p

(* So does one to which no results are added.                               *)
LEMMA PairedConcat ==
    ASSUME NEW a \in Seq(Msg), NEW b \in Seq(Msg), Paired(a), Answered(b) = {}
    PROVE  Paired(a \o b)
<1> DEFINE ab == a \o b
<1>1. /\ ab \in Seq(Msg) /\ Len(ab) = Len(a) + Len(b) /\ Len(a) \in Nat /\ Len(b) \in Nat
      /\ \A i \in 1..Len(a) : ab[i] = a[i]
      /\ \A i \in 1..Len(b) : ab[Len(a) + i] = b[i]
  BY ConcatParts
<1>2. ASSUME NEW i \in 1..Len(a) PROVE SubSeq(ab, 1, i - 1) = SubSeq(a, 1, i - 1)
  <2>1. CASE i = 1
    <3>1. 1 \in Int /\ 0 \in Int /\ 0 < 1
      OBVIOUS
    <3>2. SubSeq(ab, 1, 0) = <<>> /\ SubSeq(a, 1, 0) = <<>>
      BY <3>1, SubSeqEmpty, Zenon
    <3> QED BY <2>1, <3>2
  <2>2. CASE i # 1
    <3>1. 1 \in 1..Len(a) /\ i - 1 \in 1..Len(a)
      BY <1>1, <2>2
    <3> QED BY <3>1, SubSeqOfConcat1
  <2> QED BY <2>1, <2>2
<1>3. \A i \in 1..Len(b) : b[i].kind # "tool"
  <2>1. DOMAIN b = 1..Len(b)
    OBVIOUS
  <2> QED BY <2>1 DEF Answered
<1> HIDE DEF ab
<1>4. ASSUME NEW i \in DOMAIN ab, ab[i].kind = "tool"
      PROVE  ab[i].call \in Pending(SubSeq(ab, 1, i - 1))
  <2>1. i \in 1..Len(a)
    <3>1. ASSUME i \notin 1..Len(a) PROVE FALSE
      <4>1. i - Len(a) \in 1..Len(b) /\ i = Len(a) + (i - Len(a))
        BY <1>1, <3>1
      <4> QED BY <1>1, <1>3, <1>4, <4>1
    <3> QED BY <3>1
  <2>2. i \in DOMAIN a /\ ab[i] = a[i] /\ SubSeq(ab, 1, i - 1) = SubSeq(a, 1, i - 1)
    BY <1>1, <1>2, <2>1
  <2>3. a[i].call \in Pending(SubSeq(a, 1, i - 1))
    BY <1>4, <2>2 DEF Paired
  <2> QED BY <2>2, <2>3
<1> QED BY <1>4 DEF Paired, ab

(* Reading results through: one after the other.                            *)
LEMMA ResultsPrefix ==
    ASSUME NEW a \in Seq(Msg), NEW b \in Seq(Calls), NEW j \in 1..Len(b)
    PROVE  SubSeq(a \o Results(b), 1, Len(a) + j - 1) = a \o Results(SubSeq(b, 1, j - 1))
<1> DEFINE q == SubSeq(b, 1, j - 1)
<1>0. j \in Nat /\ j - 1 \in Nat /\ j - 1 < Len(b) /\ Len(a) \in Nat /\ Len(b) \in Nat
  OBVIOUS
<1>1. q \in Seq(Calls) /\ Len(q) = j - 1 /\ \A k \in 1..(j - 1) : q[k] = b[k]
  OBVIOUS
<1> HIDE DEF q
<1>2. Results(b) \in Seq(Msg) /\ Len(Results(b)) = Len(b)
  BY AskedResults
<1>3. Results(q) \in Seq(Msg) /\ Len(Results(q)) = j - 1
  BY <1>1, AskedResults
<1>4. \A k \in 1..(j - 1) : Results(q)[k] = Results(b)[k]
  BY <1>0, <1>1 DEF Results
<1> DEFINE r == Results(b)
           s == Results(q)
<1>5. /\ r \in Seq(Msg) /\ Len(r) = Len(b) /\ s \in Seq(Msg) /\ Len(s) = j - 1
      /\ \A k \in 1..(j - 1) : s[k] = r[k]
  BY <1>2, <1>3, <1>4
<1> HIDE DEF r, s
<1> DEFINE ab == a \o r
<1>6. /\ ab \in Seq(Msg) /\ Len(ab) = Len(a) + Len(b)
      /\ \A i \in 1..Len(a) : ab[i] = a[i]
      /\ \A i \in 1..Len(b) : ab[Len(a) + i] = r[i]
  BY SMTT(30), <1>5
<1> DEFINE R == a \o s
<1>7. /\ R \in Seq(Msg) /\ Len(R) = Len(a) + (j - 1)
      /\ \A k \in 1..Len(a) : R[k] = a[k]
      /\ \A k \in 1..(j - 1) : R[Len(a) + k] = s[k]
  <2>0. s \in Seq(Msg)
    BY <1>5
  <2>1. /\ R \in Seq(Msg) /\ Len(R) = Len(a) + Len(s)
        /\ \A k \in 1..Len(a) : R[k] = a[k]
        /\ \A k \in 1..Len(s) : R[Len(a) + k] = s[k]
    BY <2>0
  <2>2. Len(s) = j - 1
    BY <1>5
  <2> HIDE DEF R
  <2> QED BY <2>1, <2>2
<1> HIDE DEF ab, R
<1> DEFINE L == SubSeq(ab, 1, Len(a) + j - 1)
<1>8. L \in Seq(Msg) /\ Len(L) = Len(a) + (j - 1) /\ \A k \in 1..(Len(a) + (j - 1)) : L[k] = ab[k]
  <2>1. Len(a) + j - 1 \in Nat /\ Len(a) + j - 1 <= Len(ab) /\ Len(a) + j - 1 = Len(a) + (j - 1)
    BY <1>0, <1>6
  <2> QED BY <1>6, <2>1
<1> HIDE DEF L
<1>9. ASSUME NEW k \in 1..Len(L) PROVE L[k] = R[k]
  <2>1. CASE k \in 1..Len(a)
    BY <1>6, <1>7, <1>8, <2>1
  <2>2. CASE k \notin 1..Len(a)
    <3>1. /\ k - Len(a) \in 1..(j - 1) /\ k - Len(a) \in 1..Len(b) /\ k = Len(a) + (k - Len(a))
          /\ k \in 1..(Len(a) + (j - 1))
      BY <1>0, <1>8, <2>2
    <3> DEFINE i == k - Len(a)
    <3>2. L[k] = ab[Len(a) + i] /\ ab[Len(a) + i] = r[i] /\ R[Len(a) + i] = s[i] /\ s[i] = r[i]
      <4> HIDE DEF i
      <4>1. i \in 1..(j - 1) /\ i \in 1..Len(b) /\ k = Len(a) + i /\ k \in 1..(Len(a) + (j - 1))
        BY <3>1 DEF i
      <4> QED BY <1>5, <1>6, <1>7, <1>8, <4>1
    <3> QED BY <3>1, <3>2
  <2> QED BY <2>1, <2>2
<1>10. L = R
  BY <1>7, <1>8, <1>9, SeqEqual
<1> QED BY <1>10 DEF L, R, ab, r, s, q

(* Results of open calls, each once, pair.                                  *)
LEMMA PairedResults ==
    ASSUME NEW a \in Seq(Msg), Paired(a), NEW b \in Seq(Calls), Distinct(b), Elems(b) \subseteq Pending(a)
    PROVE  /\ a \o Results(b) \in Seq(Msg) /\ Paired(a \o Results(b))
           /\ Pending(a \o Results(b)) = Pending(a) \ Elems(b)
<1>0. Results(b) \in Seq(Msg) /\ Len(Results(b)) = Len(b)
      /\ Asked(Results(b)) = {} /\ Answered(Results(b)) = Elems(b)
  BY AskedResults
<1>10. \A j \in 1..Len(b) : Results(b)[j].kind = "tool" /\ Results(b)[j].call = b[j]
  BY DEF Results, Result
<1>11. \A j \in 1..Len(b) : SubSeq(a \o Results(b), 1, Len(a) + j - 1) = a \o Results(SubSeq(b, 1, j - 1))
  BY ResultsPrefix
<1> DEFINE r  == Results(b)
<1>1. /\ r \in Seq(Msg) /\ Len(r) = Len(b) /\ Asked(r) = {} /\ Answered(r) = Elems(b)
      /\ \A j \in 1..Len(b) : r[j].kind = "tool" /\ r[j].call = b[j]
      /\ \A j \in 1..Len(b) : SubSeq(a \o r, 1, Len(a) + j - 1) = a \o Results(SubSeq(b, 1, j - 1))
  BY <1>0, <1>10, <1>11
<1> HIDE DEF r
<1> DEFINE ab == a \o r
<1>2. /\ ab \in Seq(Msg) /\ Len(ab) = Len(a) + Len(b) /\ Len(a) \in Nat /\ Len(b) \in Nat
      /\ DOMAIN a = 1..Len(a) /\ DOMAIN ab = 1..(Len(a) + Len(b))
      /\ \A i \in 1..Len(a) : ab[i] = a[i]
      /\ \A i \in 1..Len(b) : ab[Len(a) + i] = r[i]
  <2>1. /\ ab \in Seq(Msg) /\ Len(ab) = Len(a) + Len(r) /\ Len(a) \in Nat /\ Len(r) \in Nat
        /\ DOMAIN a = 1..Len(a)
        /\ \A i \in 1..Len(a) : ab[i] = a[i]
        /\ \A i \in 1..Len(r) : ab[Len(a) + i] = r[i]
    <3>1. r \in Seq(Msg)
      BY <1>1
    <3> QED BY <3>1
  <2>2. Len(r) = Len(b)
    BY <1>1
  <2> HIDE DEF ab
  <2>3. DOMAIN ab = 1..(Len(a) + Len(b)) /\ Len(ab) = Len(a) + Len(b)
    BY <2>1, <2>2
  <2> QED BY <2>1, <2>2, <2>3
<1>3. Pending(ab) = Pending(a) \ Elems(b)
  <2>1. Asked(ab) = Asked(a) \cup Asked(r) /\ Answered(ab) = Answered(a) \cup Answered(r)
    BY <1>1, AskedConcat
  <2> QED BY <1>1, <2>1 DEF Pending
<1>5. ASSUME NEW i \in DOMAIN ab, ab[i].kind = "tool"
      PROVE  ab[i].call \in Pending(SubSeq(ab, 1, i - 1))
  <2>1. CASE i \in 1..Len(a)
    <3>1. SubSeq(ab, 1, i - 1) = SubSeq(a, 1, i - 1)
      <4>1. CASE i = 1
        <5>1. 1 \in Int /\ 0 \in Int /\ 0 < 1
          OBVIOUS
        <5>2. SubSeq(ab, 1, 0) = <<>> /\ SubSeq(a, 1, 0) = <<>>
          BY <5>1, SubSeqEmpty, Zenon
        <5> QED BY <4>1, <5>2
      <4>2. CASE i # 1
        <5>1. 1 \in 1..Len(a) /\ i - 1 \in 1..Len(a)
          BY <1>2, <2>1, <4>2
        <5> QED BY <1>1, <5>1, SubSeqOfConcat1
      <4> QED BY <4>1, <4>2
    <3> HIDE DEF ab
    <3>2. i \in DOMAIN a /\ ab[i] = a[i]
      BY <1>2, <2>1
    <3>3. a[i].call \in Pending(SubSeq(a, 1, i - 1))
      BY <1>5, <3>2 DEF Paired
    <3> QED BY <3>1, <3>2, <3>3
  <2>2. CASE i \notin 1..Len(a)
    <3> HIDE DEF ab
    <3>1. PICK j \in 1..Len(b) : i = Len(a) + j
      <4>1. i - Len(a) \in 1..Len(b) /\ i = Len(a) + (i - Len(a))
        BY <1>2, <2>2
      <4> QED BY <4>1
    <3>2. ab[i].call = b[j]
      BY <1>1, <1>2, <3>1
    <3> DEFINE q == SubSeq(b, 1, j - 1)
    <3>3. q \in Seq(Calls) /\ \A k \in DOMAIN q : k \in DOMAIN b /\ k # j /\ q[k] = b[k]
      BY <3>1
    <3>5. SubSeq(ab, 1, i - 1) = a \o Results(q)
      <4>1. i - 1 = Len(a) + j - 1
        BY <1>2, <3>1
      <4> QED BY <1>1, <3>1, <4>1 DEF ab
    <3> HIDE DEF q
    <3>4. j \in DOMAIN b /\ b[j] \notin Elems(q) /\ b[j] \in Pending(a)
      <4>1. j \in DOMAIN b
        BY <3>1
      <4>2. \A k \in DOMAIN q : q[k] # b[j]
        BY <3>3, <4>1 DEF Distinct
      <4>3. b[j] \notin Elems(q)
        BY <4>2 DEF Elems
      <4>4. b[j] \in Elems(b)
        BY <4>1 DEF Elems
      <4> QED BY <4>1, <4>3, <4>4
    <3>6. Asked(a \o Results(q)) = Asked(a) /\ Answered(a \o Results(q)) = Answered(a) \cup Elems(q)
      <4>1. Results(q) \in Seq(Msg) /\ Asked(Results(q)) = {} /\ Answered(Results(q)) = Elems(q)
        BY <3>3, AskedResults
      <4> DEFINE t == Results(q)
      <4>2. t \in Seq(Msg)
        BY <4>1
      <4> HIDE DEF t
      <4>3. Asked(a \o t) = Asked(a) \cup Asked(t) /\ Answered(a \o t) = Answered(a) \cup Answered(t)
        BY <4>2, AskedConcat
      <4> QED BY <4>1, <4>3 DEF t
    <3>7. b[j] \in Pending(a \o Results(q))
      BY <3>4, <3>6 DEF Pending
    <3> QED BY <3>2, <3>5, <3>7
  <2> QED BY <2>1, <2>2
<1>6. Paired(ab)
  <2> HIDE DEF ab
  <2> QED BY <1>5 DEF Paired
<1> QED BY <1>2, <1>3, <1>6 DEF ab, r

(* What pairs answers only what was asked.                                  *)
LEMMA PairedAnswersAsked ==
    ASSUME NEW a \in Seq(Msg), Paired(a)
    PROVE  Answered(a) \subseteq Asked(a)
<1>1. ASSUME NEW i \in DOMAIN a, a[i].kind = "tool" PROVE a[i].call \in Asked(a)
  <2>1. a[i].call \in Asked(SubSeq(a, 1, i - 1))
    BY <1>1 DEF Paired, Pending
  <2>2. PICK k \in DOMAIN SubSeq(a, 1, i - 1) :
            IsCall(SubSeq(a, 1, i - 1)[k]) /\ a[i].call \in Elems(SubSeq(a, 1, i - 1)[k].calls)
    BY <2>1, AskedMember
  <2>3. k \in DOMAIN a /\ SubSeq(a, 1, i - 1)[k] = a[k]
    OBVIOUS
  <2>4. IsCall(a[k]) /\ a[i].call \in Elems(a[k].calls)
    BY <2>2, <2>3
  <2> QED BY <2>3, <2>4, AskedMember
<1> QED BY <1>1, AskedMember

----------------------------------------------------------------------------
(* The invariants.  Each part needs the ones before it.                     *)

(* The tool calls the loop, or the row that is paused, stands before.       *)
LastCalls == file[Len(file)].msg.calls

(* The rows of a session and where its loop is.                             *)
PlacesInv ==
    /\ lpc \in {"start", "turn", "boundary", "tools", "results", "over"} => lrow = "running"
    /\ lrow = "paused" => lpc \in {"close", "off"}
    /\ lpc = "start" => file = <<>> /\ hist = <<>>
    /\ lpc \in {"start", "off"} => queue = <<>> /\ ~forced
    /\ counter = 0 => queue = <<>>
    /\ lpc = "boundary" => counter # 0

(* The last message of the file asks for tools, none of the calls twice; it *)
(* is the last message in memory too.                                       *)
BeforeTools ==
    /\ (lpc \in {"boundary", "tools"} \/ lrow = "paused") =>
        /\ file # <<>> /\ IsCall(file[Len(file)].msg) /\ Distinct(LastCalls)
    /\ lpc \in {"boundary", "tools"} =>
        hist # <<>> /\ hist[Len(hist)] = file[Len(file)].msg
    /\ lpc = "boundary" => file[Len(file)].seq <= counter
    /\ lrow = "paused" => file[Len(file)].seq <= cursor

(* What has been executed was asked for in the file, and of the calls the   *)
(* loop stands before, only those in the batch have been.                   *)
ExecutedInv ==
    /\ Executed \subseteq Asked(Conversation(file))
    /\ Asked(hist) \subseteq Asked(Conversation(file))
    /\ ToolOnce
    /\ (lpc = "boundary" \/ lrow = "paused") => Elems(LastCalls) \cap Executed = {}
    /\ lpc = "tools" =>
        /\ batch = SubSeq(LastCalls, 1, Len(batch)) /\ Len(batch) <= Len(LastCalls)
        /\ \A i \in Len(batch) + 1..Len(LastCalls) : LastCalls[i] \notin Executed

(* The highest sequence number there is, if no crash took any.              *)
Top == IF queue = <<>> THEN mirror.max ELSE queue[Len(queue)].max

NumbersInv ==
    ~lost =>
        /\ \A i \in DOMAIN file : file[i].seq <= Top
        /\ Top <= LastSeq
        /\ lrow = "paused" => \A i \in DOMAIN file : file[i].seq <= cursor

(* The conversation in memory and the one in the file.                      *)
AnswersDue == IF lpc = "results" THEN Results(batch) ELSE <<>>
ConversationInv ==
    ~lost =>
        /\ lpc \in {"turn", "boundary", "tools", "results"} => Paired(hist)
        /\ lpc \in {"turn", "results"} => Pending(hist) = {}
        /\ lpc \in {"boundary", "tools"} => Pending(hist) = Elems(LastCalls)
        /\ lpc \in {"turn", "boundary", "tools", "results"} /\ ~forced =>
              hist = Conversation(file) \o AnswersDue
        /\ lrow = "paused" => /\ Paired(Conversation(file))
                              /\ Pending(Conversation(file)) = Elems(LastCalls)

LoopInv == TypeOK /\ PlacesInv /\ BeforeTools /\ ExecutedInv /\ NumbersInv /\ ConversationInv

----------------------------------------------------------------------------
(* The steps.                                                              *)

(* What a log step does to the file, the counter and the channel.           *)
Wrote(ms) ==
    /\ file' \in Seq(Entry) /\ counter' \in Nat \ {0} /\ queue' \in Seq(Step)
    /\ mirror' = mirror /\ lost' = lost
    /\ Conversation(file') = Conversation(file) \o ms
    /\ file' # <<>> /\ file'[Len(file')].msg = ms[Len(ms)] /\ file'[Len(file')].seq <= counter'
    /\ LastSeq \in Nat /\ counter' > LastSeq
    /\ queue' # <<>> /\ queue'[Len(queue')].max = counter'
    /\ \A i \in DOMAIN file' : file'[i].seq <= counter' \/ (i \in DOMAIN file /\ file'[i] = file[i])

(* LogEntries does so, whatever it is given.                                *)
LEMMA Logged ==
    ASSUME TypeOK, NEW other \in Nat, NEW ms \in Seq(Msg), ms # <<>>, LogEntries(other, ms)
    PROVE  Wrote(ms)
<1> DEFINE e == [len |-> (LastSeq + other + Len(ms)) - LastSeq, max |-> LastSeq + other + Len(ms)]
<1>0. /\ file' = file \o Numbered(LastSeq + other, ms)
      /\ counter' = LastSeq + other + Len(ms)
      /\ queue' = Append(queue, e)
      /\ mirror' = mirror /\ lost' = lost
  BY DEF LogEntries
<1> DEFINE n == LastSeq + other
           N == Numbered(n, ms)
<1>1. LastSeq \in Nat /\ n \in Nat /\ Len(ms) \in Nat \ {0} /\ file \in Seq(Entry) /\ queue \in Seq(Step)
  <2>1. mirror.len \in Nat /\ mirror.max \in Nat /\ counter \in Nat
    BY DEF TypeOK, Step
  <2>2. LastSeq \in Nat
    BY <2>1 DEF LastSeq, SeedSeq
  <2>3. Len(ms) \in Nat \ {0}
    BY EmptySeq
  <2> QED BY <2>2, <2>3 DEF TypeOK
<1>2. /\ file' = file \o N /\ counter' = n + Len(ms)
      /\ mirror' = mirror /\ lost' = lost
  BY <1>0, Zenon
<1>3. /\ N \in Seq(Entry) /\ Len(N) = Len(ms)
      /\ \A i \in 1..Len(ms) : N[i].seq = n + i /\ N[i].msg = ms[i]
  <2> HIDE DEF n
  <2>1. DOMAIN ms = 1..Len(ms)
    OBVIOUS
  <2>2. /\ Numbered(n, ms) \in Seq(Entry) /\ Len(Numbered(n, ms)) = Len(ms)
        /\ \A i \in DOMAIN ms : Numbered(n, ms)[i].seq = n + i /\ Numbered(n, ms)[i].msg = ms[i]
    BY <1>1, NumberedType, Zenon
  <2> QED BY <2>1, <2>2, Zenon
<1>4. Conversation(file') = Conversation(file) \o ms
  <2> HIDE DEF n
  <2> QED BY <1>1, <1>2, ConversationConcat
<1>5. /\ queue' \in Seq(Step) /\ queue' # <<>> /\ queue'[Len(queue')].max = counter'
      /\ counter' > LastSeq /\ counter' \in Nat \ {0}
  <2>1. counter' \in Nat \ {0} /\ counter' > LastSeq /\ counter' - LastSeq \in Nat
    BY <1>1, <1>2
  <2>2. e.max = counter' /\ e.len = counter' - LastSeq /\ e = [len |-> counter' - LastSeq, max |-> counter']
    BY <1>0
  <2>3. e \in Step
    <3> HIDE DEF e
    <3> QED BY <2>1, <2>2 DEF Step
  <2>4. queue' = Append(queue, e)
    BY <1>0
  <2> HIDE DEF e, n
  <2>5. queue' \in Seq(Step) /\ Len(queue') = Len(queue) + 1 /\ queue'[Len(queue) + 1] = e /\ Len(queue) \in Nat
    BY <1>1, <2>3, <2>4
  <2> QED BY <2>1, <2>2, <2>5
<1>6. /\ file' \in Seq(Entry) /\ Len(file') = Len(file) + Len(ms) /\ Len(file) \in Nat
      /\ DOMAIN file' = 1..(Len(file) + Len(ms)) /\ DOMAIN file = 1..Len(file)
      /\ \A i \in 1..Len(file) : file'[i] = file[i]
      /\ \A i \in 1..Len(ms) : file'[Len(file) + i] = N[i]
  <2> HIDE DEF N
  <2>1. /\ file' \in Seq(Entry) /\ Len(file') = Len(file) + Len(N) /\ Len(file) \in Nat
        /\ DOMAIN file = 1..Len(file)
        /\ \A i \in 1..Len(file) : file'[i] = file[i]
        /\ \A i \in 1..Len(N) : file'[Len(file) + i] = N[i]
    <3>1. file' = file \o N /\ file \in Seq(Entry) /\ N \in Seq(Entry)
      BY <1>1, <1>2, <1>3
    <3> QED BY <3>1
  <2>2. Len(N) = Len(ms)
    BY <1>3
  <2>3. DOMAIN file' = 1..Len(file')
    BY <2>1
  <2> QED BY <2>1, <2>2, <2>3
<1>7. file' # <<>> /\ file'[Len(file')].msg = ms[Len(ms)] /\ file'[Len(file')].seq <= counter'
  <2> HIDE DEF n, N
  <2>1. Len(ms) \in 1..Len(ms)
    BY <1>1
  <2>2. file'[Len(file')] = N[Len(ms)] /\ Len(file') # 0
    BY <1>1, <1>6, <2>1
  <2>3. N[Len(ms)].seq = counter' /\ N[Len(ms)].msg = ms[Len(ms)]
    BY <1>2, <1>3, <2>1
  <2>4. counter' \in Nat
    BY <1>5
  <2> QED BY <1>6, <2>2, <2>3, <2>4
<1>8. ASSUME NEW i \in DOMAIN file' PROVE file'[i].seq <= counter' \/ (i \in DOMAIN file /\ file'[i] = file[i])
  <2> HIDE DEF N, n
  <2>1. CASE i \in 1..Len(file)
    BY <1>6, <2>1
  <2>2. CASE i \notin 1..Len(file)
    <3>1. PICK k \in 1..Len(ms) : i = Len(file) + k
      <4>1. i - Len(file) \in 1..Len(ms) /\ i = Len(file) + (i - Len(file))
        BY <1>1, <1>6, <2>2
      <4> QED BY <4>1
    <3>2. file'[i] = N[k]
      BY <1>6, <3>1
    <3>3. N[k].seq = n + k
      BY <1>3
    <3>4. k <= Len(ms) /\ k \in Nat
      BY <1>1
    <3> QED BY <1>1, <1>2, <3>2, <3>3, <3>4
  <2> QED BY <2>1, <2>2
<1> QED BY <1>1, <1>2, <1>4, <1>5, <1>6, <1>7, <1>8 DEF Wrote

(* A message alone.                                                         *)
LEMMA OneMessage ==
    ASSUME NEW m \in Msg
    PROVE  <<m>> \in Seq(Msg) /\ <<m>> # <<>> /\ Len(<<m>>) = 1 /\ <<m>>[1] = m
OBVIOUS

(* The kinds of messages.                                                   *)
LEMMA Messages ==
    /\ Text \in Msg
    /\ \A c \in Calls : Result(c) \in Msg
    /\ \A c \in Seq(Calls) : Assistant(c) \in Msg
BY DEF Msg

(* What each step that logs appends.                                        *)
LEMMA BeginWrites ==
    ASSUME TypeOK, Begin
    PROVE  Wrote(<<Text>>) /\ hist' = <<Text>>
<1>1. <<Text>> \in Seq(Msg) /\ <<Text>> # <<>>
  BY Messages, OneMessage
<1>2. LogEntries(0, <<Text>>) /\ hist' = <<Text>>
  BY DEF Begin, buildInitialMessages
<1> QED BY <1>1, <1>2, Logged

(* The notice of a resume.                                                  *)
LEMMA NoticeWrites ==
    ASSUME TypeOK, ResumeNotice
    PROVE  Wrote(<<Text>>) /\ hist' = hist \o <<Text>>
<1>1. <<Text>> \in Seq(Msg) /\ <<Text>> # <<>> /\ hist \in Seq(Msg)
  BY Messages, OneMessage DEF TypeOK
<1>2. LogEntries(0, <<Text>>) /\ hist' = Append(hist, Text)
  BY DEF ResumeNotice, LogConversationMessage
<1>3. Append(hist, Text) = hist \o <<Text>>
  BY <1>1, Messages
<1> QED BY <1>1, <1>2, <1>3, Logged

(* The calls of a turn are new and differ.                                  *)
LEMMA FreshCalls ==
    ASSUME NEW calls \in NewCalls
    PROVE  calls \in Seq(Calls) /\ Distinct(calls) /\ Elems(calls) \cap Asked(Conversation(file)) = {}
<1> DEFINE F == Calls \ Asked(Conversation(file))
<1>1. NewCalls = {<<>>} \cup {<<c>> : c \in F} \cup {<<p[1], p[2]>> : p \in {q \in F \X F : q[1] # q[2]}}
  BY DEF NewCalls
<1>2. F \subseteq Calls /\ F \cap Asked(Conversation(file)) = {}
  OBVIOUS
<1> HIDE DEF F
<1>3. CASE calls = <<>>
  BY <1>3 DEF Distinct, Elems
<1>4. CASE calls \in {<<c>> : c \in F}
  <2>1. PICK c \in F : calls = <<c>>
    BY <1>4
  <2>2. calls \in Seq(Calls) /\ DOMAIN calls = {1} /\ calls[1] = c
    BY <1>2, <2>1
  <2> QED BY <1>2, <2>2 DEF Distinct, Elems
<1>5. CASE calls \in {<<p[1], p[2]>> : p \in {q \in F \X F : q[1] # q[2]}}
  <2>1. PICK c \in F, d \in F : c # d /\ calls = <<c, d>>
    BY <1>5
  <2>2. calls \in Seq(Calls) /\ DOMAIN calls = {1, 2} /\ calls[1] = c /\ calls[2] = d
    BY <1>2, <2>1
  <2> QED BY <1>2, <2>1, <2>2 DEF Distinct, Elems
<1> QED BY <1>1, <1>3, <1>4, <1>5

(* The message of a turn, with what is put in front of it.                  *)
LEMMA TurnWrites ==
    ASSUME TypeOK, NEW calls \in NewCalls, NEW before \in {<<>>, <<Text>>}, ModelTurn(calls, before)
    PROVE  /\ before \o <<Assistant(calls)>> \in Seq(Msg)
           /\ Wrote(before \o <<Assistant(calls)>>)
           /\ hist' = hist \o (before \o <<Assistant(calls)>>)
           /\ hist' # <<>> /\ hist'[Len(hist')] = Assistant(calls)
           /\ file'[Len(file')].msg = Assistant(calls)
<1>1. calls \in Seq(Calls) /\ Assistant(calls) \in Msg
  BY FreshCalls, Messages
<1>2. before \in Seq(Msg) /\ Len(before) \in Nat
  <2>1. <<Text>> \in Seq(Msg)
    BY Messages, OneMessage
  <2>2. <<>> \in Seq(Msg)
    OBVIOUS
  <2>3. before \in Seq(Msg)
    BY <2>1, <2>2, Zenon
  <2> QED BY <2>3
<1> DEFINE m == Assistant(calls)
           ms == Append(before, m)
<1>3. hist' = hist \o ms /\ LogEntries(2, ms)
  BY Zenon DEF ModelTurn, LogTurn
<1>4. m \in Msg
  BY <1>1
<1> HIDE DEF m
<1>5. ms = before \o <<m>> /\ ms \in Seq(Msg) /\ Len(ms) = Len(before) + 1 /\ ms[Len(before) + 1] = m /\ ms # <<>>
  <2>1. before \in Seq(Msg) /\ Len(before) \in Nat
    BY <1>2
  <2>2. ms = before \o <<m>>
    BY <2>1, <1>4
  <2>3. ms \in Seq(Msg) /\ Len(ms) = Len(before) + 1 /\ ms[Len(before) + 1] = m
    BY <2>1, <1>4
  <2> HIDE DEF ms
  <2> QED BY <2>1, <2>2, <2>3
<1> HIDE DEF ms
<1>6. Wrote(ms)
  BY <1>3, <1>5, Logged
<1>7. hist \in Seq(Msg)
  BY DEF TypeOK
<1>8. hist' # <<>> /\ hist'[Len(hist')] = m
  BY <1>2, <1>3, <1>5, <1>7
<1>9. file'[Len(file')].msg = m
  BY <1>2, <1>5, <1>6 DEF Wrote
<1> QED BY <1>3, <1>5, <1>6, <1>8, <1>9 DEF m

(* All results enter the conversation; the first is logged.                 *)
LEMMA ToolsDoneWrites ==
    ASSUME TypeOK, ToolsDone, batch # <<>>
    PROVE  /\ batch[1] \in Calls /\ Wrote(<<Result(batch[1])>>)
           /\ hist' = hist \o Results(batch) /\ Results(batch) \in Seq(Msg)
           /\ Tail(batch) \in Seq(Calls) /\ batch' = Tail(batch)
<1>1. batch \in Seq(Calls) /\ Len(batch) \in Nat /\ batch[1] \in Calls /\ Tail(batch) \in Seq(Calls)
  BY DEF TypeOK
<1>2. <<Result(batch[1])>> \in Seq(Msg) /\ <<Result(batch[1])>> # <<>>
  BY <1>1, Messages, OneMessage
<1>3. LogEntries(Len(batch), <<Result(batch[1])>>) /\ hist' = hist \o Results(batch) /\ batch' = Tail(batch)
  BY DEF ToolsDone, Results
<1> QED BY <1>1, <1>2, <1>3, Logged, AskedResults

(* The others are logged one by one.                                        *)
LEMMA ResultWrites ==
    ASSUME TypeOK, LogResult
    PROVE  /\ batch[1] \in Calls /\ Wrote(<<Result(batch[1])>>)
           /\ Tail(batch) \in Seq(Calls) /\ batch' = Tail(batch) /\ batch # <<>> /\ hist' = hist
<1>1. batch # <<>> /\ LogEntries(0, <<Result(batch[1])>>) /\ hist' = hist /\ batch' = Tail(batch)
  BY DEF LogResult, LogConversationMessage
<1>2. batch \in Seq(Calls) /\ Len(batch) \in Nat /\ batch[1] \in Calls /\ Tail(batch) \in Seq(Calls)
  BY <1>1 DEF TypeOK
<1>3. <<Result(batch[1])>> \in Seq(Msg) /\ <<Result(batch[1])>> # <<>>
  BY <1>2, Messages, OneMessage
<1> QED BY <1>1, <1>2, <1>3, Logged

----------------------------------------------------------------------------
(* Types.                                                                  *)

(* A message that asks for tools is the assistant's.                        *)
LEMMA CallsOf ==
    ASSUME NEW m \in Msg, IsCall(m)
    PROVE  m.calls \in Seq(Calls) /\ m.calls # <<>> /\ m = Assistant(m.calls)
BY DEF Msg, IsCall, Text, Assistant, Result

(* A conversation read back asks for nothing the file does not.             *)
LEMMA LoadType ==
    ASSUME TypeOK, NEW seq \in Nat
    PROVE  /\ LoadMessageHistory(seq) \in Seq(Msg)
           /\ Len(LoadMessageHistory(seq)) = Len(Upto(seq))
           /\ Asked(LoadMessageHistory(seq)) \subseteq Asked(Conversation(file))
<1>1. /\ Upto(seq) \in Seq(Entry)
      /\ \A k \in DOMAIN Upto(seq) : \E i \in DOMAIN file : Upto(seq)[k] = file[i]
  BY UptoType DEF TypeOK
<1> DEFINE u == Upto(seq)
           c == Conversation(u)
           f == Conversation(file)
<1>2. /\ c \in Seq(Msg) /\ Len(c) = Len(u)
      /\ \A i \in DOMAIN u : i \in DOMAIN c /\ c[i] = u[i].msg
  <2> HIDE DEF u
  <2> QED BY <1>1, ConversationType DEF u
<1>3. /\ f \in Seq(Msg) /\ Len(f) = Len(file)
      /\ \A i \in DOMAIN file : i \in DOMAIN f /\ f[i] = file[i].msg
  BY ConversationType DEF TypeOK
<1>4. DOMAIN c = DOMAIN u
  <2> HIDE DEF u, c
  <2>1. u \in Seq(Entry)
    BY <1>1 DEF u
  <2> QED BY <1>2, <2>1
<1>5. ASSUME NEW i \in DOMAIN c PROVE \E k \in DOMAIN f : f[k] = c[i]
  <2> HIDE DEF c, f
  <2>1. PICK k \in DOMAIN file : u[i] = file[k]
    BY <1>1, <1>4, <1>5
  <2> HIDE DEF u
  <2> QED BY <1>2, <1>3, <1>4, <1>5, <2>1
<1>6. Asked(c) \subseteq Asked(f)
  <2> HIDE DEF c, f
  <2> QED BY <1>5, AskedMember
<1> QED BY <1>2, <1>6 DEF LoadMessageHistory

(* The longest of the safe prefixes.                                        *)
LEMMA SafePrefix ==
    ASSUME TypeOK, NEW seq \in Nat, SafeLengths(seq) # {}
    PROVE  \E n \in SafeLengths(seq) : SafeHistory(seq) = SubSeq(LoadMessageHistory(seq), 1, n)
<1> DEFINE ns == SafeLengths(seq)
           conv == LoadMessageHistory(seq)
<1>1. conv \in Seq(Msg)
  BY LoadType
<1>2. ns \in SUBSET Nat /\ Len(conv) \in Nat /\ \A n \in ns : n <= Len(conv)
  BY <1>1 DEF SafeLengths
<1>3. \E n \in ns : \A k \in ns : k <= n
  <2> HIDE DEF ns, conv
  <2> QED BY <1>2, GreatestNat DEF ns
<1>4. (CHOOSE n \in ns : \A k \in ns : k <= n) \in ns
  <2> HIDE DEF ns
  <2> QED BY <1>3
<1> QED BY <1>4 DEF SafeHistory

(* What the loop stands before when its tools are run.                      *)
LEMMA StandsBefore ==
    ASSUME TypeOK, BeforeTools, lpc \in {"boundary", "tools"} \/ lrow = "paused"
    PROVE  /\ LastCalls \in Seq(Calls) /\ LastCalls # <<>> /\ Len(LastCalls) \in Nat /\ Distinct(LastCalls)
           /\ file # <<>> /\ file[Len(file)].msg = Assistant(LastCalls) /\ file[Len(file)].msg \in Msg
           /\ lpc \in {"boundary", "tools"} => hist # <<>> /\ hist[Len(hist)].calls = LastCalls
<1>1. file # <<>> /\ IsCall(file[Len(file)].msg) /\ Distinct(LastCalls) /\ file \in Seq(Entry)
  BY DEF BeforeTools, TypeOK
<1>2. file[Len(file)] \in Entry
  BY <1>1
<1>3. file[Len(file)].msg \in Msg
  BY <1>2 DEF Entry
<1>4. LastCalls \in Seq(Calls) /\ LastCalls # <<>> /\ file[Len(file)].msg = Assistant(LastCalls)
  BY <1>1, <1>3, CallsOf DEF LastCalls
<1>5. lpc \in {"boundary", "tools"} => hist # <<>> /\ hist[Len(hist)].calls = LastCalls
  BY DEF BeforeTools, LastCalls
<1>6. Len(LastCalls) \in Nat
  BY <1>4
<1> QED BY <1>1, <1>3, <1>4, <1>5, <1>6

(* The tool calls of a turn are not done before they have been run.         *)
LEMMA SomeBatch ==
    ASSUME TypeOK, BeforeTools, ToolsDone
    PROVE  batch # <<>> /\ Len(batch) = Len(LastCalls)
<1>1. Len(batch) = Len(LastCalls) /\ LastCalls # <<>> /\ LastCalls \in Seq(Calls)
  BY StandsBefore DEF ToolsDone
<1>2. Len(LastCalls) # 0
  BY <1>1
<1> QED BY <1>1, <1>2

(* The initial state has the types,                                         *)
LEMMA TypeInit == AgentInit => TypeOK
<1> HAVE AgentInit
<1>1. file = <<>> /\ queue = <<>> /\ hist = <<>> /\ batch = <<>>
  BY DEF AgentInit
<1>2. mirror \in Step
  BY DEF AgentInit, Step
<1>3. fork \in [at : Nat, conv : Seq(Msg)]
  BY DEF AgentInit, NoFork
<1>4. lost \in BOOLEAN /\ forced \in BOOLEAN /\ notice \in BOOLEAN
  BY DEF AgentInit
<1> QED BY <1>1, <1>2, <1>3, <1>4 DEF AgentInit, TypeOK

(* and every step keeps them.                                               *)
LEMMA TypeStep ==
    ASSUME TypeOK, BeforeTools, [AgentNext]_agentVars
    PROVE  TypeOK'
<1> DEFINE Logs == file' \in Seq(Entry) /\ mirror' \in Step /\ queue' \in Seq(Step) /\ counter' \in Nat /\ lost' \in BOOLEAN
<1>0. ASSUME NEW ms, Wrote(ms) PROVE Logs
  BY <1>0 DEF Wrote, TypeOK
<1>01. <<>> \in Seq(Msg) /\ <<>> \in Seq(Calls) /\ <<>> \in Seq(Step) /\ FALSE \in BOOLEAN
  OBVIOUS
<1>1. CASE UNCHANGED agentVars
  BY <1>1 DEF TypeOK, agentVars, logVars, loopVars
<1>2. CASE PersistEntry
  <2>1. Head(queue) \in Step /\ Tail(queue) \in Seq(Step)
    BY <1>2 DEF PersistEntry, TypeOK
  <2>2. mirror' \in Step
    BY <1>2, <2>1 DEF PersistEntry, AppendRunLogEntry, TypeOK, Step
  <2> QED BY <1>2, <2>1, <2>2 DEF PersistEntry, TypeOK, loopVars
<1>3. CASE Begin
  <2>1. Logs /\ hist' \in Seq(Msg)
    BY <1>0, <1>3, BeginWrites, Messages, OneMessage
  <2> QED BY <1>3, <2>1 DEF Begin, TypeOK
<1>4. CASE \E calls \in NewCalls, before \in {<<>>, <<Text>>} : ModelTurn(calls, before)
  <2>1. PICK calls \in NewCalls, before \in {<<>>, <<Text>>} : ModelTurn(calls, before)
    BY <1>4
  <2>2. Logs /\ hist' \in Seq(Msg)
    <3>1. /\ before \o <<Assistant(calls)>> \in Seq(Msg) /\ Wrote(before \o <<Assistant(calls)>>)
          /\ hist' = hist \o (before \o <<Assistant(calls)>>) /\ hist \in Seq(Msg)
      BY <2>1, TurnWrites DEF TypeOK
    <3> DEFINE ms == before \o <<Assistant(calls)>>
    <3>2. ms \in Seq(Msg) /\ Wrote(ms) /\ hist' = hist \o ms /\ hist \in Seq(Msg)
      BY <3>1
    <3> HIDE DEF ms
    <3> QED BY <1>0, <3>2
  <2> HIDE DEF Logs
  <2>3. /\ turns' = turns + 1 /\ lpc' \in {"over", "boundary"}
        /\ UNCHANGED <<lrow, cursor, batch, forced, notice, ran, pauses, fork>>
    BY <2>1, Zenon DEF ModelTurn
  <2> QED BY <2>2, <2>3 DEF TypeOK, Logs
<1>5. CASE GoOn
  BY <1>5 DEF GoOn, TypeOK, logVars
<1>6. CASE ExecuteTool
  <2>1. /\ LastCalls \in Seq(Calls) /\ hist[Len(hist)].calls = LastCalls /\ lpc = "tools"
    BY <1>6, StandsBefore DEF ExecuteTool
  <2>2. LastCalls[Len(batch) + 1] \in Calls /\ batch \in Seq(Calls)
    BY <1>6, <2>1 DEF ExecuteTool, TypeOK
  <2>3. batch' \in Seq(Calls) /\ ran' \in [Calls -> Nat]
    BY SMTT(30), <1>6, <2>1, <2>2 DEF ExecuteTool, TypeOK
  <2>4. mirror' \in Step
    BY <1>6 DEF ExecuteTool, AppendRunLogEntry, TypeOK, Step
  <2> QED BY <1>6, <2>3, <2>4 DEF ExecuteTool, TypeOK
<1>7. CASE ToolsDone
  <2>1. /\ batch[1] \in Calls /\ Wrote(<<Result(batch[1])>>)
        /\ hist' = hist \o Results(batch) /\ Results(batch) \in Seq(Msg)
        /\ batch' \in Seq(Calls)
    BY <1>7, SomeBatch, ToolsDoneWrites
  <2>2. Logs /\ hist' \in Seq(Msg)
    BY <1>0, <2>1 DEF TypeOK
  <2> QED BY <1>7, <2>1, <2>2 DEF ToolsDone, TypeOK
<1>8. CASE LogResult
  <2>1. Wrote(<<Result(batch[1])>>) /\ batch' \in Seq(Calls)
    BY <1>8, ResultWrites
  <2>2. Logs
    BY <1>0, <2>1
  <2> QED BY <1>8, <2>1, <2>2 DEF LogResult, TypeOK
<1>9. CASE AfterTools
  BY <1>9 DEF AfterTools, TypeOK, logVars
<1>10. CASE FollowUp
  <2>1. hist' \in Seq(Msg)
    BY <1>10, Messages, OneMessage DEF FollowUp
  <2> QED BY <1>10, <2>1 DEF FollowUp, TypeOK, logVars
<1>11. CASE Finish \/ Fail
  BY <1>11 DEF Finish, Fail, TypeOK, logVars
<1>12. CASE Pause
  BY <1>12 DEF Pause, TypeOK, logVars
<1>13. CASE Close
  <2>1. /\ lpc' = "off" /\ hist' = <<>> /\ batch' = <<>> /\ forced' = FALSE /\ notice' = FALSE
        /\ UNCHANGED <<logVars, lrow, cursor, ran, turns, pauses, fork>>
    BY <1>13 DEF Close
  <2>2. hist' \in Seq(Msg) /\ batch' \in Seq(Calls) /\ forced' \in BOOLEAN /\ notice' \in BOOLEAN
    BY <1>01, <2>1, Zenon
  <2> QED BY <2>1, <2>2 DEF TypeOK, logVars
<1>14. CASE Resume
  <2>1. hist' \in Seq(Msg)
    BY <1>14, LoadType DEF Resume, TypeOK
  <2>2. fork' \in [at : Nat, conv : Seq(Msg)]
    BY <1>14 DEF Resume, NoFork
  <2>3. /\ lrow' = "running" /\ batch' = <<>> /\ lpc' \in {"tools", "turn"} /\ notice' = TRUE
        /\ UNCHANGED <<logVars, forced, cursor, ran, turns, pauses>>
    BY <1>14, Zenon DEF Resume
  <2> QED BY <2>1, <2>2, <2>3 DEF TypeOK, logVars
<1>15. CASE ResumeNotice
  <2>1. Wrote(<<Text>>) /\ hist' = hist \o <<Text>> /\ <<Text>> \in Seq(Msg)
    BY <1>15, NoticeWrites, Messages, OneMessage
  <2>2. Logs /\ hist' \in Seq(Msg)
    BY <1>0, <2>1 DEF TypeOK
  <2> QED BY <1>15, <2>2 DEF ResumeNotice, TypeOK
<1>16. CASE Crash
  <2>1. lost' \in BOOLEAN /\ lrow' \in {"running", "paused", "ended", "stale"}
    BY <1>16 DEF Crash, TypeOK
  <2>4. /\ lpc' = "off" /\ hist' = <<>> /\ batch' = <<>> /\ forced' = FALSE /\ notice' = FALSE
        /\ queue' = <<>> /\ counter' = 0
    BY <1>16 DEF Crash
  <2>2. hist' \in Seq(Msg) /\ batch' \in Seq(Calls) /\ forced' \in BOOLEAN /\ notice' \in BOOLEAN
        /\ queue' \in Seq(Step)
    BY <1>01, <2>4, Zenon
  <2>3. UNCHANGED <<file, mirror, cursor, ran, turns, pauses, fork>>
    BY <1>16 DEF Crash
  <2> QED BY <2>1, <2>2, <2>3, <2>4 DEF TypeOK
<1>17. CASE Restart
  BY <1>17 DEF Restart, TypeOK, loopVars
<1>18. CASE \E i \in DOMAIN file : Fork(file[i].seq)
  <2>1. PICK i \in DOMAIN file : Fork(file[i].seq)
    BY <1>18
  <2>2. file[i].seq \in Nat
    <3>1. file[i] \in Entry
      BY DEF TypeOK
    <3> QED BY <3>1 DEF Entry
  <2> DEFINE q == file[i].seq
  <2>3. PICK n \in SafeLengths(q) : SafeHistory(q) = SubSeq(LoadMessageHistory(q), 1, n)
    BY <2>1, <2>2, SafePrefix DEF Fork
  <2>4. SafeHistory(q) \in Seq(Msg)
    <3>1. LoadMessageHistory(q) \in Seq(Msg) /\ n \in 1..Len(LoadMessageHistory(q))
      BY <2>2, LoadType DEF SafeLengths
    <3> QED BY <2>3, <3>1
  <2>5. fork' \in [at : Nat, conv : Seq(Msg)]
    BY <2>1, <2>2, <2>4 DEF Fork
  <2>6. UNCHANGED <<logVars, loopVars, lrow, cursor, ran, turns, pauses>>
    BY <2>1 DEF Fork
  <2> QED BY <2>5, <2>6 DEF TypeOK, logVars, loopVars
<1> HIDE DEF Logs
<1> QED BY <1>1, <1>2, <1>3, <1>4, <1>5, <1>6, <1>7, <1>8, <1>9, <1>10, <1>11, <1>12, <1>13, <1>14,
           <1>15, <1>16, <1>17, <1>18 DEF AgentNext

----------------------------------------------------------------------------
(* Where the loop is.                                                      *)

(* Every step leaves the loop and the row in places that fit.               *)
LEMMA PlacesStep ==
    ASSUME TypeOK, PlacesInv, BeforeTools, [AgentNext]_agentVars
    PROVE  PlacesInv'
<1>0. ASSUME NEW ms, Wrote(ms) PROVE counter' # 0
  BY <1>0 DEF Wrote
<1>1. CASE UNCHANGED agentVars
  BY <1>1 DEF PlacesInv, agentVars, logVars, loopVars
<1>2. CASE PersistEntry
  BY <1>2 DEF PersistEntry, PlacesInv, loopVars
<1>3. CASE Begin
  <2>1. counter' # 0
    BY <1>0, <1>3, BeginWrites
  <2>2. /\ lpc = "start" /\ lpc' = "turn"
        /\ UNCHANGED <<lrow, cursor, batch, forced, notice, ran, turns, pauses, fork>>
    BY <1>3, Zenon DEF Begin
  <2> QED BY <2>1, <2>2 DEF PlacesInv
<1>4. CASE \E calls \in NewCalls, before \in {<<>>, <<Text>>} : ModelTurn(calls, before)
  <2>1. PICK calls \in NewCalls, before \in {<<>>, <<Text>>} : ModelTurn(calls, before)
    BY <1>4
  <2>2. counter' # 0
    BY <1>0, <2>1, TurnWrites
  <2>3. /\ lpc = "turn" /\ lpc' \in {"over", "boundary"}
        /\ UNCHANGED <<lrow, cursor, batch, forced, notice, ran, pauses, fork>>
    BY <2>1, Zenon DEF ModelTurn
  <2> QED BY <2>2, <2>3 DEF PlacesInv
<1>5. CASE GoOn
  BY <1>5 DEF GoOn, PlacesInv, logVars
<1>6. CASE ExecuteTool
  BY <1>6 DEF ExecuteTool, PlacesInv
<1>7. CASE ToolsDone
  <2>1. counter' # 0
    BY <1>0, <1>7, SomeBatch, ToolsDoneWrites
  <2> QED BY <1>7, <2>1 DEF ToolsDone, PlacesInv
<1>8. CASE LogResult
  <2>1. counter' # 0
    BY <1>0, <1>8, ResultWrites
  <2> QED BY <1>8, <2>1 DEF LogResult, PlacesInv
<1>9. CASE AfterTools
  BY <1>9 DEF AfterTools, PlacesInv, logVars
<1>10. CASE FollowUp
  BY <1>10 DEF FollowUp, PlacesInv, logVars
<1>11. CASE Finish \/ Fail
  BY <1>11 DEF Finish, Fail, PlacesInv, logVars
<1>12. CASE Pause
  BY <1>12 DEF Pause, PlacesInv, logVars
<1>13. CASE Close
  BY <1>13 DEF Close, PlacesInv, logVars
<1>14. CASE Resume
  <2>1. /\ lrow' = "running" /\ batch' = <<>> /\ lpc' \in {"tools", "turn"} /\ notice' = TRUE
        /\ UNCHANGED <<logVars, forced, cursor, ran, turns, pauses>>
    BY <1>14, Zenon DEF Resume
  <2> QED BY <2>1 DEF PlacesInv, logVars
<1>15. CASE ResumeNotice
  <2>1. counter' # 0
    BY <1>0, <1>15, NoticeWrites
  <2> QED BY <1>15, <2>1 DEF ResumeNotice, PlacesInv
<1>16. CASE Crash
  BY <1>16 DEF Crash, PlacesInv
<1>17. CASE Restart
  BY <1>17 DEF Restart, PlacesInv, loopVars
<1>18. CASE \E i \in DOMAIN file : Fork(file[i].seq)
  BY <1>18 DEF Fork, PlacesInv, logVars, loopVars
<1> QED BY <1>1, <1>2, <1>3, <1>4, <1>5, <1>6, <1>7, <1>8, <1>9, <1>10, <1>11, <1>12, <1>13, <1>14,
           <1>15, <1>16, <1>17, <1>18 DEF AgentNext

(* A resumed conversation ends as the file does.                            *)
LEMMA ResumesBeforeTools ==
    ASSUME TypeOK, BeforeTools, Resume
    PROVE  /\ hist' = LoadMessageHistory(cursor) /\ hist' # <<>> /\ lpc' = "tools"
           /\ hist'[Len(hist')] = file[Len(file)].msg
           /\ lrow = "paused" /\ lpc = "off" /\ lrow' = "running" /\ batch' = <<>>
           /\ UNCHANGED <<logVars, forced, cursor, ran>>
<1>1. /\ lrow = "paused" /\ lpc = "off" /\ LoadMessageHistory(cursor) # <<>>
      /\ lrow' = "running" /\ hist' = LoadMessageHistory(cursor) /\ batch' = <<>>
      /\ UNCHANGED <<logVars, forced, cursor, ran>>
  BY Zenon DEF Resume
<1>2. file # <<>> /\ IsCall(file[Len(file)].msg) /\ file[Len(file)].seq <= cursor
  BY <1>1 DEF BeforeTools
<1> DEFINE u == Upto(cursor)
           c == LoadMessageHistory(cursor)
<1>3. u \in Seq(Entry) /\ u # <<>> /\ u[Len(u)] = file[Len(file)]
  BY <1>2, UptoType, UptoLast DEF TypeOK
<1>4. c = Conversation(u)
  BY DEF LoadMessageHistory
<1> HIDE DEF u, c
<1>5. Len(u) \in DOMAIN u /\ Len(u) \in Nat
  BY <1>3
<1>6. Len(c) = Len(u) /\ c[Len(u)] = u[Len(u)].msg
  BY <1>3, <1>4, <1>5, ConversationType
<1>7. c[Len(c)] = file[Len(file)].msg
  BY <1>3, <1>6
<1>8. lpc' = IF IsCall(hist'[Len(hist')]) THEN "tools" ELSE "turn"
  BY Zenon DEF Resume
<1> QED BY <1>1, <1>2, <1>7, <1>8 DEF c

(* The last message of the file, of a loop or a row before its tools.       *)
LEMMA BeforeToolsStep ==
    ASSUME TypeOK, PlacesInv, BeforeTools, [AgentNext]_agentVars
    PROVE  BeforeTools'
<1>0. ASSUME lpc' \notin {"boundary", "tools"}, lrow' # "paused"
      PROVE  BeforeTools'
  BY <1>0 DEF BeforeTools
<1>00. ASSUME UNCHANGED <<file, hist, lpc, lrow, counter, cursor>>
       PROVE  BeforeTools'
  BY <1>00 DEF BeforeTools, LastCalls
<1>1. CASE UNCHANGED agentVars
  BY <1>00, <1>1 DEF agentVars, logVars, loopVars
<1>2. CASE PersistEntry
  BY <1>00, <1>2 DEF PersistEntry, loopVars
<1>3. CASE Begin
  <2>1. /\ lpc = "start" /\ lpc' = "turn"
        /\ UNCHANGED <<lrow, cursor, batch, forced, notice, ran, turns, pauses, fork>>
    BY <1>3, Zenon DEF Begin
  <2> QED BY <1>0, <2>1 DEF PlacesInv
<1>4. CASE \E calls \in NewCalls, before \in {<<>>, <<Text>>} : ModelTurn(calls, before)
  <2>1. PICK calls \in NewCalls, before \in {<<>>, <<Text>>} : ModelTurn(calls, before)
    BY <1>4
  <2>2. /\ Wrote(before \o <<Assistant(calls)>>)
        /\ hist' # <<>> /\ hist'[Len(hist')] = Assistant(calls) /\ file'[Len(file')].msg = Assistant(calls)
    BY <2>1, TurnWrites
  <2>3. /\ lpc = "turn" /\ lpc' = IF calls = <<>> THEN "over" ELSE "boundary"
        /\ UNCHANGED <<lrow, cursor, batch, forced, notice, ran, pauses, fork>>
    BY <2>1, Zenon DEF ModelTurn
  <2>4. lrow' = "running"
    BY <2>3 DEF PlacesInv
  <2>5. CASE calls = <<>>
    BY <1>0, <2>3, <2>4, <2>5
  <2>6. CASE calls # <<>>
    <3>1. IsCall(Assistant(calls)) /\ Assistant(calls).calls = calls
      BY <2>6 DEF IsCall, Assistant
    <3>2. LastCalls' = calls /\ IsCall(file'[Len(file')].msg)
      BY <2>2, <3>1 DEF LastCalls
    <3>3. Distinct(LastCalls')
      BY <3>2, FreshCalls
    <3>4. file' # <<>> /\ file'[Len(file')].seq <= counter'
      BY <2>2 DEF Wrote
    <3>5. Distinct(LastCalls)'
      BY <3>3 DEF Distinct
    <3> QED BY <2>2, <2>3, <2>4, <2>6, <3>2, <3>4, <3>5 DEF BeforeTools
  <2> QED BY <2>5, <2>6
<1>5. CASE GoOn
  BY <1>5 DEF GoOn, BeforeTools, PlacesInv, LastCalls, logVars
<1>6. CASE ExecuteTool
  BY <1>00, <1>6 DEF ExecuteTool, BeforeTools, PlacesInv, LastCalls
<1>7. CASE ToolsDone \/ LogResult \/ AfterTools \/ FollowUp
  BY <1>0, <1>7 DEF ToolsDone, LogResult, AfterTools, FollowUp, PlacesInv
<1>8. CASE Finish \/ Fail
  BY <1>0, <1>8 DEF Finish, Fail
<1>9. CASE Pause
  BY <1>9 DEF Pause, BeforeTools, LastCalls, logVars
<1>10. CASE Close
  BY <1>10 DEF Close, BeforeTools, LastCalls, logVars
<1>11. CASE Resume
  <2>1. /\ lrow = "paused" /\ hist' # <<>> /\ hist'[Len(hist')] = file[Len(file)].msg
        /\ lpc' = "tools" /\ lrow' = "running" /\ file' = file
    BY <1>11, ResumesBeforeTools DEF logVars
  <2> QED BY <2>1 DEF BeforeTools, LastCalls
<1>12. CASE ResumeNotice
  BY <1>0, <1>12 DEF ResumeNotice, PlacesInv
<1>13. CASE Crash
  BY <1>13 DEF Crash, BeforeTools, LastCalls
<1>14. CASE Restart
  BY <1>14 DEF Restart, BeforeTools, LastCalls, loopVars
<1>15. CASE \E i \in DOMAIN file : Fork(file[i].seq)
  BY <1>00, <1>15 DEF Fork, logVars, loopVars
<1> QED BY <1>1, <1>2, <1>3, <1>4, <1>5, <1>6, <1>7, <1>8, <1>9, <1>10, <1>11, <1>12, <1>13, <1>14,
           <1>15 DEF AgentNext

----------------------------------------------------------------------------
(* What has been executed.                                                 *)

(* The calls asked for in the file only grow.                               *)
LEMMA WroteAsks ==
    ASSUME TypeOK, NEW ms \in Seq(Msg), Wrote(ms)
    PROVE  Asked(Conversation(file')) = Asked(Conversation(file)) \cup Asked(ms)
<1>1. Conversation(file) \in Seq(Msg)
  BY ConversationType DEF TypeOK
<1>2. Conversation(file') = Conversation(file) \o ms
  BY DEF Wrote
<1> QED BY <1>1, <1>2, AskedConcat

(* The last message of a file is in its conversation.                       *)
LEMMA LastAsked ==
    ASSUME TypeOK, file # <<>>, IsCall(file[Len(file)].msg)
    PROVE  Elems(LastCalls) \subseteq Asked(Conversation(file))
<1>1. Len(file) \in DOMAIN file
  BY DEF TypeOK
<1>2. Len(file) \in DOMAIN Conversation(file) /\ Conversation(file)[Len(file)] = file[Len(file)].msg
  BY <1>1, ConversationType DEF TypeOK
<1> QED BY <1>2, AskedMember DEF LastCalls

(* Steps after which the loop stands before no tool call, that run none.     *)
LEMMA NothingRun ==
    ASSUME ExecutedInv, ran' = ran, lpc' \notin {"boundary", "tools"}, lrow' # "paused",
           Asked(Conversation(file)) \subseteq Asked(Conversation(file')),
           Asked(hist') \subseteq Asked(Conversation(file'))
    PROVE  ExecutedInv'
<1>1. Executed' = Executed /\ Executed \subseteq Asked(Conversation(file)) /\ ToolOnce'
  BY DEF Executed, ExecutedInv, ToolOnce
<1>2. Executed' \subseteq Asked(Conversation(file'))
  BY <1>1
<1> QED BY <1>1, <1>2 DEF ExecutedInv

(* Every step keeps what has been executed within what was asked, once.     *)
LEMMA ExecutedStep ==
    ASSUME TypeOK, PlacesInv, BeforeTools, ExecutedInv, [AgentNext]_agentVars
    PROVE  ExecutedInv'
<1>0. ASSUME UNCHANGED <<file, hist, lpc, lrow, batch, ran>>
      PROVE  ExecutedInv'
  BY <1>0 DEF ExecutedInv, LastCalls, Executed, ToolOnce
<1>00. hist \in Seq(Msg) /\ Conversation(file) \in Seq(Msg)
  BY ConversationType DEF TypeOK
<1>01. Asked(hist) \subseteq Asked(Conversation(file))
  BY DEF ExecutedInv
<1>1. CASE UNCHANGED agentVars
  BY <1>0, <1>1 DEF agentVars, logVars, loopVars
<1>2. CASE PersistEntry
  BY <1>0, <1>2 DEF PersistEntry, loopVars
<1>3. CASE Begin
  <2>1. /\ lpc = "start" /\ lpc' = "turn"
        /\ UNCHANGED <<lrow, cursor, batch, forced, notice, ran, turns, pauses, fork>>
    BY <1>3, Zenon DEF Begin
  <2>2. Asked(Conversation(file')) = Asked(Conversation(file)) \cup Asked(<<Text>>)
    BY <1>3, BeginWrites, Messages, OneMessage, WroteAsks
  <2>3. hist' = <<Text>>
    BY <1>3, BeginWrites
  <2>4. lrow' # "paused"
    BY <2>1 DEF PlacesInv
  <2> QED BY <2>1, <2>2, <2>3, <2>4, NothingRun
<1>4. CASE \E calls \in NewCalls, before \in {<<>>, <<Text>>} : ModelTurn(calls, before)
  <2>1. PICK calls \in NewCalls, before \in {<<>>, <<Text>>} : ModelTurn(calls, before)
    BY <1>4
  <2> DEFINE ms == before \o <<Assistant(calls)>>
  <2>2. /\ ms \in Seq(Msg) /\ Wrote(ms) /\ hist' = hist \o ms
        /\ file'[Len(file')].msg = Assistant(calls)
    BY <2>1, TurnWrites
  <2> HIDE DEF ms
  <2>3. /\ lpc = "turn" /\ lpc' \in {"over", "boundary"}
        /\ UNCHANGED <<lrow, cursor, batch, forced, notice, ran, pauses, fork>>
    BY <2>1, Zenon DEF ModelTurn
  <2>4. /\ Asked(Conversation(file')) = Asked(Conversation(file)) \cup Asked(ms)
        /\ Asked(hist') = Asked(hist) \cup Asked(ms)
    BY <1>00, <2>2, WroteAsks, AskedConcat
  <2>5. LastCalls' = calls
    BY <2>2 DEF LastCalls, Assistant
  <2>6. /\ Executed' = Executed /\ Executed \subseteq Asked(Conversation(file)) /\ ToolOnce'
        /\ Elems(calls) \cap Executed = {}
    BY <2>3, FreshCalls DEF Executed, ExecutedInv, ToolOnce
  <2>7. Elems(LastCalls') \cap Executed' = {}
    BY <2>5, <2>6
  <2>8. Executed' \subseteq Asked(Conversation(file')) /\ Asked(hist') \subseteq Asked(Conversation(file'))
    BY <1>01, <2>4, <2>6
  <2> QED BY <2>3, <2>6, <2>7, <2>8 DEF ExecutedInv
<1>5. CASE GoOn
  <2>1. /\ lpc = "boundary" /\ lpc' = "tools" /\ batch' = <<>>
        /\ UNCHANGED <<file, hist, lrow, ran>>
    BY <1>5 DEF GoOn, logVars
  <2>2. Executed' = Executed /\ ToolOnce' /\ LastCalls' = LastCalls
    BY <2>1 DEF Executed, ExecutedInv, ToolOnce, LastCalls
  <2>3. Elems(LastCalls) \cap Executed = {} /\ lrow' # "paused"
    BY <2>1 DEF ExecutedInv, PlacesInv
  <2>4. LastCalls \in Seq(Calls)
    BY <2>1, StandsBefore
  <2>5. batch' = SubSeq(LastCalls', 1, Len(batch')) /\ Len(batch') <= Len(LastCalls') /\ Len(batch') = 0
    BY <2>1, <2>2, <2>4
  <2>6. \A i \in 1..Len(LastCalls) : LastCalls[i] \notin Executed
    BY <2>3, <2>4 DEF Elems
  <2> QED BY <2>1, <2>2, <2>3, <2>5, <2>6 DEF ExecutedInv
<1>6. CASE ExecuteTool
  <2> DEFINE L == LastCalls
             n == Len(batch)
             c == L[n + 1]
  <2>1. /\ L \in Seq(Calls) /\ hist[Len(hist)].calls = L /\ Len(L) \in Nat /\ Distinct(L) /\ lpc = "tools"
        /\ file # <<>> /\ IsCall(file[Len(file)].msg)
    BY <1>6, StandsBefore DEF ExecuteTool, BeforeTools
  <2>2. /\ n < Len(L) /\ ran' = [ran EXCEPT ![c] = @ + 1] /\ batch' = Append(batch, c)
        /\ UNCHANGED <<file, hist, lpc, lrow>> /\ L' = L
    BY <1>6, <2>1 DEF ExecuteTool, LastCalls
  <2>3. batch \in Seq(Calls) /\ n \in Nat /\ ran \in [Calls -> Nat] /\ lrow # "paused"
    BY <2>1 DEF TypeOK, PlacesInv
  <2>4. /\ batch = SubSeq(L, 1, n) /\ n <= Len(L)
        /\ \A i \in n + 1..Len(L) : L[i] \notin Executed
    BY <2>1 DEF ExecutedInv
  <2> HIDE DEF L, n
  <2>5. n + 1 \in n + 1..Len(L) /\ n + 1 \in DOMAIN L /\ c \in Calls /\ c \notin Executed
    BY <2>1, <2>2, <2>3, <2>4
  <2>6. \A i \in n + 2..Len(L) : L[i] # c /\ L[i] \notin Executed
    BY SMTT(30), <2>1, <2>3, <2>4, <2>5 DEF Distinct
  <2>7. c \in Elems(L) /\ c \in Asked(Conversation(file))
    BY <2>1, <2>5, LastAsked DEF Elems, L
  <2> HIDE DEF c
  <2>8. Executed' = Executed \cup {c} /\ ran[c] = 0
    BY <2>2, <2>3, <2>5 DEF Executed
  <2>9. ToolOnce'
    BY <2>2, <2>3, <2>8 DEF ToolOnce, ExecutedInv
  <2>10. \A i \in n + 2..Len(L) : L[i] \notin Executed'
    BY <2>6, <2>8
  <2>11. Len(batch') = n + 1 /\ batch' = SubSeq(L, 1, n + 1) /\ n + 1 <= Len(L)
    <3>1. Append(batch, c) = SubSeq(L, 1, n + 1)
      BY <2>1, <2>2, <2>3, <2>4 DEF n, c
    <3>2. Len(Append(batch, c)) = n + 1
      BY <2>3 DEF n
    <3> QED BY <2>1, <2>2, <2>3, <3>1, <3>2
  <2>12. Executed' \subseteq Asked(Conversation(file'))
    BY <2>2, <2>7, <2>8 DEF ExecutedInv
  <2>13. n + 1 + 1 = n + 2
    BY <2>3
  <2>14. /\ batch' = SubSeq(LastCalls', 1, Len(batch')) /\ Len(batch') <= Len(LastCalls')
         /\ \A i \in Len(batch') + 1..Len(LastCalls') : LastCalls'[i] \notin Executed'
    BY <2>2, <2>10, <2>11, <2>13 DEF L
  <2> QED BY <1>01, <2>1, <2>2, <2>3, <2>9, <2>12, <2>14 DEF ExecutedInv
<1>7. CASE ToolsDone
  <2>1. /\ Result(batch[1]) \in Msg /\ Wrote(<<Result(batch[1])>>) /\ batch \in Seq(Calls)
        /\ hist' = hist \o Results(batch) /\ Results(batch) \in Seq(Msg)
    BY <1>7, SomeBatch, ToolsDoneWrites, Messages DEF TypeOK
  <2>2. Asked(Conversation(file)) \subseteq Asked(Conversation(file'))
    BY <2>1, WroteAsks, OneMessage
  <2>3. Asked(hist') = Asked(hist)
    <3> DEFINE r == Results(batch)
    <3>1. Asked(r) = {} /\ r \in Seq(Msg) /\ hist' = hist \o r
      BY <2>1, AskedResults
    <3> HIDE DEF r
    <3>2. r \in Seq(Msg) /\ hist \in Seq(Msg)
      BY <1>00, <3>1
    <3>3. Asked(hist \o r) = Asked(hist) \cup Asked(r)
      BY <3>2, AskedConcat
    <3> QED BY <3>1, <3>3
  <2>4. ran' = ran /\ lpc' = "results" /\ lrow' # "paused"
    BY <1>7 DEF ToolsDone, PlacesInv
  <2> QED BY <1>01, <2>2, <2>3, <2>4, NothingRun
<1>8. CASE LogResult
  <2>1. /\ Result(batch[1]) \in Msg /\ Wrote(<<Result(batch[1])>>) /\ hist' = hist
    BY <1>8, ResultWrites, Messages
  <2>2. Asked(Conversation(file)) \subseteq Asked(Conversation(file'))
    BY <2>1, WroteAsks, OneMessage
  <2>3. ran' = ran /\ lpc' = "results" /\ lrow' # "paused"
    BY <1>8 DEF LogResult, PlacesInv
  <2> QED BY <1>01, <2>1, <2>2, <2>3, NothingRun
<1>9. CASE AfterTools \/ Finish \/ Fail
  <2>1. ran' = ran /\ lpc' \notin {"boundary", "tools"} /\ lrow' # "paused" /\ file' = file /\ hist' = hist
    BY <1>9 DEF AfterTools, Finish, Fail, PlacesInv, logVars
  <2> QED BY <1>01, <2>1, NothingRun
<1>10. CASE FollowUp
  <2>1. ran' = ran /\ lpc' = "turn" /\ lrow' # "paused" /\ file' = file /\ hist' = <<Text>>
    BY <1>10 DEF FollowUp, PlacesInv, logVars
  <2>2. Asked(hist') = {}
    BY <2>1 DEF Asked, IsCall, Text
  <2> QED BY <2>1, <2>2, NothingRun
<1>11. CASE Pause
  <2>1. /\ lpc = "boundary" /\ lpc' = "close"
        /\ UNCHANGED <<file, hist, ran>>
    BY <1>11 DEF Pause, logVars
  <2>2. Executed' = Executed /\ ToolOnce' /\ LastCalls' = LastCalls
    BY <2>1 DEF Executed, ExecutedInv, ToolOnce, LastCalls
  <2> QED BY <2>1, <2>2 DEF ExecutedInv
<1>12. CASE Close \/ Crash
  <2>1. /\ lpc' = "off" /\ hist' = <<>> /\ UNCHANGED <<file, ran>> /\ (lrow' = "paused" => lrow = "paused")
    BY <1>12 DEF Close, Crash, logVars
  <2>2. Executed' = Executed /\ ToolOnce' /\ LastCalls' = LastCalls /\ Asked(hist') = {}
    BY <2>1 DEF Executed, ExecutedInv, ToolOnce, LastCalls, Asked
  <2> QED BY <2>1, <2>2 DEF ExecutedInv
<1>13. CASE Resume
  <2>1. /\ hist' = LoadMessageHistory(cursor) /\ lpc' = "tools" /\ lrow = "paused" /\ lrow' = "running"
        /\ batch' = <<>> /\ UNCHANGED <<file, ran>>
    BY <1>13, ResumesBeforeTools DEF logVars
  <2>2. Executed' = Executed /\ ToolOnce' /\ LastCalls' = LastCalls
    BY <2>1 DEF Executed, ExecutedInv, ToolOnce, LastCalls
  <2>3. Elems(LastCalls) \cap Executed = {} /\ LastCalls \in Seq(Calls)
    BY <2>1, StandsBefore DEF ExecutedInv
  <2>4. Asked(hist') \subseteq Asked(Conversation(file'))
    BY <2>1, LoadType DEF TypeOK
  <2>5. batch' = SubSeq(LastCalls', 1, Len(batch')) /\ Len(batch') <= Len(LastCalls') /\ Len(batch') = 0
    BY <2>1, <2>2, <2>3
  <2>6. \A i \in 1..Len(LastCalls) : LastCalls[i] \notin Executed
    BY <2>3 DEF Elems
  <2> QED BY <2>1, <2>2, <2>4, <2>5, <2>6 DEF ExecutedInv
<1>14. CASE ResumeNotice
  <2>1. Wrote(<<Text>>) /\ hist' = hist \o <<Text>> /\ <<Text>> \in Seq(Msg)
    BY <1>14, NoticeWrites, Messages, OneMessage
  <2>2. Asked(<<Text>>) = {}
    BY DEF Asked, IsCall, Text
  <2>3. Asked(hist') = Asked(hist) /\ Asked(Conversation(file')) = Asked(Conversation(file))
    <3> DEFINE ms == <<Text>>
    <3> HIDE DEF ms
    <3>1. Asked(hist \o ms) = Asked(hist) \cup Asked(ms)
      BY <1>00, <2>1, AskedConcat, Zenon DEF ms
    <3>2. Asked(Conversation(file')) = Asked(Conversation(file)) \cup Asked(ms)
      BY <2>1, WroteAsks, Zenon DEF ms
    <3>3. Asked(ms) = {} /\ hist' = hist \o ms
      BY <2>1, <2>2, Zenon DEF ms
    <3> QED BY <3>1, <3>2, <3>3
  <2>4. ran' = ran /\ lpc' = "turn" /\ lrow' # "paused"
    BY <1>14 DEF ResumeNotice, PlacesInv
  <2> QED BY <1>01, <2>3, <2>4, NothingRun
<1>15. CASE Restart
  BY <1>0, <1>15 DEF Restart, loopVars
<1>16. CASE \E i \in DOMAIN file : Fork(file[i].seq)
  BY <1>0, <1>16 DEF Fork, logVars, loopVars
<1> QED BY <1>1, <1>2, <1>3, <1>4, <1>5, <1>6, <1>7, <1>8, <1>9, <1>10, <1>11, <1>12, <1>13, <1>14,
           <1>15, <1>16 DEF AgentNext

----------------------------------------------------------------------------
(* Sequence numbers.                                                       *)

(* Sequence numbers are numbers.                                            *)
LEMMA SeqsAre ==
    ASSUME TypeOK
    PROVE  (\A i \in DOMAIN file : file[i].seq \in Nat) /\ Top \in Nat /\ LastSeq \in Nat /\ counter \in Nat
           /\ cursor \in Nat /\ mirror.max \in Nat /\ mirror.len \in Nat
<1>1. mirror.len \in Nat /\ mirror.max \in Nat /\ counter \in Nat /\ cursor \in Nat
  BY DEF TypeOK, Step
<1>2. LastSeq \in Nat
  BY <1>1 DEF LastSeq, SeedSeq
<1>3. ASSUME NEW i \in DOMAIN file PROVE file[i].seq \in Nat
  <2>1. file[i] \in Entry
    BY DEF TypeOK
  <2> QED BY <2>1 DEF Entry
<1>4. CASE queue = <<>>
  BY <1>1, <1>2, <1>3, <1>4 DEF Top
<1>5. CASE queue # <<>>
  <2>1. queue[Len(queue)] \in Step
    BY <1>5 DEF TypeOK
  <2> QED BY <1>1, <1>2, <1>3, <1>5, <2>1 DEF Top, Step
<1> QED BY <1>4, <1>5

(* After a log step the counter is the highest number there is.             *)
LEMMA WroteNumbers ==
    ASSUME TypeOK, NumbersInv, NEW ms, Wrote(ms), lrow' # "paused"
    PROVE  NumbersInv'
<1>1. Top' = counter' /\ LastSeq' = counter' /\ lost' = lost /\ counter' > LastSeq /\ counter' \in Nat
  BY DEF Wrote, Top, LastSeq
<1> SUFFICES ASSUME ~lost PROVE NumbersInv'
  BY <1>1 DEF NumbersInv
<1>2. Top <= LastSeq /\ \A i \in DOMAIN file : file[i].seq <= Top
  BY DEF NumbersInv
<1>3. ASSUME NEW i \in DOMAIN file' PROVE file'[i].seq <= counter'
  <2>1. CASE file'[i].seq <= counter'
    BY <2>1
  <2>2. CASE i \in DOMAIN file /\ file'[i] = file[i]
    BY <1>1, <1>2, <2>2, SeqsAre
  <2> QED BY <2>1, <2>2 DEF Wrote
<1> QED BY <1>1, <1>3 DEF NumbersInv

(* Without a loss, no message is numbered past the counter.                 *)
LEMMA NumbersStep ==
    ASSUME TypeOK, PlacesInv, BeforeTools, NumbersInv, [AgentNext]_agentVars
    PROVE  NumbersInv'
<1>0. ASSUME UNCHANGED logVars, lrow' = "paused" => lrow = "paused" /\ cursor' = cursor
      PROVE  NumbersInv'
  BY <1>0 DEF NumbersInv, Top, LastSeq, SeedSeq, logVars
<1>1. CASE UNCHANGED agentVars
  BY <1>0, <1>1 DEF agentVars, logVars
<1>2. CASE PersistEntry
  <2>1. /\ queue # <<>> /\ mirror' = [len |-> mirror.len + Head(queue).len, max |-> Head(queue).max]
        /\ queue' = Tail(queue) /\ UNCHANGED <<file, counter, lost, lrow, cursor>>
    BY <1>2 DEF PersistEntry, AppendRunLogEntry, loopVars
  <2>2. queue \in Seq(Step) /\ counter # 0
    BY <2>1 DEF TypeOK, PlacesInv
  <2>3. LastSeq' = LastSeq
    BY <2>1, <2>2 DEF LastSeq
  <2>4. Top' = Top
    <3>1. CASE Tail(queue) = <<>>
      <4>1. Len(queue) = 1
        <5>1. Len(queue) \in Nat \ {0}
          BY <2>1, <2>2
        <5>2. Len(Tail(queue)) = Len(queue) - 1 /\ Tail(queue) \in Seq(Step)
          BY <2>1, <2>2
        <5> DEFINE t == Tail(queue)
        <5>3. t = <<>> /\ Len(t) = Len(queue) - 1
          BY <3>1, <5>2
        <5> HIDE DEF t
        <5> QED BY <5>1, <5>3
      <4>2. queue[Len(queue)] = Head(queue)
        BY <2>1, <2>2, <4>1
      <4>3. mirror'.max = Head(queue).max
        BY <2>1
      <4> QED BY <2>1, <3>1, <4>2, <4>3 DEF Top
    <3>2. CASE Tail(queue) # <<>>
      <4>1. Tail(queue)[Len(Tail(queue))] = queue[Len(queue)]
        BY <2>1, <2>2, <3>2
      <4> QED BY <2>1, <3>2, <4>1 DEF Top
    <3> QED BY <3>1, <3>2
  <2> QED BY <2>1, <2>3, <2>4 DEF NumbersInv
<1>3. CASE Begin
  <2>1. lpc = "start" /\ lrow' = lrow
    BY <1>3, Zenon DEF Begin
  <2>2. Wrote(<<Text>>) /\ lrow' # "paused"
    BY <1>3, <2>1, BeginWrites DEF PlacesInv
  <2> QED BY <2>2, WroteNumbers
<1>4. CASE \E calls \in NewCalls, before \in {<<>>, <<Text>>} : ModelTurn(calls, before)
  <2>1. PICK calls \in NewCalls, before \in {<<>>, <<Text>>} : ModelTurn(calls, before)
    BY <1>4
  <2>2. Wrote(before \o <<Assistant(calls)>>)
    BY <2>1, TurnWrites
  <2>3. lpc = "turn" /\ lrow' = lrow
    BY <2>1, Zenon DEF ModelTurn
  <2>4. lrow' # "paused"
    BY <2>3 DEF PlacesInv
  <2> QED BY <2>2, <2>4, WroteNumbers
<1>5. CASE GoOn \/ AfterTools \/ FollowUp \/ Finish \/ Fail \/ Close
  BY <1>0, <1>5 DEF GoOn, AfterTools, FollowUp, Finish, Fail, Close
<1>6. CASE ExecuteTool
  <2>1. /\ mirror' = [len |-> mirror.len + 2, max |-> mirror.max] /\ lpc = "tools"
        /\ UNCHANGED <<file, queue, counter, lost, lrow, cursor>>
    BY <1>6 DEF ExecuteTool, AppendRunLogEntry
  <2>2. mirror'.max = mirror.max /\ mirror'.len = mirror.len + 2
    BY <2>1
  <2>3. Top' = Top /\ LastSeq' >= LastSeq /\ LastSeq' \in Nat
    BY <2>1, <2>2, SeqsAre DEF Top, LastSeq, SeedSeq
  <2> QED BY <2>1, <2>3, SeqsAre DEF NumbersInv
<1>7. CASE ToolsDone
  <2>1. Wrote(<<Result(batch[1])>>)
    BY <1>7, SomeBatch, ToolsDoneWrites
  <2>2. lrow' # "paused"
    BY <1>7 DEF ToolsDone, PlacesInv
  <2> QED BY <2>1, <2>2, WroteNumbers
<1>8. CASE LogResult
  <2>1. Wrote(<<Result(batch[1])>>)
    BY <1>8, ResultWrites
  <2>2. lrow' # "paused"
    BY <1>8 DEF LogResult, PlacesInv
  <2> QED BY <2>1, <2>2, WroteNumbers
<1>9. CASE Pause
  <2>1. lpc = "boundary" /\ cursor' = counter /\ UNCHANGED logVars
    BY <1>9 DEF Pause
  <2>2. LastSeq = counter
    BY <2>1 DEF PlacesInv, LastSeq
  <2>3. Top' = Top /\ LastSeq' = LastSeq /\ file' = file /\ lost' = lost
    BY <2>1 DEF Top, LastSeq, SeedSeq, logVars
  <2>4. ASSUME ~lost PROVE \A i \in DOMAIN file : file[i].seq <= counter
    BY <2>2, <2>4, SeqsAre DEF NumbersInv
  <2> QED BY <2>1, <2>3, <2>4 DEF NumbersInv
<1>10. CASE Resume
  <2>1. lrow' = "running" /\ UNCHANGED logVars
    BY <1>10, ResumesBeforeTools
  <2> QED BY <1>0, <2>1
<1>11. CASE ResumeNotice
  <2>1. Wrote(<<Text>>)
    BY <1>11, NoticeWrites
  <2>2. lrow' # "paused"
    BY <1>11 DEF ResumeNotice, PlacesInv
  <2> QED BY <2>1, <2>2, WroteNumbers
<1>12. CASE Crash \/ Restart
  <2>1. /\ counter' = 0 /\ queue' = <<>> /\ UNCHANGED <<file, mirror, cursor>>
        /\ (~lost' => ~lost /\ queue = <<>>) /\ (lrow' = "paused" => lrow = "paused")
    <3>1. CASE Crash
      BY <3>1 DEF Crash
    <3>2. CASE Restart
      BY <3>2 DEF Restart, PlacesInv
    <3> QED BY <1>12, <3>1, <3>2
  <2>2. SUFFICES ASSUME ~lost' PROVE NumbersInv'
    BY DEF NumbersInv
  <2>3. Top' = mirror.max /\ Top = mirror.max
    BY <2>1, <2>2 DEF Top
  <2>4. LastSeq' >= mirror.max
    BY <2>1, SeqsAre DEF LastSeq, SeedSeq
  <2> QED BY <2>1, <2>2, <2>3, <2>4 DEF NumbersInv
<1>13. CASE \E i \in DOMAIN file : Fork(file[i].seq)
  BY <1>0, <1>13 DEF Fork
<1> QED BY <1>1, <1>2, <1>3, <1>4, <1>5, <1>6, <1>7, <1>8, <1>9, <1>10, <1>11, <1>12, <1>13 DEF AgentNext

----------------------------------------------------------------------------
(* The conversation in memory and the one in the file.                     *)

(* One result and the rest.                                                 *)
LEMMA ResultsSplit ==
    ASSUME NEW b \in Seq(Calls), b # <<>>
    PROVE  Results(b) = <<Result(b[1])>> \o Results(Tail(b))
<1> DEFINE t == Tail(b)
<1>1. /\ t \in Seq(Calls) /\ Len(t) = Len(b) - 1 /\ \A i \in 1..Len(t) : t[i] = b[i + 1]
      /\ b[1] \in Calls /\ Len(b) \in Nat \ {0}
  BY EmptySeq
<1> HIDE DEF t
<1> DEFINE L == Results(b)
           s == Results(t)
           m == Result(b[1])
<1>2. L \in Seq(Msg) /\ Len(L) = Len(b) /\ \A i \in 1..Len(b) : L[i] = Result(b[i])
  <2>1. L \in Seq(Msg) /\ Len(L) = Len(b)
    BY AskedResults
  <2> QED BY <2>1 DEF Results
<1>3. s \in Seq(Msg) /\ Len(s) = Len(t) /\ \A i \in 1..Len(t) : s[i] = Result(t[i])
  <2>1. s \in Seq(Msg) /\ Len(s) = Len(t)
    BY <1>1, AskedResults
  <2> QED BY <2>1 DEF Results
<1>4. m \in Msg
  BY <1>1, Messages
<1>5. L[1] = m
  BY <1>1, <1>2
<1> HIDE DEF L, s, m
<1> DEFINE R == <<m>> \o s
<1>6. R \in Seq(Msg) /\ Len(R) = 1 + Len(s) /\ R[1] = m /\ \A i \in 1..Len(s) : R[i + 1] = s[i]
  BY <1>3, <1>4
<1> HIDE DEF R
<1>7. ASSUME NEW k \in 1..Len(L) PROVE L[k] = R[k]
  <2>1. CASE k = 1
    BY <1>5, <1>6, <2>1
  <2>2. CASE k # 1
    <3>1. PICK i \in 1..Len(t) : k = i + 1
      <4>1. k - 1 \in 1..Len(t) /\ k = (k - 1) + 1
        BY <1>1, <1>2, <2>2
      <4> QED BY <4>1
    <3>2. L[k] = Result(b[k]) /\ R[k] = s[i] /\ s[i] = Result(t[i]) /\ t[i] = b[k]
      BY <1>1, <1>2, <1>3, <1>6, <3>1
    <3> QED BY <3>2
  <2> QED BY <2>1, <2>2
<1>8. Len(L) = Len(R)
  BY <1>1, <1>2, <1>3, <1>6
<1>9. L = R
  BY <1>2, <1>6, <1>7, <1>8, SeqEqual
<1> QED BY <1>9 DEF L, R, m, s, t

(* No calls, no results.                                                    *)
LEMMA NoResults == Results(<<>>) = <<>>
<1>1. Len(<<>>) = 0 /\ 1..0 = {}
  OBVIOUS
<1> QED BY <1>1 DEF Results

(* After what is said, what is answered, or nothing at all.                 *)
LEMMA Talked ==
    ASSUME NEW a \in Seq(Msg), Paired(a), Pending(a) = {}
    PROVE  Paired(a \o <<Text>>) /\ Pending(a \o <<Text>>) = {}
<1>1. <<Text>> \in Seq(Msg)
  BY Messages, OneMessage
<1>2. Asked(<<Text>>) = {} /\ Answered(<<Text>>) = {}
  BY DEF Asked, Answered, IsCall, Text
<1>3. Asked(a \o <<Text>>) = Asked(a) /\ Answered(a \o <<Text>>) = Answered(a)
  <2> DEFINE t == <<Text>>
  <2>1. t \in Seq(Msg) /\ Asked(t) = {} /\ Answered(t) = {}
    BY <1>1, <1>2
  <2> HIDE DEF t
  <2>2. Asked(a \o t) = Asked(a) \cup Asked(t) /\ Answered(a \o t) = Answered(a) \cup Answered(t)
    BY <2>1, AskedConcat
  <2>3. Asked(a \o t) = Asked(a) /\ Answered(a \o t) = Answered(a)
    BY <2>1, <2>2
  <2> QED BY <2>3 DEF t
<1> QED BY <1>1, <1>2, <1>3, PairedConcat DEF Pending

(* A turn of the model opens its calls and no other.                        *)
LEMMA TurnOpens ==
    ASSUME NEW a \in Seq(Msg), Paired(a), Pending(a) = {},
           NEW calls \in Seq(Calls), Elems(calls) \cap Asked(a) = {},
           NEW before \in {<<>>, <<Text>>}, before \o <<Assistant(calls)>> \in Seq(Msg)
    PROVE  /\ Paired(a \o (before \o <<Assistant(calls)>>))
           /\ Pending(a \o (before \o <<Assistant(calls)>>)) = Elems(calls)
<1> DEFINE m == <<Assistant(calls)>>
           ms == before \o m
<1>1. before \in Seq(Msg) /\ Asked(before) = {} /\ Answered(before) = {}
  <2>1. <<Text>> \in Seq(Msg) /\ <<>> \in Seq(Msg)
    BY Messages, OneMessage
  <2>2. before \in Seq(Msg)
    BY <2>1, Zenon
  <2>3. Asked(<<Text>>) = {} /\ Answered(<<Text>>) = {} /\ Asked(<<>>) = {} /\ Answered(<<>>) = {}
    BY DEF Asked, Answered, IsCall, Text
  <2>4. CASE before = <<>>
    BY <2>2, <2>3, <2>4, Zenon
  <2>5. CASE before = <<Text>>
    BY <2>2, <2>3, <2>5, Zenon
  <2> QED BY <2>4, <2>5
<1>2. m \in Seq(Msg)
  BY Messages, OneMessage
<1>3. Asked(m) = Elems(calls) /\ Answered(m) = {}
  <2>1. CASE calls = <<>>
    <3>1. Asked(m) = {} /\ Answered(m) = {} /\ Elems(calls) = {}
      BY <2>1 DEF Asked, Answered, Assistant, IsCall, Elems
    <3> QED BY <3>1
  <2>2. CASE calls # <<>>
    <3>1. Asked(m) = Elems(calls)
      BY <2>2 DEF Asked, Assistant, IsCall
    <3>2. Answered(m) = {}
      BY DEF Answered, Assistant
    <3> QED BY <3>1, <3>2
  <2> QED BY <2>1, <2>2
<1> HIDE DEF m
<1>4. Asked(ms) = Elems(calls) /\ Answered(ms) = {}
  <2>1. Asked(ms) = Asked(before) \cup Asked(m) /\ Answered(ms) = Answered(before) \cup Answered(m)
    BY <1>1, <1>2, AskedConcat
  <2> QED BY <1>1, <1>3, <2>1
<1>5. ms \in Seq(Msg)
  BY <1>1, <1>2
<1> HIDE DEF ms
<1>6. Paired(a \o ms) /\ Asked(a \o ms) = Asked(a) \cup Elems(calls) /\ Answered(a \o ms) = Answered(a)
  <2>1. Asked(a \o ms) = Asked(a) \cup Asked(ms) /\ Answered(a \o ms) = Answered(a) \cup Answered(ms)
    BY <1>5, AskedConcat
  <2>2. Paired(a \o ms)
    BY <1>4, <1>5, PairedConcat
  <2> QED BY <1>4, <2>1, <2>2
<1>7. Answered(a) \subseteq Asked(a)
  BY PairedAnswersAsked
<1>8. Pending(a \o ms) = Elems(calls)
  BY <1>6, <1>7 DEF Pending
<1> QED BY <1>6, <1>8 DEF ms, m

(* Without a loss, memory and file hold the same conversation.              *)
LEMMA ConversationStep ==
    ASSUME TypeOK, PlacesInv, BeforeTools, ExecutedInv, NumbersInv, ConversationInv, [AgentNext]_agentVars
    PROVE  ConversationInv'
<1> DEFINE talking == {"turn", "boundary", "tools", "results"}
           conv    == Conversation(file)
<1>0. ASSUME UNCHANGED <<file, hist, lpc, lrow, batch, lost, forced>>
      PROVE  ConversationInv'
  BY <1>0 DEF ConversationInv, LastCalls, AnswersDue
<1>00. hist \in Seq(Msg) /\ conv \in Seq(Msg) /\ conv \o <<>> = conv
  <2>1. hist \in Seq(Msg) /\ conv \in Seq(Msg)
    BY ConversationType DEF TypeOK
  <2> HIDE DEF conv
  <2> QED BY <2>1, ConcatEmptySeq
<1>01. ASSUME lpc' \notin talking, lrow' # "paused"
       PROVE  ConversationInv'
  BY <1>01 DEF ConversationInv
<1>1. CASE UNCHANGED agentVars
  BY <1>0, <1>1 DEF agentVars, logVars, loopVars
<1>2. CASE PersistEntry
  BY <1>0, <1>2 DEF PersistEntry, loopVars
<1>3. CASE Begin
  <2>1. /\ lpc = "start" /\ lpc' = "turn" /\ UNCHANGED lrow
    BY <1>3, Zenon DEF Begin
  <2>2. Wrote(<<Text>>) /\ hist' = <<Text>> /\ lrow' # "paused" /\ file = <<>>
    BY <1>3, <2>1, BeginWrites DEF PlacesInv
  <2>3. conv = <<>>
    BY <2>2 DEF Conversation
  <2>4. Conversation(file') = conv \o <<Text>>
    BY <2>2 DEF Wrote
  <2>5. <<Text>> \in Seq(Msg) /\ <<>> \in Seq(Msg)
    BY Messages, OneMessage
  <2>6. <<>> \o <<Text>> = <<Text>> /\ <<Text>> \o <<>> = <<Text>>
    BY <2>5, ConcatEmptySeq
  <2>7. Paired(<<>>) /\ Pending(<<>>) = {}
    BY DEF Paired, Pending, Asked, Answered
  <2>8. Paired(<<>> \o <<Text>>) /\ Pending(<<>> \o <<Text>>) = {}
    BY <2>5, <2>7, Talked
  <2>9. Paired(<<Text>>) /\ Pending(<<Text>>) = {}
    BY <2>6, <2>8
  <2>10. Conversation(file') = <<Text>>
    BY <2>3, <2>4, <2>6
  <2>11. AnswersDue' = <<>>
    BY <2>1 DEF AnswersDue
  <2>12. hist' = Conversation(file') \o AnswersDue'
    BY <2>2, <2>6, <2>10, <2>11
  <2> QED BY <2>1, <2>2, <2>9, <2>12 DEF ConversationInv
<1>4. CASE \E calls \in NewCalls, before \in {<<>>, <<Text>>} : ModelTurn(calls, before)
  <2>1. PICK calls \in NewCalls, before \in {<<>>, <<Text>>} : ModelTurn(calls, before)
    BY <1>4
  <2>2. /\ before \o <<Assistant(calls)>> \in Seq(Msg) /\ Wrote(before \o <<Assistant(calls)>>)
        /\ hist' = hist \o (before \o <<Assistant(calls)>>)
        /\ file'[Len(file')].msg = Assistant(calls)
    BY <2>1, TurnWrites
  <2>3. /\ lpc = "turn" /\ lpc' \in {"over", "boundary"} /\ UNCHANGED <<lrow, forced>>
    BY <2>1, Zenon DEF ModelTurn
  <2>4. lrow' # "paused" /\ lost' = lost
    BY <2>2, <2>3 DEF PlacesInv, Wrote
  <2>5. calls \in Seq(Calls) /\ Elems(calls) \cap Asked(conv) = {} /\ Asked(hist) \subseteq Asked(conv)
    BY FreshCalls DEF ExecutedInv
  <2>6. SUFFICES ASSUME ~lost PROVE ConversationInv'
    BY <2>4 DEF ConversationInv
  <2>7. Paired(hist) /\ Pending(hist) = {} /\ (~forced => hist = conv)
    BY <1>00, <2>3, <2>6 DEF ConversationInv, AnswersDue
  <2>8. Paired(hist') /\ Pending(hist') = Elems(calls)
    BY <1>00, <2>2, <2>5, <2>7, TurnOpens
  <2>9. LastCalls' = calls
    BY <2>2 DEF LastCalls, Assistant
  <2>10. ASSUME ~forced' PROVE hist' = Conversation(file') \o AnswersDue'
    <3> DEFINE ms == before \o <<Assistant(calls)>>
    <3>1. ms \in Seq(Msg) /\ hist' = conv \o ms /\ Conversation(file') = conv \o ms /\ AnswersDue' = <<>>
      BY <2>2, <2>3, <2>7, <2>10 DEF Wrote, AnswersDue
    <3> HIDE DEF ms, conv
    <3>2. conv \o ms \in Seq(Msg)
      BY <1>00, <3>1
    <3>3. (conv \o ms) \o <<>> = conv \o ms
      BY <3>2, ConcatEmptySeq
    <3> QED BY <3>1, <3>3
  <2> QED BY <2>3, <2>4, <2>8, <2>9, <2>10 DEF ConversationInv
<1>5. CASE GoOn
  BY <1>5 DEF GoOn, ConversationInv, PlacesInv, AnswersDue, LastCalls, logVars
<1>6. CASE ExecuteTool
  BY <1>6 DEF ExecuteTool, ConversationInv, PlacesInv, AnswersDue, LastCalls
<1>7. CASE ToolsDone
  <2>1. /\ lpc = "tools" /\ lpc' = "results" /\ UNCHANGED <<forced, lrow>> /\ lrow' # "paused"
    BY <1>7 DEF ToolsDone, PlacesInv
  <2>2. /\ batch # <<>> /\ Wrote(<<Result(batch[1])>>) /\ <<Result(batch[1])>> \in Seq(Msg)
        /\ hist' = hist \o Results(batch) /\ Tail(batch) \in Seq(Calls) /\ batch' = Tail(batch)
    BY <1>7, SomeBatch, ToolsDoneWrites, Messages, OneMessage
  <2>3. SUFFICES ASSUME ~lost PROVE ConversationInv'
    BY <2>2 DEF ConversationInv, Wrote
  <2>4. batch = LastCalls /\ Distinct(batch) /\ batch \in Seq(Calls)
    <3>1. Len(batch) = Len(LastCalls) /\ batch = SubSeq(LastCalls, 1, Len(batch))
      BY <1>7, <2>1, SomeBatch DEF ExecutedInv
    <3>2. LastCalls \in Seq(Calls) /\ Distinct(LastCalls)
      BY <2>1, StandsBefore
    <3> QED BY <3>1, <3>2
  <2>5. Paired(hist) /\ Pending(hist) = Elems(batch) /\ (~forced => hist = conv)
    BY <1>00, <2>1, <2>3, <2>4 DEF ConversationInv, AnswersDue
  <2>6. Paired(hist') /\ Pending(hist') = {}
    <3>1. /\ Paired(hist \o Results(batch))
          /\ Pending(hist \o Results(batch)) = Pending(hist) \ Elems(batch)
      BY <1>00, <2>4, <2>5, PairedResults
    <3> QED BY <2>2, <2>5, <3>1
  <2>7. ASSUME ~forced' PROVE hist' = Conversation(file') \o AnswersDue'
    <3> DEFINE r == <<Result(batch[1])>>
               t == Results(Tail(batch))
    <3>1. r \in Seq(Msg) /\ t \in Seq(Msg) /\ hist' = conv \o (r \o t) /\ Conversation(file') = conv \o r
      BY <2>1, <2>2, <2>4, <2>5, <2>7, ResultsSplit, AskedResults DEF Wrote
    <3>2. AnswersDue' = t
      BY <2>1, <2>2 DEF AnswersDue, Results
    <3> HIDE DEF r, t, conv
    <3>3. (conv \o r) \o t = conv \o (r \o t)
      BY <1>00, <3>1, ConcatAssociative
    <3> QED BY <3>1, <3>2, <3>3
  <2> QED BY <2>1, <2>6, <2>7 DEF ConversationInv
<1>8. CASE LogResult
  <2>1. /\ lpc = "results" /\ lpc' = "results" /\ UNCHANGED <<forced, lrow>> /\ lrow' # "paused"
    BY <1>8 DEF LogResult, PlacesInv
  <2>2. /\ batch # <<>> /\ Wrote(<<Result(batch[1])>>) /\ <<Result(batch[1])>> \in Seq(Msg)
        /\ hist' = hist /\ Tail(batch) \in Seq(Calls) /\ batch' = Tail(batch) /\ batch \in Seq(Calls)
    BY <1>8, ResultWrites, Messages, OneMessage DEF TypeOK
  <2>3. SUFFICES ASSUME ~lost PROVE ConversationInv'
    BY <2>2 DEF ConversationInv, Wrote
  <2>4. Paired(hist) /\ Pending(hist) = {} /\ (~forced => hist = conv \o Results(batch))
    BY <2>1, <2>3 DEF ConversationInv, AnswersDue
  <2>5. ASSUME ~forced' PROVE hist' = Conversation(file') \o AnswersDue'
    <3> DEFINE r == <<Result(batch[1])>>
               t == Results(Tail(batch))
    <3>1. r \in Seq(Msg) /\ t \in Seq(Msg) /\ hist' = conv \o (r \o t) /\ Conversation(file') = conv \o r
      BY <2>1, <2>2, <2>4, <2>5, ResultsSplit, AskedResults DEF Wrote
    <3>2. AnswersDue' = t
      BY <2>1, <2>2 DEF AnswersDue, Results
    <3> HIDE DEF r, t, conv
    <3>3. (conv \o r) \o t = conv \o (r \o t)
      BY <1>00, <3>1, ConcatAssociative
    <3> QED BY <3>1, <3>2, <3>3
  <2> QED BY <2>1, <2>2, <2>4, <2>5 DEF ConversationInv
<1>9. CASE AfterTools
  <2>1. /\ lpc = "results" /\ batch = <<>> /\ lpc' \in {"turn", "over"}
        /\ UNCHANGED <<file, lost, hist, forced, lrow>> /\ lrow' # "paused"
    BY <1>9 DEF AfterTools, PlacesInv, logVars
  <2>2. AnswersDue = <<>> /\ AnswersDue' = <<>>
    BY <2>1, NoResults DEF AnswersDue
  <2> QED BY <2>1, <2>2 DEF ConversationInv
<1>10. CASE FollowUp
  <2>1. lpc' = "turn" /\ hist' = <<Text>> /\ forced' = TRUE /\ lrow' # "paused"
    BY <1>10 DEF FollowUp, PlacesInv
  <2>2. <<>> \in Seq(Msg) /\ Paired(<<>>) /\ Pending(<<>>) = {}
    BY DEF Paired, Pending, Asked, Answered
  <2>3. <<>> \o <<Text>> = <<Text>>
    BY Messages, OneMessage, ConcatEmptySeq
  <2>4. Paired(<<Text>>) /\ Pending(<<Text>>) = {}
    BY <2>2, <2>3, Talked
  <2> QED BY <2>1, <2>4 DEF ConversationInv
<1>11. CASE Finish \/ Fail
  BY <1>01, <1>11 DEF Finish, Fail
<1>12. CASE Pause
  <2>1. /\ lpc = "boundary" /\ lpc' = "close" /\ ~forced /\ UNCHANGED <<file, lost, hist, forced>>
    BY <1>12 DEF Pause, logVars
  <2>2. ASSUME ~lost PROVE hist = conv /\ Paired(hist) /\ Pending(hist) = Elems(LastCalls)
    BY <1>00, <2>1, <2>2 DEF ConversationInv, AnswersDue
  <2> QED BY <2>1, <2>2 DEF ConversationInv, LastCalls
<1>13. CASE Close \/ Crash
  <2>1. /\ lpc' = "off" /\ file' = file /\ (lrow' = "paused" => lrow = "paused") /\ (~lost' => ~lost)
    <3>1. CASE Close
      BY <3>1 DEF Close, logVars
    <3>2. CASE Crash
      BY <3>2 DEF Crash
    <3> QED BY <1>13, <3>1, <3>2
  <2> QED BY <2>1 DEF ConversationInv, LastCalls
<1>14. CASE Resume
  <2>1. /\ hist' = LoadMessageHistory(cursor) /\ lpc' = "tools" /\ lrow = "paused" /\ lrow' = "running"
        /\ UNCHANGED <<file, lost, forced>>
    BY <1>14, ResumesBeforeTools DEF logVars
  <2>2. ASSUME ~lost PROVE hist' = conv
    <3>1. file \in Seq(Entry) /\ cursor \in Nat /\ \A i \in DOMAIN file : file[i].seq <= cursor
      BY <2>1, <2>2 DEF NumbersInv, TypeOK
    <3> QED BY <2>1, <3>1, UptoAll DEF LoadMessageHistory
  <2>3. AnswersDue' = <<>>
    BY <2>1 DEF AnswersDue
  <2> QED BY <1>00, <2>1, <2>2, <2>3 DEF ConversationInv, LastCalls
<1>15. CASE ResumeNotice
  <2>1. lpc = "turn" /\ lpc' = lpc /\ UNCHANGED <<forced, lrow>> /\ lrow' # "paused"
    BY <1>15 DEF ResumeNotice, PlacesInv
  <2>2. Wrote(<<Text>>) /\ hist' = hist \o <<Text>> /\ <<Text>> \in Seq(Msg)
    BY <1>15, NoticeWrites, Messages, OneMessage
  <2>3. SUFFICES ASSUME ~lost PROVE ConversationInv'
    BY <2>2 DEF ConversationInv, Wrote
  <2>4. Paired(hist) /\ Pending(hist) = {} /\ (~forced => hist = conv)
    BY <1>00, <2>1, <2>3 DEF ConversationInv, AnswersDue
  <2>5. Paired(hist') /\ Pending(hist') = {}
    BY <1>00, <2>2, <2>4, Talked
  <2>6. ASSUME ~forced' PROVE hist' = Conversation(file') \o AnswersDue'
    <3> DEFINE t == <<Text>>
    <3>1. t \in Seq(Msg) /\ hist' = conv \o t /\ Conversation(file') = conv \o t /\ AnswersDue' = <<>>
      BY <2>1, <2>2, <2>4, <2>6 DEF Wrote, AnswersDue
    <3> HIDE DEF t, conv
    <3>2. conv \o t \in Seq(Msg)
      BY <1>00, <3>1
    <3>3. (conv \o t) \o <<>> = conv \o t
      BY <3>2, ConcatEmptySeq
    <3> QED BY <3>1, <3>3
  <2> QED BY <2>1, <2>5, <2>6 DEF ConversationInv
<1>16. CASE Restart
  BY <1>0, <1>16 DEF Restart, loopVars
<1>17. CASE \E i \in DOMAIN file : Fork(file[i].seq)
  BY <1>0, <1>17 DEF Fork, logVars, loopVars
<1> QED BY <1>1, <1>2, <1>3, <1>4, <1>5, <1>6, <1>7, <1>8, <1>9, <1>10, <1>11, <1>12, <1>13, <1>14,
           <1>15, <1>16, <1>17 DEF AgentNext

----------------------------------------------------------------------------
(* Theorems.                                                               *)

(* The whole invariant holds at the start,                                  *)
LEMMA LoopInvInit == AgentInit => LoopInv
<1> HAVE AgentInit
<1>1. TypeOK
  BY TypeInit
<1>2. /\ file = <<>> /\ queue = <<>> /\ hist = <<>> /\ lpc = "start" /\ lrow = "running"
      /\ ~forced /\ mirror = [len |-> 0, max |-> 0] /\ counter = 0
  BY DEF AgentInit
<1>3. PlacesInv /\ BeforeTools
  BY <1>2 DEF PlacesInv, BeforeTools
<1>4. ExecutedInv
  <2>1. Executed = {} /\ ToolOnce
    BY DEF AgentInit, Executed, ToolOnce
  <2>2. Asked(hist) = {}
    BY <1>2 DEF Asked
  <2> QED BY <1>2, <2>1, <2>2 DEF ExecutedInv
<1>5. NumbersInv
  <2>1. Top = 0 /\ LastSeq = 0
    BY <1>2 DEF Top, LastSeq, SeedSeq
  <2> QED BY <1>2, <2>1 DEF NumbersInv
<1>6. ConversationInv
  BY <1>2 DEF ConversationInv
<1> QED BY <1>1, <1>3, <1>4, <1>5, <1>6 DEF LoopInv

(* and every step keeps it.                                                 *)
LEMMA LoopInvStep == LoopInv /\ [AgentNext]_agentVars => LoopInv'
BY TypeStep, PlacesStep, BeforeToolsStep, ExecutedStep, NumbersStep, ConversationStep DEF LoopInv

(* Every state is one of the types above: the places of the loop and the row *)
(* the code names, a trajectory of numbered messages, a queue of log steps.  *)
THEOREM LoopTypeCorrect == AgentSpec => []TypeOK
<1>1. LoopInv => TypeOK
  BY DEF LoopInv
<1> QED BY <1>1, LoopInvInit, LoopInvStep, PTL DEF AgentSpec

(* Whatever is paused, resumed, replayed or restarted, the conversation a    *)
(* provider is called with answers each of its tool calls exactly once       *)
(* (runMessageHistory), as long as no crash took log entries.                *)
THEOREM RequestsWellFormedAlways == AgentSpec => []RequestsWellFormed
<1>1. LoopInv => RequestsWellFormed
  BY DEF LoopInv, ConversationInv, RequestsWellFormed
<1> QED BY <1>1, LoopInvInit, LoopInvStep, PTL DEF AgentSpec

(* No tool call is executed twice (executeToolCalls, replayed by Run when a  *)
(* paused conversation ends with calls), crash or no crash.                  *)
THEOREM ToolOnceAlways == AgentSpec => []ToolOnce
<1>1. LoopInv => ToolOnce
  BY DEF LoopInv, ExecutedInv
<1> QED BY <1>1, LoopInvInit, LoopInvStep, PTL DEF AgentSpec

(* A paused row is resumed from its file and cursor alone with the whole of  *)
(* the conversation, none of the calls it ends with having been run.         *)
THEOREM PausedIsWholeAlways == AgentSpec => []PausedIsWhole
<1>1. LoopInv => PausedIsWhole
  <2> SUFFICES ASSUME LoopInv, lrow = "paused", ~lost
               PROVE  LET conv == LoadMessageHistory(cursor)
                      IN  /\ conv # <<>> /\ IsCall(conv[Len(conv)]) /\ Paired(conv)
                          /\ Len(conv) = Len(file)
                          /\ Pending(conv) = Elems(conv[Len(conv)].calls)
                          /\ Pending(conv) \cap Executed = {}
    BY DEF PausedIsWhole
  <2> DEFINE conv == LoadMessageHistory(cursor)
  <2>1. TypeOK /\ BeforeTools /\ ExecutedInv /\ NumbersInv /\ ConversationInv
    BY DEF LoopInv
  <2>2. file \in Seq(Entry) /\ cursor \in Nat /\ \A i \in DOMAIN file : file[i].seq <= cursor
    BY <2>1 DEF NumbersInv, TypeOK
  <2>3. conv = Conversation(file)
    BY <2>2, UptoAll DEF LoadMessageHistory
  <2>4. file # <<>> /\ IsCall(file[Len(file)].msg) /\ Len(file) \in DOMAIN file /\ Len(file) \in Nat
    BY <2>1, <2>2 DEF BeforeTools
  <2>5. conv \in Seq(Msg) /\ Len(conv) = Len(file) /\ conv[Len(conv)] = file[Len(file)].msg
    BY <2>2, <2>3, <2>4, ConversationType
  <2>6. conv # <<>>
    <3> HIDE DEF conv
    <3> QED BY <2>2, <2>4, <2>5
  <2>7. Paired(conv) /\ Pending(conv) = Elems(LastCalls) /\ Elems(LastCalls) \cap Executed = {}
    BY <2>1, <2>3 DEF ConversationInv, ExecutedInv
  <2> QED BY <2>4, <2>5, <2>6, <2>7 DEF LastCalls
<1> QED BY <1>1, LoopInvInit, LoopInvStep, PTL DEF AgentSpec

(* Only Fork sets a conversation, and only a resume forgets it.             *)
LEMMA ForkSafeStep ==
    ASSUME TypeOK, ForkSafe, [AgentNext]_agentVars
    PROVE  ForkSafe'
<1>0. ASSUME fork' = fork PROVE ForkSafe'
  BY <1>0 DEF ForkSafe
<1>1. CASE Resume
  <2>1. fork'.conv = <<>>
    BY <1>1 DEF Resume, NoFork
  <2>2. Pending(<<>>) = {} /\ Paired(<<>>)
    BY DEF Pending, Asked, Answered, Paired
  <2> QED BY <2>1, <2>2 DEF ForkSafe
<1>2. CASE \E i \in DOMAIN file : Fork(file[i].seq)
  <2>1. PICK i \in DOMAIN file : Fork(file[i].seq)
    BY <1>2
  <2> DEFINE seq == file[i].seq
             conv == LoadMessageHistory(seq)
  <2>2. seq \in Nat
    BY SeqsAre
  <2>3. Paired(conv) /\ SafeLengths(seq) # {} /\ fork'.conv = SafeHistory(seq)
    BY <2>1 DEF Fork
  <2>4. PICK n \in SafeLengths(seq) : SafeHistory(seq) = SubSeq(conv, 1, n)
    BY <2>2, <2>3, SafePrefix
  <2>5. conv \in Seq(Msg) /\ n \in 1..Len(conv) /\ Pending(SubSeq(conv, 1, n)) = {}
    BY <2>2, LoadType DEF SafeLengths
  <2> HIDE DEF conv, seq
  <2>6. Paired(SubSeq(conv, 1, n))
    BY <2>3, <2>5, PairedPrefix
  <2> QED BY <2>3, <2>4, <2>5, <2>6 DEF ForkSafe
<1>3. CASE UNCHANGED agentVars
  BY <1>0, <1>3 DEF agentVars
<1>4. CASE PersistEntry \/ Begin \/ GoOn \/ ExecuteTool \/ ToolsDone \/ LogResult \/ AfterTools
  BY <1>0, <1>4, Zenon DEF PersistEntry, Begin, GoOn, ExecuteTool, ToolsDone, LogResult, AfterTools
<1>5. CASE FollowUp \/ Finish \/ Fail \/ Pause \/ Close \/ ResumeNotice \/ Crash \/ Restart
  BY <1>0, <1>5, Zenon DEF FollowUp, Finish, Fail, Pause, Close, ResumeNotice, Crash, Restart
<1>6. CASE \E calls \in NewCalls, before \in {<<>>, <<Text>>} : ModelTurn(calls, before)
  BY <1>0, <1>6, Zenon DEF ModelTurn
<1> QED BY <1>1, <1>2, <1>3, <1>4, <1>5, <1>6 DEF AgentNext

(* A fork starts from a conversation all of whose calls are answered and     *)
(* whose answers pair (LoadSafeMessageHistoryAtOrBefore), also when a crash  *)
(* made sequence numbers repeat.                                             *)
THEOREM ForkSafeAlways == AgentSpec => []ForkSafe
<1>1. AgentInit => ForkSafe
  BY DEF AgentInit, NoFork, ForkSafe, Pending, Asked, Answered, Paired
<1>2. LoopInv /\ ForkSafe /\ [AgentNext]_agentVars => ForkSafe'
  BY ForkSafeStep DEF LoopInv
<1> QED BY <1>1, <1>2, LoopInvInit, LoopInvStep, PTL DEF AgentSpec
=============================================================================
