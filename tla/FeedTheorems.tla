----------------------------- MODULE FeedTheorems -----------------------------
(****************************************************************************)
(* What the writes of an API server and the events of a watch do to a feed: *)
(* a nonempty sequence whose first entry is what the informer cache shows   *)
(* and whose last one is what the API server has.                           *)
(****************************************************************************)
EXTENDS SequenceTheorems, FiniteSetTheorems, Functions, TLAPS

Feed(S) == {feed \in Seq(S) : Len(feed) > 0}

First(feed) == feed[1]
Last(feed)  == feed[Len(feed)]

\* What a feed shows and what it holds.
LEMMA FeedEntries ==
  ASSUME NEW S, NEW feed \in Feed(S)
  PROVE  /\ Len(feed) \in Nat \ {0}
         /\ 1 \in 1..Len(feed) /\ Len(feed) \in 1..Len(feed)
         /\ \A i \in 1..Len(feed) : feed[i] \in S
         /\ First(feed) \in S /\ Last(feed) \in S
         /\ Len(feed) = 1 => First(feed) = Last(feed)
<1>1. feed \in Seq(S) /\ Len(feed) \in Nat \ {0}
  BY DEF Feed
<1>2. \A i \in 1..Len(feed) : feed[i] \in S
  BY <1>1, ElementOfSeq
<1> QED
  BY <1>1, <1>2 DEF First, Last

\* A write of the API server: the cache does not show it yet.
LEMMA FeedAppend ==
  ASSUME NEW S, NEW feed \in Feed(S), NEW object \in S
  PROVE  /\ Append(feed, object) \in Feed(S)
         /\ Len(Append(feed, object)) = Len(feed) + 1
         /\ Last(Append(feed, object)) = object
         /\ First(Append(feed, object)) = First(feed)
         /\ Append(feed, object)[Len(feed) + 1] = object
         /\ \A i \in 1..Len(feed) : Append(feed, object)[i] = feed[i]
<1>1. feed \in Seq(S) /\ Len(feed) \in Nat \ {0}
  BY DEF Feed
<1>2. /\ Append(feed, object) \in Seq(S)
      /\ Len(Append(feed, object)) = Len(feed) + 1
      /\ \A i \in 1..Len(feed) : Append(feed, object)[i] = feed[i]
      /\ Append(feed, object)[Len(feed) + 1] = object
  BY <1>1, AppendProperties
<1> QED
  BY <1>1, <1>2 DEF Feed, First, Last

\* A watch event: the API server has what it had.
LEMMA FeedTail ==
  ASSUME NEW S, NEW feed \in Feed(S), Len(feed) > 1
  PROVE  /\ Tail(feed) \in Feed(S)
         /\ Len(Tail(feed)) = Len(feed) - 1
         /\ Last(Tail(feed)) = Last(feed)
         /\ \A i \in 1..Len(Tail(feed)) : i + 1 \in 1..Len(feed) /\ Tail(feed)[i] = feed[i + 1]
<1>1. feed \in Seq(S) /\ Len(feed) \in Nat /\ feed # <<>>
  BY DEF Feed
<1>2. /\ Tail(feed) \in Seq(S) /\ Len(Tail(feed)) = Len(feed) - 1
      /\ \A i \in 1..Len(Tail(feed)) : Tail(feed)[i] = feed[i + 1]
  BY <1>1, HeadTailProperties
<1>3. \A i \in 1..Len(Tail(feed)) : i + 1 \in 1..Len(feed)
  BY <1>1, <1>2
<1>4. Tail(feed)[Len(feed) - 1] = feed[(Len(feed) - 1) + 1]
  BY <1>1, <1>2
<1>5. Tail(feed)[Len(feed) - 1] = feed[Len(feed)]
  BY <1>1, <1>4
<1> QED
  BY <1>1, <1>2, <1>3, <1>5 DEF Feed, Last

\* A list: the cache shows what the API server has.
LEMMA FeedList ==
  ASSUME NEW S, NEW object \in S
  PROVE  /\ <<object>> \in Feed(S)
         /\ Len(<<object>>) = 1
         /\ First(<<object>>) = object /\ Last(<<object>>) = object
         /\ \A i \in 1..Len(<<object>>) : <<object>>[i] = object
BY DEF Feed, First, Last

\* A step that changes a feed only in the ways of an API server or a cache.
FeedStep(feed, next, S) ==
  \/ next = feed
  \/ \E object \in S : next = Append(feed, object)
  \/ Len(feed) > 1 /\ next = Tail(feed)
  \/ next = <<Last(feed)>>

LEMMA FeedStepTyped ==
  ASSUME NEW S, NEW feed \in Feed(S), NEW next, FeedStep(feed, next, S)
  PROVE  next \in Feed(S)
<1>1. ASSUME NEW object \in S, next = Append(feed, object) PROVE next \in Feed(S)
  BY <1>1, FeedAppend
<1>2. CASE Len(feed) > 1 /\ next = Tail(feed)
  BY <1>2, FeedTail
<1>3. CASE next = <<Last(feed)>>
  <2>1. Last(feed) \in S
    BY FeedEntries
  <2> QED
    BY <1>3, <2>1, FeedList
<1> QED
  BY <1>1, <1>2, <1>3 DEF FeedStep

\* Every entry after such a step is the last one or was there before; only what
\* the API server writes changes the last one.
LEMMA FeedStepEntries ==
  ASSUME NEW S, NEW feed \in Feed(S), NEW next, FeedStep(feed, next, S)
  PROVE  /\ \A i \in 1..Len(next) : next[i] = Last(next) \/ \E j \in 1..Len(feed) : next[i] = feed[j]
         /\ \/ Last(next) = Last(feed)
            \/ \E object \in S : next = Append(feed, object) /\ Last(next) = object
<1> DEFINE Goal ==
      /\ \A i \in 1..Len(next) : next[i] = Last(next) \/ \E j \in 1..Len(feed) : next[i] = feed[j]
      /\ \/ Last(next) = Last(feed)
         \/ \E object \in S : next = Append(feed, object) /\ Last(next) = object
<1>1. ASSUME NEW object \in S, next = Append(feed, object) PROVE Goal
  <2>1. /\ Len(next) = Len(feed) + 1 /\ Last(next) = object /\ next[Len(feed) + 1] = object
        /\ \A i \in 1..Len(feed) : next[i] = feed[i]
        /\ Len(feed) \in Nat
    BY <1>1, FeedAppend, FeedEntries
  <2>2. \A i \in 1..Len(next) : i = Len(feed) + 1 \/ i \in 1..Len(feed)
    BY <2>1
  <2>3. \A i \in 1..Len(next) : next[i] = Last(next) \/ \E j \in 1..Len(feed) : next[i] = feed[j]
    BY <2>1, <2>2
  <2> QED
    BY <1>1, <2>1, <2>3
<1>2. CASE Len(feed) > 1 /\ next = Tail(feed)
  BY <1>2, FeedTail
<1>3. CASE next = <<Last(feed)>>
  <2>1. Last(feed) \in S
    BY FeedEntries
  <2>2. Last(next) = Last(feed) /\ \A i \in 1..Len(next) : next[i] = Last(feed)
    BY <1>3, <2>1, FeedList
  <2> QED
    BY <2>2
<1>4. CASE next = feed
  BY <1>4
<1> QED
  BY <1>1, <1>2, <1>3, <1>4 DEF FeedStep

-------------------------------------------------------------------------------
(* Finite sets that feeds and objects give *)

LEMMA ImageFinite ==
  ASSUME NEW T, IsFiniteSet(T), NEW f
  PROVE  IsFiniteSet({f[x] : x \in T})
<1> DEFINE g == [x \in T |-> f[x]]
<1>1. g \in Surjection(T, {f[x] : x \in T})
  BY DEF Surjection
<1> HIDE DEF g
<1> QED
  BY <1>1, FS_Surjection

LEMMA RangeFinite ==
  ASSUME NEW S, NEW feed \in Seq(S)
  PROVE  IsFiniteSet(Range(feed))
<1>1. Len(feed) \in Nat /\ DOMAIN feed = 1..Len(feed)
  BY LenProperties
<1>2. IsFiniteSet(1..Len(feed))
  BY <1>1, FS_Interval
<1>3. Range(feed) = {feed[i] : i \in 1..Len(feed)}
  BY <1>1 DEF Range
<1> DEFINE T == 1..Len(feed)
<1>4. IsFiniteSet(T) /\ Range(feed) = {feed[i] : i \in T}
  BY <1>2, <1>3
<1> HIDE DEF T
<1>5. IsFiniteSet({feed[i] : i \in T})
  BY <1>4, ImageFinite
<1> QED
  BY <1>4, <1>5

\* Among the first numbers, one more than a set has members is not a member.
LEMMA SomeUnused ==
  ASSUME NEW S, IsFiniteSet(S)
  PROVE  \E uid \in 1..(Cardinality(S) + 1) : uid \notin S
<1> DEFINE n == Cardinality(S)
<1>1. n \in Nat
  BY FS_CardinalityType
<1>2. SUFFICES ASSUME 1..(n + 1) \subseteq S PROVE FALSE
  OBVIOUS
<1>3. Cardinality(1..(n + 1)) = n + 1
  BY <1>1, FS_Interval
<1>4. Cardinality(1..(n + 1)) <= n
  BY <1>2, FS_Subset
<1> QED
  BY <1>1, <1>3, <1>4

-------------------------------------------------------------------------------
(* Feeds that advance along an order of their objects *)

Ordered(feed, R) == \A i, j \in 1..Len(feed) : i <= j => <<feed[i], feed[j]>> \in R

\* A step keeps a feed in order when what is written comes after the last entry.
LEMMA FeedOrdered ==
  ASSUME NEW S, NEW R, NEW feed \in Feed(S), NEW next, FeedStep(feed, next, S),
         Ordered(feed, R),
         \A a, b, c \in S : <<a, b>> \in R /\ <<b, c>> \in R => <<a, c>> \in R,
         \A a \in S : <<a, a>> \in R,
         next # feed /\ Last(next) # Last(feed) => <<Last(feed), Last(next)>> \in R
  PROVE  /\ Ordered(next, R)
         /\ <<First(feed), First(next)>> \in R
         /\ \A i \in 1..Len(feed) : <<feed[i], Last(feed)>> \in R /\ <<First(feed), feed[i]>> \in R
<1> DEFINE Goal == Ordered(next, R) /\ <<First(feed), First(next)>> \in R
<1>0. /\ Len(feed) \in Nat \ {0} /\ 1 \in 1..Len(feed) /\ Len(feed) \in 1..Len(feed)
      /\ First(feed) \in S /\ Last(feed) \in S
      /\ \A i \in 1..Len(feed) : feed[i] \in S
  BY FeedEntries
<1>1. \A i \in 1..Len(feed) : <<feed[i], Last(feed)>> \in R /\ <<First(feed), feed[i]>> \in R
  BY <1>0 DEF Ordered, Last, First
<1>2. CASE next = feed
  BY <1>0, <1>1, <1>2
<1>3. ASSUME NEW object \in S, next = Append(feed, object) PROVE Goal
  <2>1. /\ Len(next) = Len(feed) + 1 /\ next[Len(feed) + 1] = object /\ Last(next) = object
        /\ \A i \in 1..Len(feed) : next[i] = feed[i]
        /\ First(next) = First(feed) /\ next # feed
    <3>1. /\ Len(next) = Len(feed) + 1 /\ next[Len(feed) + 1] = object /\ Last(next) = object
          /\ \A i \in 1..Len(feed) : next[i] = feed[i]
          /\ First(next) = First(feed)
      BY <1>3, FeedAppend
    <3>2. Len(feed) + 1 # Len(feed)
      BY <1>0
    <3> QED
      BY <3>1, <3>2
  <2>2. <<Last(feed), object>> \in R
    BY <1>0, <2>1
  <2>3. ASSUME NEW i \in 1..Len(next), NEW j \in 1..Len(next), i <= j
        PROVE  <<next[i], next[j]>> \in R
    <3>1. CASE j \in 1..Len(feed)
      <4>1. i \in 1..Len(feed)
        BY <1>0, <2>1, <2>3, <3>1
      <4> QED
        BY <2>1, <2>3, <3>1, <4>1 DEF Ordered
    <3>2. CASE j = Len(feed) + 1 /\ i \in 1..Len(feed)
      <4>1. <<feed[i], Last(feed)>> \in R /\ feed[i] \in S
        BY <1>0, <1>1, <3>2
      <4>2. <<feed[i], object>> \in R
        BY <1>0, <1>3, <2>2, <4>1
      <4> QED
        BY <2>1, <3>2, <4>2
    <3>3. CASE j = Len(feed) + 1 /\ i = Len(feed) + 1
      BY <2>1, <3>3
    <3> QED
      BY <1>0, <2>1, <3>1, <3>2, <3>3
  <2> QED
    BY <1>0, <2>1, <2>3 DEF Ordered
<1>4. CASE Len(feed) > 1 /\ next = Tail(feed)
  <2>1. /\ Len(next) = Len(feed) - 1
        /\ \A i \in 1..Len(next) : i + 1 \in 1..Len(feed) /\ next[i] = feed[i + 1]
    BY <1>4, FeedTail
  <2>2. ASSUME NEW i \in 1..Len(next), NEW j \in 1..Len(next), i <= j
        PROVE  <<next[i], next[j]>> \in R
    <3>1. /\ i + 1 \in 1..Len(feed) /\ j + 1 \in 1..Len(feed) /\ i + 1 <= j + 1
          /\ next[i] = feed[i + 1] /\ next[j] = feed[j + 1]
      BY <2>1, <2>2
    <3> QED
      BY <3>1 DEF Ordered
  <2>3. 1 \in 1..Len(next) /\ 1 + 1 \in 1..Len(feed) /\ First(next) = feed[1 + 1]
    <3>0. next \in Feed(S)
      BY <1>4, FeedTail
    <3>1. 1 \in 1..Len(next)
      BY <3>0, FeedEntries
    <3> QED
      BY <2>1, <3>1 DEF First
  <2>4. <<First(feed), feed[1 + 1]>> \in R
    BY <1>1, <2>3
  <2> QED
    BY <1>1, <2>2, <2>3, <2>4 DEF Ordered
<1>5. CASE next = <<Last(feed)>>
  <2>1. /\ Len(next) = 1 /\ First(next) = Last(feed)
        /\ \A i \in 1..Len(next) : next[i] = Last(feed)
    BY <1>0, <1>5, FeedList
  <2> QED
    BY <1>0, <1>1, <2>1 DEF Ordered
<1> QED
  BY <1>1, <1>2, <1>3, <1>4, <1>5 DEF FeedStep
===============================================================================
