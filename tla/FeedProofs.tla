-------------------------------- MODULE FeedProofs --------------------------------
(***************************************************************************)
(* What Pipeline promises of the feed, for any plugins, any page size, any *)
(* number of polls beside the loop's, a feed that changes between two      *)
(* pages, polls and cycles that fail at any point, a midnight at any time  *)
(* and a feed whose calendar is behind: a poll is complete, and the cursor *)
(* leaves no update behind but those it is known to overtake.              *)
(***************************************************************************)
EXTENDS PipelineProofs, FunctionTheorems, FiniteSetTheorems

(* The feed lists each published plugin after those updated later: a       *)
(* strict total order of a finite set.                                     *)
OrderInv ==
    /\ IsFiniteSet(Feed!Published)
    /\ \A p \in Plugin : ahead[p] \subseteq Feed!Published
    /\ \A p \in Feed!Published : p \notin ahead[p]
    /\ \A p, q \in Feed!Published : p # q => p \in ahead[q] \/ q \in ahead[p]
    /\ \A p, q \in Feed!Published : p \in ahead[q] => ahead[p] \subseteq ahead[q]

(* The first place on the page that a poll will ask for next.              *)
From(c) == (poll[c].page - 1) * page_size

(* What a poll owes its caller and has not read is on a page to come.      *)
PageInv ==
    \A c \in Engine :
        /\ poll[c].pc = "idle" => due[c] = {}
        /\ poll[c].pc = "page" =>
               /\ poll[c].since \in Feed!Day /\ poll[c].page >= 1
               /\ \A p \in due[c] \ poll[c].plugins :
                      /\ p \in Feed!Matching(poll[c].since)
                      /\ Feed!Rank(p, poll[c].since) >= From(c)
        /\ poll[c].pc = "polled" => due[c] \subseteq poll[c].plugins

CursorInv ==
    /\ cursor = NoDate <=> started = NoDate
    /\ cursor # NoDate => started <= cursor /\ cursor <= today
    /\ unread \subseteq Feed!Published

(* Between BeginCycle and SaveCursor the cursor is about to become today:  *)
(* an update is owed by the loop's poll, or is of today.                   *)
InCycle == stage \in {"cycle", "save_cursor"}

SlipInv ==
    started # NoDate =>
        \A p \in unread \ exposed : dated[p] >= started =>
            /\ dated[p] >= cursor
            /\ InCycle => dated[p] = today \/ p \in due[Loop]

KeysInv ==
    /\ proposed \subseteq Key /\ dismissed \subseteq Key
    /\ calls \in 0..MaxCalls /\ taken \subseteq Key

FeedInv == Feed!FeedTypeOK /\ OrderInv /\ PageInv /\ CursorInv

SlipIInv == IInv /\ FeedInv /\ SlipInv /\ KeysInv

-----------------------------------------------------------------------------
(* A strict total order of a finite set, given by the elements ahead of    *)
(* each one: how many are ahead tells the elements apart, and runs through *)
(* all the numbers below the size of the set.                              *)
LEMMA RanksFill ==
    ASSUME NEW M, IsFiniteSet(M), NEW A,
           \A p \in M : p \notin A[p],
           \A p, q \in M : p # q => p \in A[q] \/ q \in A[p],
           \A p, q \in M : p \in A[q] => A[p] \subseteq A[q]
    PROVE  [p \in M |-> Cardinality(A[p] \cap M)]
               \in Bijection(M, 0..(Cardinality(M) - 1))
  <1> DEFINE size == Cardinality(M)
             rank == [p \in M |-> Cardinality(A[p] \cap M)]
  <1>1. size \in Nat
    BY FS_CardinalityType
  <1>2. ASSUME NEW p \in M
        PROVE  /\ IsFiniteSet(A[p] \cap M)
               /\ rank[p] \in 0..(size - 1) /\ rank[p] \in Nat
    <2>1. /\ IsFiniteSet(A[p] \cap M)
          /\ Cardinality(A[p] \cap M) <= size
          /\ size = Cardinality(A[p] \cap M) => M = A[p] \cap M
      BY FS_Subset, A[p] \cap M \in SUBSET M, Zenon
    <2>2. A[p] \cap M # M
      OBVIOUS
    <2>3. Cardinality(A[p] \cap M) \in Nat
      BY <2>1, FS_CardinalityType, Zenon
    <2>4. rank[p] = Cardinality(A[p] \cap M)
      OBVIOUS
    <2> HIDE DEF rank, size
    <2>5. QED
      BY <1>1, <2>1, <2>2, <2>3, <2>4
  <1>3. ASSUME NEW p \in M, NEW q \in M, p \in A[q]
        PROVE  rank[p] < rank[q]
    <2> DEFINE P == A[p] \cap M
               Q == A[q] \cap M
    <2>1. P \subseteq Q /\ p \in Q /\ p \notin P
      BY <1>3
    <2>2. IsFiniteSet(Q)
      BY <1>2
    <2> HIDE DEF P, Q
    <2>3. Cardinality(P) <= Cardinality(Q) /\ Cardinality(P) # Cardinality(Q)
      BY <2>1, <2>2, FS_Subset, P \in SUBSET Q
    <2>4. rank[p] = Cardinality(P) /\ rank[q] = Cardinality(Q)
      BY DEF P, Q
    <2>5. rank[p] \in Nat /\ rank[q] \in Nat
      BY <1>2
    <2> HIDE DEF rank
    <2>6. QED
      BY <2>3, <2>4, <2>5
  <1>4. rank \in Injection(M, 0..(size - 1))
    <2>1. rank \in [M -> 0..(size - 1)]
      BY <1>2
    <2>2. ASSUME NEW p \in M, NEW q \in M, rank[p] = rank[q]
          PROVE  p = q
      <3> SUFFICES ASSUME p # q
                   PROVE  FALSE
        OBVIOUS
      <3>1. rank[p] < rank[q] \/ rank[q] < rank[p]
        BY <1>3
      <3>2. rank[p] \in Nat /\ rank[q] \in Nat
        BY <1>2
      <3> HIDE DEF rank
      <3>3. QED
        BY <2>2, <3>1, <3>2
    <2> HIDE DEF rank, size
    <2>3. QED
      BY <2>1, <2>2, Fun_IsInj
  <1>5. IsFiniteSet(0..(size - 1)) /\ Cardinality(0..(size - 1)) = size
    BY <1>1, FS_Interval, size - 1 \in Int
  <1> HIDE DEF rank
  <1>6. rank \in Surjection(M, 0..(size - 1))
    BY <1>4, <1>5, FS_Injection
  <1> QED
    BY <1>4, <1>6, Fun_IsBij DEF rank

(* The elements on the places from "from" on, as many as a page has.       *)
Places(M, A, from, n) ==
    {p \in M : /\ from <= Cardinality(A[p] \cap M)
               /\ Cardinality(A[p] \cap M) < from + n}

(* A page that somebody stands behind is full.                             *)
LEMMA FullPage ==
    ASSUME NEW M, IsFiniteSet(M), NEW A,
           \A p \in M : p \notin A[p],
           \A p, q \in M : p # q => p \in A[q] \/ q \in A[p],
           \A p, q \in M : p \in A[q] => A[p] \subseteq A[q],
           NEW from \in Nat, NEW n \in Nat \ {0},
           NEW last \in M, Cardinality(A[last] \cap M) >= from + n
    PROVE  Cardinality(Places(M, A, from, n)) = n
  <1> DEFINE top == Cardinality(M) - 1
             rank == [p \in M |-> Cardinality(A[p] \cap M)]
             page == {p \in M : from <= rank[p] /\ rank[p] < from + n}
             places == from..(from + n - 1)
             there == [p \in page |-> rank[p]]
  <1>1. rank \in Bijection(M, 0..top)
    BY RanksFill, Zenon
  <1>2. top \in Int
    BY FS_CardinalityType
  <1>3. rank[last] >= from + n
    OBVIOUS
  <1>4. page = Places(M, A, from, n)
    BY DEF Places
  <1> HIDE DEF top, rank
  <1>5. /\ rank \in [M -> 0..top]
        /\ \A p, q \in M : rank[p] = rank[q] => p = q
        /\ \A i \in 0..top : \E p \in M : rank[p] = i
    <2>1. rank \in [M -> 0..top]
      BY <1>1, Fun_BijectionProperties
    <2>2. \A p, q \in M : rank[p] = rank[q] => p = q
      BY <1>1, Fun_BijectionProperties
    <2>3. \A i \in 0..top : \E p \in M : rank[p] = i
      BY <1>1 DEF Bijection, Surjection
    <2>4. QED
      BY <2>1, <2>2, <2>3
  <1>6. places \subseteq 0..top
    BY <1>5, <1>2, <1>3
  <1>7. there \in Bijection(page, places)
    <2>1. there \in [page -> places]
      BY <1>5, <1>2
    <2>2. \A p, q \in page : there[p] = there[q] => p = q
      BY <1>5
    <2>3. ASSUME NEW i \in places
          PROVE  \E p \in page : there[p] = i
      <3>1. PICK p \in M : rank[p] = i
        BY <1>5, <1>6
      <3>2. p \in page
        BY <3>1
      <3>3. QED
        BY <3>1, <3>2
    <2> HIDE DEF there, page, places
    <2>4. QED
      BY <2>1, <2>2, <2>3, Fun_IsBij
  <1>8. IsFiniteSet(places) /\ Cardinality(places) = n
    BY FS_Interval, from + n - 1 \in Int
  <1>9. IsFiniteSet(page)
    BY FS_Subset, page \in SUBSET M
  <1> HIDE DEF there, page, places
  <1>10. ExistsBijection(page, places)
    BY <1>7, Fun_ExistsBij
  <1>11. Cardinality(places) = Cardinality(page)
    BY <1>9, <1>10, FS_Bijection
  <1>12. QED
    BY <1>4, <1>8, <1>11

-----------------------------------------------------------------------------
(* The pages of a query.                                                   *)

(* The instance has a Cardinality of its own.                              *)
LEMMA SameCardinality == \A S : Feed!Cardinality(S) = Cardinality(S)
  BY DEF Feed!Cardinality, Cardinality

LEMMA RankIs ==
    ASSUME NEW p, NEW since
    PROVE  Feed!Rank(p, since) = Cardinality(ahead[p] \cap Feed!Matching(since))
  BY SameCardinality DEF Feed!Rank

LEMMA MatchingFinite ==
    ASSUME OrderInv, NEW since, NEW S
    PROVE  /\ IsFiniteSet(Feed!Matching(since))
           /\ IsFiniteSet(S \cap Feed!Matching(since))
           /\ Cardinality(S \cap Feed!Matching(since)) \in Nat
  <1>1. Feed!Matching(since) \in SUBSET Feed!Published
    BY DEF Feed!Matching
  <1>2. S \cap Feed!Matching(since) \in SUBSET Feed!Published
    BY DEF Feed!Matching
  <1>3. IsFiniteSet(Feed!Published)
    BY DEF OrderInv
  <1>4. QED
    BY <1>1, <1>2, <1>3, FS_Subset, FS_CardinalityType

LEMMA RankIsNat ==
    ASSUME OrderInv, NEW p, NEW since
    PROVE  Feed!Rank(p, since) \in Nat
  BY RankIs, MatchingFinite

(* A poll that has plugins left to come goes on to the next page.          *)
LEMMA PollGoesOn ==
    ASSUME OrderInv, NEW since, NEW page \in Nat, page >= 1,
           NEW q \in Feed!Matching(since),
           Feed!Rank(q, since) >= (page - 1) * page_size + page_size
    PROVE  ~ Feed!LastPage(Feed!Page(since, page))
  <1> DEFINE M == Feed!Matching(since)
             from == (page - 1) * page_size
  <1>0. q \in M
    OBVIOUS
  <1>1. from \in Nat /\ page_size \in Nat \ {0}
    BY FeedAssumption
  <1>2. /\ \A p \in M : p \notin ahead[p]
        /\ \A p, r \in M : p # r => p \in ahead[r] \/ r \in ahead[p]
        /\ \A p, r \in M : p \in ahead[r] => ahead[p] \subseteq ahead[r]
    BY DEF OrderInv, Feed!Matching
  <1>3. IsFiniteSet(M)
    BY MatchingFinite
  <1>4. Cardinality(ahead[q] \cap M) >= from + page_size
    BY RankIs
  <1>5. Feed!Page(since, page) = Places(M, ahead, from, page_size)
    BY RankIs DEF Feed!Page, Places
  <1> HIDE DEF M, from
  <1>6. Cardinality(Feed!Page(since, page)) = page_size
    BY <1>1, <1>2, <1>3, <1>4, <1>5, <1>0, FullPage
  <1>7. QED
    BY <1>1, <1>6, SameCardinality DEF Feed!LastPage

-----------------------------------------------------------------------------
(* Steps of the feed.                                                      *)

LEMMA PublishOrder ==
    ASSUME FeedInv, NEW p \in Plugin, Feed!Publish(p)
    PROVE  /\ Feed!FeedTypeOK' /\ OrderInv' /\ CursorInv'
           /\ Feed!Published' = Feed!Published \cup {p}
  <1> USE FeedAssumption DEF FeedInv, Feed!FeedTypeOK, Feed!Day
  <1>1. PICK day \in (today - FeedLag)..today :
            /\ dated[p] # NoDate => dated[p] < day
            /\ dated' = [dated EXCEPT ![p] = day]
            /\ exposed' = IF day < today THEN exposed \cup {p} ELSE exposed \ {p}
    BY DEF Feed!Publish
  <1>2. /\ ahead' = [q \in Plugin |->
               IF q \in Feed!Published \ {p} THEN ahead[q] \cup {p} ELSE {}]
        /\ unread' = unread \cup {p}
        /\ due' = [c \in Engine |-> due[c] \ {p}]
        /\ UNCHANGED <<today, cursor, poll, started>>
    BY DEF Feed!Publish
  <1>3. day \in (-FeedLag)..MaxDay /\ day # NoDate
    OBVIOUS
  <1>4. Feed!Published' = Feed!Published \cup {p}
    BY <1>1, <1>3 DEF Feed!Published
  <1>5. Feed!FeedTypeOK'
    BY <1>1, <1>2, <1>3
  <1>6. OrderInv'
    <2>1. IsFiniteSet(Feed!Published')
      BY <1>4, FS_AddElement DEF OrderInv
    <2>2. \A q \in Plugin : ahead'[q] \subseteq Feed!Published'
      BY <1>2, <1>4 DEF OrderInv
    <2>3. \A q \in Feed!Published' : q \notin ahead'[q]
      BY <1>2, <1>4 DEF OrderInv, Feed!Published
    <2>4. \A q, r \in Feed!Published' : q # r => q \in ahead'[r] \/ r \in ahead'[q]
      BY <1>2, <1>4 DEF OrderInv, Feed!Published
    <2>5. \A q, r \in Feed!Published' : q \in ahead'[r] => ahead'[q] \subseteq ahead'[r]
      BY <1>2, <1>4 DEF OrderInv, Feed!Published
    <2>6. QED
      BY <2>1, <2>2, <2>3, <2>4, <2>5 DEF OrderInv
  <1>7. CursorInv'
    BY <1>2, <1>4 DEF CursorInv
  <1>8. QED
    BY <1>4, <1>5, <1>6, <1>7

(* The plugin that is published goes to the front: it leaves every place   *)
(* as it was or pushes it back.                                            *)
LEMMA PublishPushesBack ==
    ASSUME FeedInv, NEW p \in Plugin, Feed!Publish(p), NEW since \in Feed!Day,
           NEW q \in Feed!Matching(since), q # p
    PROVE  /\ q \in Feed!Matching(since)'
           /\ Feed!Rank(q, since) \in Nat /\ Feed!Rank(q, since)' \in Nat
           /\ Feed!Rank(q, since)' >= Feed!Rank(q, since)
  <1> USE FeedAssumption DEF FeedInv, Feed!FeedTypeOK, Feed!Day
  <1>1. PICK day \in (today - FeedLag)..today :
            /\ dated[p] # NoDate => dated[p] < day
            /\ dated' = [dated EXCEPT ![p] = day]
    BY DEF Feed!Publish
  <1>2. /\ day \in Int /\ day # NoDate
        /\ ahead'[q] = ahead[q] \cup {p}
    BY DEF Feed!Publish, Feed!Matching, Feed!Published
  <1>3. Feed!Matching(since) \subseteq Feed!Matching(since)'
    BY <1>1, <1>2 DEF Feed!Matching, Feed!Published
  <1> DEFINE before == ahead[q] \cap Feed!Matching(since)
             after == ahead'[q] \cap Feed!Matching(since)'
  <1>4. before \subseteq after
    BY <1>2, <1>3
  <1>5. IsFiniteSet(after)
    <2>1. OrderInv'
      BY PublishOrder
    <2>2. after \in SUBSET Feed!Published'
      BY DEF Feed!Matching
    <2>3. IsFiniteSet(Feed!Published')
      BY <2>1 DEF OrderInv
    <2>4. QED
      BY <2>2, <2>3, FS_Subset
  <1> HIDE DEF before, after
  <1>6. Cardinality(before) <= Cardinality(after)
    BY <1>4, <1>5, FS_Subset
  <1>7. IsFiniteSet(before)
    BY <1>4, <1>5, FS_Subset
  <1>8. Cardinality(before) \in Nat /\ Cardinality(after) \in Nat
    BY <1>5, <1>7, FS_CardinalityType
  <1>9. QED
    BY <1>3, <1>6, <1>8, SameCardinality DEF before, after, Feed!Rank

LEMMA PublishKeepsFeed ==
    ASSUME FeedInv, NEW p \in Plugin, Feed!Publish(p)
    PROVE  FeedInv'
  <1>1. Feed!FeedTypeOK' /\ OrderInv' /\ CursorInv'
    BY PublishOrder
  <1>2. poll' = poll /\ \A c \in Engine : due'[c] = due[c] \ {p}
    BY DEF Feed!Publish
  <1>3. ASSUME NEW c \in Engine, poll[c].pc = "page",
               NEW q \in due'[c] \ poll'[c].plugins
        PROVE  /\ q \in Feed!Matching(poll[c].since)'
               /\ Feed!Rank(q, poll[c].since)' >= From(c)'
    <2>1. q \in due[c] \ poll[c].plugins /\ q # p
      BY <1>2, <1>3
    <2>2. /\ poll[c].since \in Feed!Day
          /\ q \in Feed!Matching(poll[c].since)
          /\ Feed!Rank(q, poll[c].since) >= From(c)
      BY <1>3, <2>1 DEF FeedInv, PageInv
    <2> DEFINE since == poll[c].since
    <2>3. From(c)' = From(c) /\ since' = since
      BY <1>2 DEF From
    <2>4. From(c) \in Int
      BY FeedAssumption DEF From, FeedInv, Feed!FeedTypeOK, Feed!Poll
    <2>5. /\ q \in Feed!Matching(since)'
          /\ Feed!Rank(q, since) \in Nat /\ Feed!Rank(q, since)' \in Nat
          /\ Feed!Rank(q, since)' >= Feed!Rank(q, since)
      BY <2>1, <2>2, <2>3, PublishPushesBack
    <2>6. QED
      BY <2>2, <2>3, <2>4, <2>5
  <1>4. PageInv'
    BY <1>2, <1>3 DEF FeedInv, PageInv, Feed!Day
  <1>5. QED
    BY <1>1, <1>4 DEF FeedInv

-----------------------------------------------------------------------------
(* Steps that publish nothing: every query has the answer it had.          *)

LEMMA AnswersStay ==
    ASSUME UNCHANGED <<dated, ahead>>
    PROVE  /\ Feed!Published' = Feed!Published
           /\ \A since : Feed!Matching(since)' = Feed!Matching(since)
           /\ \A p, since : Feed!Rank(p, since)' = Feed!Rank(p, since)
           /\ OrderInv => OrderInv'
  BY DEF Feed!Published, Feed!Matching, Feed!Rank, OrderInv

LEMMA MidnightKeepsFeed ==
    ASSUME FeedInv, NEW missed \in SUBSET Plugin, Feed!Midnight(missed)
    PROVE  FeedInv'
  <1> USE FeedAssumption
  <1>1. /\ today < MaxDay /\ today' = today + 1 /\ exposed' = exposed \cup missed
        /\ UNCHANGED <<dated, ahead, cursor, poll, unread, due, started>>
    BY DEF Feed!Midnight
  <1>2. Feed!FeedTypeOK'
    BY <1>1 DEF FeedInv, Feed!FeedTypeOK, Feed!Day
  <1>3. OrderInv'
    BY <1>1, AnswersStay DEF FeedInv
  <1>4. PageInv'
    BY <1>1 DEF FeedInv, PageInv, From, Feed!Day, Feed!Published, Feed!Matching, Feed!Rank
  <1>5. CursorInv'
    BY <1>1, AnswersStay DEF FeedInv, CursorInv, Feed!FeedTypeOK, Feed!Day
  <1>6. QED
    BY <1>2, <1>3, <1>4, <1>5 DEF FeedInv

(* What a step of c's poll must do to keep the invariant: the other polls  *)
(* and what they are owed stay, and so do the feed and the cursor.         *)
LEMMA OnePollKeepsFeed ==
    ASSUME FeedInv, NEW c \in Engine, NEW mine \in Feed!Poll, NEW owed \in SUBSET Plugin,
           poll' = [poll EXCEPT ![c] = mine], due' = [due EXCEPT ![c] = owed],
           UNCHANGED <<today, dated, ahead, cursor, started, exposed>>,
           unread' \subseteq unread,
           mine.pc = "idle" => owed = {},
           mine.pc = "page" =>
               /\ mine.since \in Feed!Day /\ mine.page >= 1
               /\ \A p \in owed \ mine.plugins :
                      /\ p \in Feed!Matching(mine.since)
                      /\ Feed!Rank(p, mine.since) >= (mine.page - 1) * page_size,
           mine.pc = "polled" => owed \subseteq mine.plugins
    PROVE  FeedInv'
  <1>1. Feed!FeedTypeOK'
    BY DEF FeedInv, Feed!FeedTypeOK, Feed!Day, Feed!Poll
  <1>2. OrderInv' /\ CursorInv'
    BY AnswersStay DEF FeedInv, CursorInv
  <1>3. ASSUME NEW d \in Engine
        PROVE  /\ poll'[d].pc = "idle" => due'[d] = {}
               /\ poll'[d].pc = "page" =>
                      /\ poll'[d].since \in Feed!Day /\ poll'[d].page >= 1
                      /\ \A p \in due'[d] \ poll'[d].plugins :
                             /\ p \in Feed!Matching(poll'[d].since)
                             /\ Feed!Rank(p, poll'[d].since) >= (poll'[d].page - 1) * page_size
               /\ poll'[d].pc = "polled" => due'[d] \subseteq poll'[d].plugins
    <2>1. CASE d = c
      <3>1. poll'[d] = mine /\ due'[d] = owed
        BY <2>1 DEF FeedInv, Feed!FeedTypeOK
      <3>2. QED
        BY <3>1
    <2>2. CASE d # c
      <3>1. poll'[d] = poll[d] /\ due'[d] = due[d]
        BY <2>2 DEF FeedInv, Feed!FeedTypeOK
      <3>2. QED
        BY <3>1 DEF FeedInv, PageInv, From
    <2>3. QED
      BY <2>1, <2>2
  <1>4. PageInv'
    BY <1>3 DEF PageInv, From, Feed!Day, Feed!Matching, Feed!Published, Feed!Rank
  <1>5. QED
    BY <1>1, <1>2, <1>4 DEF FeedInv

(* All that is in the range of the poll is owed, from place 0 on.          *)
LEMMA BeginPollKeepsFeed ==
    ASSUME FeedInv, NEW c \in Engine, Feed!BeginPoll(c)
    PROVE  FeedInv'
  <1> USE FeedAssumption
  <1> DEFINE since == Feed!Since
             begun == [pc |-> "page", since |-> since, page |-> 1, plugins |-> {}]
             range == Feed!Matching(since)
  <1>1. /\ poll' = [poll EXCEPT ![c] = begun] /\ due' = [due EXCEPT ![c] = range]
        /\ UNCHANGED <<today, dated, ahead, cursor, started, exposed, unread>>
    BY DEF Feed!BeginPoll, Feed!feed
  <1>2. since \in Feed!Day
    BY DEF Feed!Since, FeedInv, Feed!FeedTypeOK, Feed!Day
  <1>3. begun \in Feed!Poll
    BY <1>2 DEF Feed!Poll
  <1>4. range \in SUBSET Plugin
    BY DEF Feed!Matching, Feed!Published
  <1>5. \A p \in range : Feed!Rank(p, since) >= (1 - 1) * page_size
    BY RankIsNat DEF FeedInv
  <1> HIDE DEF since, range
  <1>6. /\ begun.pc = "page" /\ begun.since \in Feed!Day /\ begun.page >= 1
        /\ \A p \in range \ begun.plugins :
               /\ p \in Feed!Matching(begun.since)
               /\ Feed!Rank(p, begun.since) >= (begun.page - 1) * page_size
    BY <1>2, <1>5 DEF range
  <1> HIDE DEF begun
  <1>7. QED
    BY <1>1, <1>3, <1>4, <1>6, OnePollKeepsFeed

(* What is owed beyond this page keeps the poll going, and is on a page to *)
(* come.                                                                   *)
LEMMA FetchPageKeepsFeed ==
    ASSUME FeedInv, NEW c \in Engine, Feed!FetchPage(c)
    PROVE  FeedInv'
  <1> USE FeedAssumption
  <1> DEFINE since == poll[c].since
             page == poll[c].page
             items == Feed!Page(since, page)
             read == poll[c].plugins \cup items
             mine == IF Feed!LastPage(items)
                     THEN [Feed!NoPoll EXCEPT !.pc = "polled", !.plugins = read]
                     ELSE [poll[c] EXCEPT !.page = page + 1, !.plugins = read]
             owed == due[c] \cup items
  <1>1. /\ poll[c].pc = "page"
        /\ poll' = [poll EXCEPT ![c] = mine] /\ due' = [due EXCEPT ![c] = owed]
        /\ UNCHANGED <<today, dated, ahead, cursor, started, exposed, unread>>
    BY DEF Feed!FetchPage, Feed!feed, FeedInv, Feed!FeedTypeOK
  <1>2. /\ poll[c] \in Feed!Poll /\ since \in Feed!Day /\ page \in Nat /\ page >= 1
        /\ poll[c].plugins \subseteq Plugin /\ due[c] \subseteq Plugin
        /\ \A p \in due[c] \ poll[c].plugins :
               p \in Feed!Matching(since) /\ Feed!Rank(p, since) >= (page - 1) * page_size
    BY <1>1 DEF FeedInv, Feed!FeedTypeOK, PageInv, From, Feed!Poll
  <1>3. items \subseteq Plugin
    BY DEF Feed!Page, Feed!Matching, Feed!Published
  <1>4. ASSUME NEW p \in owed, p \notin read
        PROVE  /\ p \in Feed!Matching(since)
               /\ Feed!Rank(p, since) >= (page - 1) * page_size + page_size
    <2>1. p \in Feed!Matching(since) /\ Feed!Rank(p, since) >= (page - 1) * page_size
      BY <1>2, <1>4
    <2>2. p \notin items
      BY <1>4
    <2>3. Feed!Rank(p, since) \in Nat /\ (page - 1) * page_size \in Int
      BY <1>2, RankIsNat DEF FeedInv
    <2>4. QED
      BY <2>1, <2>2, <2>3 DEF Feed!Page
  <1>5. CASE Feed!LastPage(items)
    <2>1. mine = [Feed!NoPoll EXCEPT !.pc = "polled", !.plugins = read]
      BY <1>5
    <2>2. owed \subseteq read
      BY <1>2, <1>4, <1>5, PollGoesOn DEF FeedInv
    <2>3. owed \in SUBSET Plugin /\ read \in SUBSET Plugin
      BY <1>2, <1>3
    <2> HIDE DEF mine, read, owed
    <2>4. mine \in Feed!Poll /\ mine.pc = "polled" /\ mine.plugins = read
      BY <2>1, <2>3 DEF Feed!NoPoll, Feed!Poll
    <2>5. QED
      BY <1>1, <2>2, <2>3, <2>4, OnePollKeepsFeed
  <1>6. CASE ~ Feed!LastPage(items)
    <2>1. mine = [poll[c] EXCEPT !.page = page + 1, !.plugins = read]
      BY <1>6
    <2>2. (page + 1 - 1) * page_size = (page - 1) * page_size + page_size
      BY <1>2
    <2>3. owed \in SUBSET Plugin /\ read \in SUBSET Plugin /\ page + 1 \in Nat
      BY <1>2, <1>3
    <2>4. \A p \in owed \ read :
              p \in Feed!Matching(since) /\ Feed!Rank(p, since) >= (page + 1 - 1) * page_size
      BY <1>4, <2>2
    <2> HIDE DEF mine, read, owed, items
    <2>5. /\ mine \in Feed!Poll /\ mine.pc = "page" /\ mine.plugins = read
          /\ mine.since = since /\ mine.page = page + 1
      BY <1>1, <1>2, <2>1, <2>3 DEF Feed!Poll
    <2> HIDE DEF since, page
    <2>6. mine.since \in Feed!Day /\ mine.page >= 1
      BY <1>2, <2>5
    <2>7. \A p \in owed \ mine.plugins :
              /\ p \in Feed!Matching(mine.since)
              /\ Feed!Rank(p, mine.since) >= (mine.page - 1) * page_size
      <3>1. (mine.page - 1) * page_size = (page + 1 - 1) * page_size
        <4>1. mine.page - 1 = page + 1 - 1
          BY <1>2, <2>5
        <4>2. QED
          BY <4>1, Zenon
      <3>2. QED
        BY <2>4, <2>5, <3>1
    <2>8. QED
      BY <1>1, <2>3, <2>5, <2>6, <2>7, OnePollKeepsFeed
  <1>7. QED
    BY <1>5, <1>6

LEMMA EndPollKeepsFeed ==
    ASSUME FeedInv, NEW c \in Engine, Feed!EndPoll(c), unread' \subseteq unread
    PROVE  FeedInv'
  <1>1. /\ poll' = [poll EXCEPT ![c] = Feed!NoPoll] /\ due' = [due EXCEPT ![c] = {}]
        /\ UNCHANGED <<today, dated, ahead, cursor, started, exposed>>
    BY DEF Feed!EndPoll, Feed!feed
  <1>2. Feed!NoPoll \in Feed!Poll /\ Feed!NoPoll.pc = "idle"
    BY DEF Feed!NoPoll, Feed!Poll
  <1>3. QED
    BY <1>1, <1>2, OnePollKeepsFeed

LEMMA SaveCursorKeepsFeed ==
    ASSUME FeedInv, Feed!SaveCursor
    PROVE  FeedInv'
  <1> USE FeedAssumption
  <1>1. /\ cursor' = today /\ started' = (IF started = NoDate THEN today ELSE started)
        /\ UNCHANGED <<today, dated, ahead, poll, unread, due, exposed>>
    BY DEF Feed!SaveCursor, Feed!feed
  <1>2. Feed!FeedTypeOK'
    BY <1>1 DEF FeedInv, Feed!FeedTypeOK, Feed!Day
  <1>3. OrderInv'
    BY <1>1, AnswersStay DEF FeedInv
  <1>4. PageInv'
    BY <1>1 DEF FeedInv, PageInv, From, Feed!Day, Feed!Published, Feed!Matching, Feed!Rank
  <1>5. CursorInv'
    BY <1>1, AnswersStay DEF FeedInv, CursorInv, Feed!FeedTypeOK, Feed!Day
  <1>6. QED
    BY <1>2, <1>3, <1>4, <1>5 DEF FeedInv

-----------------------------------------------------------------------------
(* Every step of the pipeline is a step of the feed and the polls, or      *)
(* leaves them alone.                                                      *)

LEMMA NotInCycleIsPlugins == FeedInv => NotInCycle \in SUBSET Plugin
  BY DEF FeedInv, Feed!FeedTypeOK, NotInCycle

LEMMA FeedUnchanged == FeedInv /\ UNCHANGED feedVars => FeedInv'
  <1> SUFFICES ASSUME FeedInv, UNCHANGED feedVars
               PROVE  FeedInv'
    OBVIOUS
  <1> USE DEF feedVars
  <1>1. Feed!FeedTypeOK'
    BY DEF FeedInv, Feed!FeedTypeOK, Feed!Day, Feed!Poll
  <1>2. OrderInv' /\ CursorInv'
    BY AnswersStay DEF FeedInv, CursorInv
  <1>3. PageInv'
    BY DEF FeedInv, PageInv, From, Feed!Day, Feed!Published, Feed!Matching, Feed!Rank
  <1>4. QED
    BY <1>1, <1>2, <1>3 DEF FeedInv

LEMMA FeedStep == FeedInv /\ [PipeNext]_pipeVars => FeedInv'
  <1> SUFFICES ASSUME FeedInv, [PipeNext]_pipeVars
               PROVE  FeedInv'
    OBVIOUS
  <1>1. ASSUME NEW p \in Plugin, Publish(p)
        PROVE  FeedInv'
    BY <1>1, PublishKeepsFeed DEF Publish
  <1>2. CASE Midnight
    BY <1>2, MidnightKeepsFeed, NotInCycleIsPlugins DEF Midnight
  <1>3. ASSUME NEW c \in Engine,
               \/ Feed!BeginPoll(c) \/ Feed!FetchPage(c)
               \/ Feed!DropPoll(c) \/ Feed!Deliver(c)
        PROVE  FeedInv'
    BY <1>3, BeginPollKeepsFeed, FetchPageKeepsFeed, EndPollKeepsFeed
    DEF Feed!DropPoll, Feed!Deliver
  <1>4. ASSUME NEW c \in Engine, StepOf(c)
        PROVE  FeedInv'
    BY <1>3, <1>4, FeedUnchanged DEF StepOf, FetchPage, PollKev, Correlate, Lookup
  <1>5. CASE LoopStep
    BY <1>3, <1>4, <1>5, FeedUnchanged, SaveCursorKeepsFeed, PipelineAssumption
    DEF LoopStep, BeginCycle, ReturnCycle, SaveCursor, ProposeScan, EndCycle
  <1>6. ASSUME NEW c \in Engine, FailOf(c) \/ ToolStep(c)
        PROVE  FeedInv'
    BY <1>3, <1>4, <1>6, FeedUnchanged
    DEF FailOf, ToolStep, FailPoll, FailCorrelation, BeginTool, ReturnList, ReturnTool
  <1>7. CASE FailCycle \/ (\E cve \in Cve : Exploit(cve)) \/ UNCHANGED pipeVars
    BY <1>7, FeedUnchanged DEF FailCycle, Exploit, pipeVars
  <1>8. QED
    BY <1>1, <1>2, <1>5, <1>6, <1>7 DEF PipeNext

-----------------------------------------------------------------------------
(* What may slip past the cursor.                                          *)

LEMMA PublishSlips ==
    ASSUME FeedInv, SlipInv, NEW p \in Plugin, Publish(p)
    PROVE  SlipInv'
  <1> USE FeedAssumption DEF FeedInv, Feed!FeedTypeOK, Feed!Day
  <1>1. PICK day \in (today - FeedLag)..today :
            /\ dated' = [dated EXCEPT ![p] = day]
            /\ exposed' = IF day < today THEN exposed \cup {p} ELSE exposed \ {p}
    BY DEF Publish, Feed!Publish
  <1>2. /\ unread' = unread \cup {p} /\ \A c \in Engine : due'[c] = due[c] \ {p}
        /\ UNCHANGED <<today, cursor, started, stage>>
    BY DEF Publish, Feed!Publish, cycle
  <1>3. ASSUME started # NoDate, NEW q \in unread' \ exposed', dated'[q] >= started
        PROVE  dated'[q] >= cursor /\ (InCycle => dated'[q] = today \/ q \in due'[Loop])
    <2>1. CASE q = p
      <3>1. dated'[q] = today
        BY <1>1, <1>3, <2>1
      <3>2. QED
        BY <1>3, <3>1 DEF CursorInv
    <2>2. CASE q # p
      <3>1. q \in unread \ exposed /\ dated'[q] = dated[q]
        BY <1>1, <1>2, <1>3, <2>2
      <3>2. QED
        BY <1>2, <1>3, <2>2, <3>1, PipelineAssumption DEF SlipInv
    <2>3. QED
      BY <2>1, <2>2
  <1>4. QED
    BY <1>2, <1>3 DEF SlipInv, InCycle

(* The updates of today that no poll of the cycle owes are exposed.        *)
LEMMA MidnightSlips ==
    ASSUME FeedInv, SlipInv, Midnight
    PROVE  SlipInv'
  <1>1. /\ exposed' = exposed \cup NotInCycle
        /\ UNCHANGED <<dated, cursor, unread, due, started, stage>>
    BY DEF Midnight, Feed!Midnight, cycle
  <1>2. ASSUME InCycle, NEW p \in unread, p \notin NotInCycle, dated[p] = today
        PROVE  p \in due[Loop]
    BY <1>2 DEF NotInCycle, InCycle
  <1>3. QED
    BY <1>1, <1>2 DEF SlipInv, InCycle

(* The loop's poll owes all that is unread in the range of the cursor.     *)
LEMMA BeginCycleSlips ==
    ASSUME FeedInv, SlipInv, BeginCycle
    PROVE  SlipInv'
  <1> USE FeedAssumption DEF FeedInv, Feed!FeedTypeOK
  <1>1. /\ due' = [due EXCEPT ![Loop] = Feed!Matching(Feed!Since)]
        /\ UNCHANGED <<dated, cursor, unread, started, exposed>>
    BY DEF BeginCycle, Feed!BeginPoll, Feed!feed
  <1>2. ASSUME started # NoDate, NEW p \in unread \ exposed, dated[p] >= started
        PROVE  dated[p] >= cursor /\ p \in due'[Loop]
    <2>1. dated[p] >= cursor
      BY <1>2 DEF SlipInv
    <2>2. Feed!Since = cursor /\ p \in Feed!Published
      BY <1>2 DEF CursorInv, Feed!Since
    <2>3. QED
      BY <1>1, <2>1, <2>2, PipelineAssumption DEF Feed!Matching
  <1>3. QED
    BY <1>1, <1>2 DEF SlipInv, InCycle

(* While a poll goes on, it owes what it owed and what it has read; a poll *)
(* that ends with nothing to show is a tool's, or the cycle ends with it.  *)
LEMMA PollingSlips ==
    ASSUME FeedInv, SlipInv, NEW c \in Engine,
           BeginTool(c) \/ FetchPage(c) \/ ReturnList(c) \/ FailPoll(c)
    PROVE  SlipInv'
  <1> USE PipelineAssumption DEF FeedInv, Feed!FeedTypeOK
  <1>1. UNCHANGED <<today, dated, cursor, unread, started, exposed>>
    BY DEF BeginTool, FetchPage, ReturnList, FailPoll, Feed!BeginPoll, Feed!FetchPage,
           Feed!DropPoll, Feed!EndPoll, Feed!feed
  <1>2. CASE FailPoll(c) /\ c = Loop
    BY <1>1, <1>2 DEF SlipInv, InCycle, FailPoll
  <1>3. CASE ~ (FailPoll(c) /\ c = Loop)
    <2>1. due[Loop] \subseteq due'[Loop]
      BY <1>3 DEF BeginTool, FetchPage, ReturnList, FailPoll, Feed!BeginPoll,
                  Feed!FetchPage, Feed!DropPoll, Feed!EndPoll
    <2>2. stage' = stage
      BY <1>3 DEF BeginTool, FetchPage, ReturnList, FailPoll, cycle
    <2>3. QED
      BY <1>1, <2>1, <2>2 DEF SlipInv, InCycle
  <1>4. QED
    BY <1>2, <1>3

(* What the loop's poll owed is in the store: what is unread is of today.  *)
LEMMA CorrelateSlips ==
    ASSUME FeedInv, SlipInv, NEW c \in Engine, NEW min \in MinCvss, Correlate(c, min)
    PROVE  SlipInv'
  <1> USE PipelineAssumption DEF FeedInv, Feed!FeedTypeOK
  <1>1. /\ UNCHANGED <<today, dated, cursor, started, exposed, stage>>
        /\ unread' = unread \ (due[c] \cap poll[c].plugins)
        /\ due' = [due EXCEPT ![c] = {}]
    BY DEF Correlate, Feed!Deliver, Feed!EndPoll, Feed!feed, cycle
  <1>2. due[c] \subseteq poll[c].plugins
    BY DEF Correlate, PageInv
  <1>3. \A p \in unread' : p \in due[Loop] => p \in due'[Loop]
    BY <1>1, <1>2
  <1>4. QED
    BY <1>1, <1>3 DEF SlipInv, InCycle

(* The poll has ended, so all that is unread in the range is of today.     *)
LEMMA SaveCursorSlips ==
    ASSUME IInv, FeedInv, SlipInv, SaveCursor
    PROVE  SlipInv'
  <1> USE PipelineAssumption, FeedAssumption DEF FeedInv, Feed!FeedTypeOK, Feed!Day
  <1>1. /\ stage = "save_cursor" /\ stage' = "propose" /\ cursor' = today
        /\ started' = (IF started = NoDate THEN today ELSE started)
        /\ UNCHANGED <<today, dated, unread, exposed>>
    BY DEF SaveCursor, Feed!SaveCursor, Feed!feed
  <1>2. due[Loop] = {}
    BY <1>1 DEF IInv, LoopInv, PageInv, PollsInv, Feed!Poll
  <1>3. ASSUME NEW p \in unread \ exposed, dated[p] >= started'
        PROVE  dated[p] >= today
    <2>1. CASE started = NoDate
      BY <1>1, <1>3, <2>1
    <2>2. CASE started # NoDate
      BY <1>1, <1>2, <1>3, <2>2 DEF SlipInv, InCycle
    <2>3. QED
      BY <2>1, <2>2
  <1>4. QED
    BY <1>1, <1>3 DEF SlipInv, InCycle

(* A step away from the feed: a cycle that was not on its way to the       *)
(* cursor is not put on it.                                                *)
LEMMA AwaySlips ==
    ASSUME SlipInv, UNCHANGED feedVars, InCycle' => InCycle
    PROVE  SlipInv'
  BY DEF SlipInv, feedVars

LEMMA SlipStep == IInv /\ FeedInv /\ SlipInv /\ [PipeNext]_pipeVars => SlipInv'
  <1> SUFFICES ASSUME IInv, FeedInv, SlipInv, [PipeNext]_pipeVars
               PROVE  SlipInv'
    OBVIOUS
  <1>1. CASE \E p \in Plugin : Publish(p)
    BY <1>1, PublishSlips
  <1>2. CASE Midnight
    BY <1>2, MidnightSlips
  <1>3. ASSUME NEW c \in Engine, StepOf(c)
        PROVE  SlipInv'
    <2>1. CASE FetchPage(c) \/ \E min \in MinCvss : Correlate(c, min)
      BY <2>1, PollingSlips, CorrelateSlips
    <2>2. CASE PollKev(c) \/ Lookup(c)
      BY <2>2, AwaySlips DEF PollKev, Lookup, cycle, InCycle
    <2>3. QED
      BY <1>3, <2>1, <2>2 DEF StepOf
  <1>4. CASE LoopStep
    <2>1. CASE BeginCycle
      BY <2>1, BeginCycleSlips
    <2>2. CASE ReturnCycle
      <3>1. pc[Loop] # "idle" /\ UNCHANGED feedVars
        BY <2>2 DEF ReturnCycle, Return
      <3>2. QED
        BY <3>1, AwaySlips DEF IInv, LoopInv, InCycle
    <2>3. CASE SaveCursor
      BY <2>3, SaveCursorSlips
    <2>4. CASE ProposeScan \/ EndCycle
      BY <2>4, AwaySlips DEF ProposeScan, EndCycle, InCycle
    <2>5. QED
      BY <1>3, <1>4, <2>1, <2>2, <2>3, <2>4, PipelineAssumption DEF LoopStep
  <1>5. ASSUME NEW c \in Engine, FailOf(c) \/ ToolStep(c)
        PROVE  SlipInv'
    <2>1. CASE BeginTool(c) \/ ReturnList(c) \/ FailPoll(c)
      BY <2>1, PollingSlips
    <2>2. CASE ReturnTool(c) \/ FailCorrelation(c)
      BY <2>2, AwaySlips DEF ReturnTool, FailCorrelation, cycle, InCycle
    <2>3. QED
      BY <1>3, <1>5, <2>1, <2>2 DEF FailOf, ToolStep
  <1>6. CASE FailCycle \/ (\E cve \in Cve : Exploit(cve)) \/ UNCHANGED pipeVars
    BY <1>6, AwaySlips DEF FailCycle, Exploit, pipeVars, cycle, InCycle
  <1>7. QED
    BY <1>1, <1>2, <1>4, <1>5, <1>6 DEF PipeNext

LEMMA KeysStep == IInv /\ KeysInv /\ [PipeNext]_pipeVars => KeysInv'
  <1> SUFFICES ASSUME IInv, KeysInv, [PipeNext]_pipeVars
               PROVE  KeysInv'
    OBVIOUS
  <1>1. \A m \in Match : KeyOf(m) \in Key
    BY DEF KeyOf, Key, Match
  <1>2. CASE ProposeScan
    BY <1>1, <1>2 DEF ProposeScan, KeysInv, IInv, ListsInv, tools
  <1>3. ASSUME NEW c \in Engine, ReturnTool(c)
        PROVE  KeysInv'
    BY <1>1, <1>3 DEF ReturnTool, KeysInv, KeysOf, IInv, CoreInv, TypeOK, cycle
  <1>4. CASE ReturnCycle
    BY <1>1, <1>4, PipelineAssumption
    DEF ReturnCycle, KeysInv, KeysOf, IInv, CoreInv, TypeOK, tools
  <1>5. ASSUME NEW c \in Engine, BeginTool(c)
        PROVE  KeysInv'
    BY <1>5, PipelineAssumption DEF BeginTool, KeysInv, cycle
  <1>6. CASE UNCHANGED <<proposed, dismissed, tools>>
    BY <1>6 DEF KeysInv, tools
  <1>7. ASSUME NEW c \in Engine, StepOf(c) \/ FailOf(c) \/ ReturnList(c)
        PROVE  UNCHANGED <<proposed, dismissed, tools>>
    BY <1>7 DEF StepOf, FetchPage, PollKev, Correlate, Lookup, FailOf, FailPoll,
                FailCorrelation, ReturnList, cycle
  <1>8. CASE LoopStep
    BY <1>2, <1>4, <1>6, <1>7, <1>8, PipelineAssumption
    DEF LoopStep, BeginCycle, SaveCursor, EndCycle
  <1>9. ASSUME NEW c \in Engine, FailOf(c) \/ ToolStep(c)
        PROVE  KeysInv'
    BY <1>3, <1>5, <1>6, <1>7, <1>9 DEF ToolStep
  <1>10. CASE \/ \E p \in Plugin : Publish(p)
              \/ \E cve \in Cve : Exploit(cve)
              \/ Midnight \/ FailCycle \/ UNCHANGED pipeVars
    BY <1>6, <1>10 DEF Publish, Exploit, Midnight, FailCycle, pipeVars, cycle
  <1>11. QED
    BY <1>8, <1>9, <1>10 DEF PipeNext

-----------------------------------------------------------------------------
LEMMA FeedInitHolds == PipeInit => SlipIInv
  <1> SUFFICES ASSUME PipeInit
               PROVE  SlipIInv
    OBVIOUS
  <1> USE FeedAssumption DEF PipeInit, Feed!FeedInit
  <1>1. Feed!FeedTypeOK
    BY DEF Feed!FeedTypeOK, Feed!Poll, Feed!NoPoll, Feed!Day
  <1>2. Feed!Published = {}
    BY DEF Feed!Published
  <1>3. OrderInv
    BY <1>2, FS_EmptySet DEF OrderInv
  <1>4. PageInv
    BY DEF PageInv, Feed!NoPoll
  <1>5. CursorInv /\ SlipInv /\ KeysInv
    BY PipelineAssumption DEF CursorInv, SlipInv, KeysInv
  <1>6. QED
    BY <1>1, <1>3, <1>4, <1>5, InitHolds DEF SlipIInv, FeedInv

LEMMA SlipIInvStep == SlipIInv /\ [PipeNext]_pipeVars => SlipIInv'
  BY PipeStep, FeedStep, SlipStep, KeysStep DEF SlipIInv

LEMMA SlipIInvHolds == PipeSpec => []SlipIInv
  BY FeedInitHolds, SlipIInvStep, PTL DEF PipeSpec

(* The variables of the whole pipeline keep their types, the loop sleeps   *)
(* with no call of its own under way, and matches wait only for a cycle    *)
(* that is proposing.                                                      *)
THEOREM PipelineTypes == PipeSpec => []PipeTypeOK
  <1>1. SlipIInv => PipeTypeOK
    BY DEF SlipIInv, IInv, CoreInv, LoopInv, ListsInv, FeedInv, KeysInv, PipeTypeOK
  <1>2. QED
    BY <1>1, SlipIInvHolds, PTL

(* However the feed changes between two pages, a poll that has ended has   *)
(* read every plugin that was in its range and has not been updated since. *)
THEOREM PollsAreComplete == PipeSpec => []PollComplete
  <1>1. SlipIInv => PollComplete
    BY DEF SlipIInv, FeedInv, PageInv, PollComplete
  <1>2. QED
    BY <1>1, SlipIInvHolds, PTL

(* Whatever fails and whenever midnight comes, the cursor leaves no update *)
(* behind but those that were dated before the host's day or published in  *)
(* a cycle whose cursor is of a later day.                                 *)
THEOREM NothingSlipsPastCursor == PipeSpec => []NothingSlips
  <1>1. SlipIInv => NothingSlips
    BY DEF SlipIInv, SlipInv, NothingSlips
  <1>2. QED
    BY <1>1, SlipIInvHolds, PTL

-----------------------------------------------------------------------------
NothingExposed == exposed = {}

(* NothingSlips without its exceptions.                                    *)
NoUpdateBehind ==
    started # NoDate =>
        \A p \in unread : dated[p] >= started => dated[p] >= cursor

(* With the host and the feed in one calendar and no cycle over midnight,  *)
(* there are no such updates, and the cursor leaves none behind at all.    *)
THEOREM NothingSlipsWithinADay ==
    ASSUME FeedLag = 0, MidnightInCycle = FALSE
    PROVE  PipeSpec => []NoUpdateBehind
  <1>1. PipeInit => NothingExposed
    BY DEF PipeInit, Feed!FeedInit, NothingExposed
  <1>2. SlipIInv /\ NothingExposed /\ [PipeNext]_pipeVars => NothingExposed'
    <2> SUFFICES ASSUME SlipIInv, exposed = {}, [PipeNext]_pipeVars
                 PROVE  exposed' = {}
      BY DEF NothingExposed
    <2>1. ASSUME NEW p \in Plugin, Publish(p)
          PROVE  exposed' = {}
      <3>1. today \in Int
        BY DEF SlipIInv, FeedInv, Feed!FeedTypeOK
      <3>2. PICK day \in (today - FeedLag)..today :
                exposed' = IF day < today THEN exposed \cup {p} ELSE exposed \ {p}
        BY <2>1 DEF Publish, Feed!Publish
      <3>3. ~ day < today
        BY <3>1, <3>2
      <3>4. QED
        BY <3>2, <3>3
    <2>2. CASE Midnight
      BY <2>2 DEF Midnight, Feed!Midnight, NotInCycle
    <2>3. CASE /\ PipeNext
               /\ ~ Midnight /\ ~ \E p \in Plugin : Publish(p)
      BY <2>3
      DEF PipeNext, Exploit, LoopStep, BeginCycle, StepOf, FetchPage, PollKev,
          Correlate, Lookup, ReturnCycle, SaveCursor, ProposeScan, EndCycle,
          FailCycle, FailOf, FailPoll, FailCorrelation, ToolStep, BeginTool,
          ReturnList, ReturnTool, feedVars, Feed!BeginPoll, Feed!FetchPage,
          Feed!Deliver, Feed!DropPoll, Feed!EndPoll, Feed!SaveCursor
    <2>4. CASE UNCHANGED pipeVars
      BY <2>4 DEF pipeVars, feedVars
    <2>5. QED
      BY <2>1, <2>2, <2>3, <2>4
  <1>3. NothingSlips /\ NothingExposed => NoUpdateBehind
    BY DEF NothingSlips, NothingExposed, NoUpdateBehind
  <1>4. QED
    BY <1>1, <1>2, <1>3, NothingSlipsPastCursor, SlipIInvHolds, PTL DEF PipeSpec
===============================================================================
