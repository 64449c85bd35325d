------------------------------- MODULE PluginFeed -------------------------------
(***************************************************************************)
(* PluginWatcher.poll (feeds/plugin_watcher.py) against a plugin feed that *)
(* goes on changing, and the date cursor that tells the next poll where to *)
(* begin (state.py, scheduler.py).                                         *)
(*                                                                         *)
(* The feed is Tenable's.  A query names a date and a page; the answer is  *)
(* that page of the plugins created or updated on or after the date, the   *)
(* newest update first.  Every page is a request of its own, and plugins   *)
(* are published and updated between two of them.                          *)
(***************************************************************************)
EXTENDS Integers, FiniteSets

CONSTANTS
    Caller,            \* the loop and the MCP tool calls
    Plugin,
    page_size,
    NoDate,            \* no row in the cursors table; a plugin not yet published
    FeedLag,           \* days the feed's calendar may be behind date.today()
    MidnightInCycle,   \* TRUE: the date may change while a poll is on its way
    MaxDay             \* bound: the last day

Day == (-FeedLag)..MaxDay

VARIABLES
    today,     \* date.today()
    dated,     \* plugin -> the date the feed gives for its last update
    ahead,     \* plugin -> the plugins updated after it: the feed lists them first
    cursor,    \* table cursors: the row of PLUGIN_CURSOR_KEY
    poll,      \* the poll of each caller
    unread,    \* history: plugins whose last update no poll has delivered
    due,       \* history: what a poll owes its caller, and is unchanged since
    started,   \* history: the day of the first cycle that saved the cursor
    exposed    \* history: plugins whose last update the cursor may overtake

feed == <<today, dated, ahead>>

\* The locals of poll(): since, page and plugins.
Poll ==
    [pc : {"idle", "page", "polled"}, since : Day \cup {NoDate}, page : Nat,
     plugins : SUBSET Plugin]

NoPoll == [pc |-> "idle", since |-> NoDate, page |-> 0, plugins |-> {}]

FeedTypeOK ==
    /\ today \in 0..MaxDay
    /\ dated \in [Plugin -> Day \cup {NoDate}]
    /\ ahead \in [Plugin -> SUBSET Plugin]
    /\ cursor \in Day \cup {NoDate}
    /\ poll \in [Caller -> Poll]
    /\ unread \subseteq Plugin
    /\ due \in [Caller -> SUBSET Plugin]
    /\ started \in Day \cup {NoDate}
    /\ exposed \subseteq Plugin

FeedInit ==
    /\ today = 0
    /\ dated = [p \in Plugin |-> NoDate]
    /\ ahead = [p \in Plugin |-> {}]
    /\ cursor = NoDate
    /\ poll = [c \in Caller |-> NoPoll]
    /\ unread = {}
    /\ due = [c \in Caller |-> {}]
    /\ started = NoDate
    /\ exposed = {}

-----------------------------------------------------------------------------
(* The feed.                                                               *)

Published == {p \in Plugin : dated[p] # NoDate}

\* Tenable publishes a plugin, or updates it.  Bound: once a day.
Publish(p) ==
    /\ \E day \in (today - FeedLag)..today :
        /\ dated[p] # NoDate => dated[p] < day
        /\ dated' = [dated EXCEPT ![p] = day]
        /\ exposed' = IF day < today THEN exposed \cup {p} ELSE exposed \ {p}
    /\ ahead' = [q \in Plugin |->
                    IF q \in Published \ {p} THEN ahead[q] \cup {p} ELSE {}]
    /\ unread' = unread \cup {p}
    /\ due' = [c \in Caller |-> due[c] \ {p}]
    /\ UNCHANGED <<today, cursor, poll, started>>

\* The date changes.  "missed" are the updates of that day that a cycle under
\* way will not deliver, though the cursor it saves is the next day's.
Midnight(missed) ==
    /\ today < MaxDay
    /\ MidnightInCycle \/ \A c \in Caller : poll[c].pc = "idle"
    /\ today' = today + 1
    /\ exposed' = exposed \cup missed
    /\ UNCHANGED <<dated, ahead, cursor, poll, unread, due, started>>

\* The plugins of a query.
Matching(since) == {p \in Published : dated[p] >= since}

\* How many plugins the answer has before this one.
Rank(p, since) == Cardinality(ahead[p] \cap Matching(since))

\* The items on one page of the answer, fewer than page_size on the last one.
Page(since, page) ==
    LET from == (page - 1) * page_size
    IN  {p \in Matching(since) : from <= Rank(p, since) /\ Rank(p, since) < from + page_size}

-----------------------------------------------------------------------------
(* PluginWatcher.poll                                                      *)

\* Mutant: the day after the cursor is the first one asked for.
SinceAfterCursor == IF cursor = NoDate THEN today ELSE cursor + 1

\* "since or date.today()": with no cursor, today's changes only.
Since == IF cursor = NoDate THEN today ELSE cursor

BeginPoll(c) ==
    /\ poll[c].pc = "idle"
    /\ poll' = [poll EXCEPT ![c] =
                   [pc |-> "page", since |-> Since, page |-> 1, plugins |-> {}]]
    /\ due' = [due EXCEPT ![c] = Matching(Since)]
    /\ UNCHANGED <<feed, cursor, unread, started, exposed>>

\* Mutant: one page is enough when it is not overfull.
NoMorePages(items) == Cardinality(items) <= page_size

\* A page that is not full, or has no items at all, is the last one.
LastPage(items) == Cardinality(items) < page_size

FetchPage(c) ==
    LET items == Page(poll[c].since, poll[c].page)
        read == poll[c].plugins \cup items
    IN  /\ poll[c].pc = "page"
        /\ poll' = [poll EXCEPT ![c] =
               IF LastPage(items)
               THEN [NoPoll EXCEPT !.pc = "polled", !.plugins = read]
               ELSE [@ EXCEPT !.page = poll[c].page + 1, !.plugins = read]]
        /\ due' = [due EXCEPT ![c] = @ \cup items]
        /\ UNCHANGED <<feed, cursor, unread, started, exposed>>

\* The poll is over: it raised (resp.raise_for_status), or what it returned
\* has been used.
EndPoll(c) ==
    /\ poll' = [poll EXCEPT ![c] = NoPoll]
    /\ due' = [due EXCEPT ![c] = {}]
    /\ UNCHANGED <<feed, cursor, started, exposed>>

DropPoll(c) == EndPoll(c) /\ UNCHANGED unread

\* The plugins of the poll reach the store, in the version they were fetched.
Deliver(c) ==
    /\ EndPoll(c)
    /\ unread' = unread \ (due[c] \cap poll[c].plugins)

\* set_cursor(PLUGIN_CURSOR_KEY, date.today().isoformat())
SaveCursor ==
    /\ cursor' = today
    /\ started' = IF started = NoDate THEN today ELSE started
    /\ UNCHANGED <<feed, poll, unread, due, exposed>>
===============================================================================
