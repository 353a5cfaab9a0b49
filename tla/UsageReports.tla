------------------------------ MODULE UsageReports ------------------------------
(* The usage page of a hub: its list and its summary of an organization's usage are *)
(* read from the hub's usage_events and completed with the reports of each regional *)
(* control plane, pulled while the page waits and not kept. Events go on arriving   *)
(* everywhere meanwhile. An event is its place in the order of created_at.          *)
EXTENDS Integers, FiniteSets, Sequences, SequencesExt

CONSTANTS Peers,        \* federation peers, each with the usage_events of its region: one peer
                        \* for a region, for two would report the same events twice
          Models,       \* what an event may be filtered by; also the buckets of a summary
          ListMax, ListDefault,  \* limits of a list: at most (200), and without one (50)
          ReportMax,    \* limit of a report: at most, and what the hub asks for (500)
          Window,       \* how far back a summary by day goes when no range is given (30 days)
          Limits,       \* limits a page asks for
          MaxEvents     \* bound: events

Hub == "hub"
AnyModel == "any"

VARIABLES events,    \* events[t]: where it is stored and its model
          query      \* the page's request and the locals of its handler

vars == <<events, query>>

NoQuery == [step |-> "idle"]
Init == events = <<>> /\ query = NoQuery

Now == Len(events)
At(source) == {t \in 1..Now : events[t].source = source}

\* UsageSink.InsertUsage, on the hub or in a region.
InsertRecord == /\ Now < MaxEvents
                /\ \E s \in {Hub} \cup Peers, m \in Models : events' = Append(events, [source |-> s, model |-> m])
                /\ UNCHANGED query

-----------------------------------------------------------------------------
(* What the stores answer *)

\* The k-th is the one with k - 1 before it.
NewestFirst(S) == [k \in 1..Cardinality(S) |-> CHOOSE t \in S : Cardinality({u \in S : u > t}) = k - 1]
Cut(s, k) == SubSeq(s, 1, IF k < Len(s) THEN k ELSE Len(s))

usageWhere(t) == t >= query.from /\ (query.model = AnyModel \/ events[t].model = query.model)

\* UsageQueries.List.
List == LET limit == IF query.limit \in 1..ListMax THEN query.limit ELSE ListDefault
        IN Cut(NewestFirst({t \in At(Hub) : usageWhere(t)}), limit)

\* UsageQueries.Summarize counts the rows; by day and without a range only the newest.
Summarize == LET from == IF query.byDay /\ query.from = 0 THEN Now - Window ELSE 0
                 counted == {t \in At(Hub) : usageWhere(t) /\ t > from}
             IN [m \in Models |-> Cardinality({t \in counted : events[t].model = m})]

\* UsageQueries.ListReportsSince: the newest of the organization, whatever else the page
\* filters by.
ListReportsSince(p) == Cut(NewestFirst({t \in At(p) : t >= query.from}), ReportMax)

-----------------------------------------------------------------------------
(* handleListUsage and handleUsageSummary *)

parseUsageFilter(op, byDay, limit, model, from) ==
  [step |-> "local", op |-> op, byDay |-> byDay, limit |-> limit, model |-> model, from |-> from,
   left |-> {}, rows |-> <<>>, buckets |-> [b \in Models |-> 0], remote |-> <<>>, answered |-> {}, began |-> Now]

\* A list has a limit, a summary groups by day or by something else.
Ask == /\ query.step = "idle"
       /\ \E model \in Models \cup {AnyModel}, from \in {0, 2} :
            \/ \E limit \in Limits : query' = parseUsageFilter("list", FALSE, limit, model, from)
            \/ \E byDay \in BOOLEAN : query' = parseUsageFilter("summary", byDay, 0, model, from)
       /\ UNCHANGED events

\* A read that fails ends the request with 500.
ReadLocal ==
  /\ query.step = "local"
  /\ \/ query' = NoQuery
     \/ query.op = "list" /\ query' = [query EXCEPT !.step = "peers", !.rows = List]
     \/ query.op = "summary" /\ query' = [query EXCEPT !.step = "peers", !.buckets = Summarize]
  /\ UNCHANGED events

\* The peers are listed once, and those that are enabled kept; if they cannot be, there
\* are none.
ListPeers ==
  /\ query.step = "peers"
  /\ query' \in {[query EXCEPT !.step = "pull", !.left = S] : S \in SUBSET Peers}
  /\ UNCHANGED events

\* usageMatchesFilter: the same, over what a peer has sent.
usageMatchesFilter(t) == t >= query.from /\ query.model \in {AnyModel, events[t].model}

\* One peer at a time. One without an address or a token, or whose answer fails, is passed
\* over in silence.
Pull(p) ==
  /\ query.step = "pull" /\ p \in query.left
  /\ \/ query' = [query EXCEPT !.left = @ \ {p}]
     \/ query' = [query EXCEPT !.left = @ \ {p}, !.answered = @ \cup {p},
                               !.remote = @ \o NewestFirst({t \in ToSet(ListReportsSince(p)) : usageMatchesFilter(t)})]
  /\ UNCHANGED events

\* Mutant for ListNewest: the rows of the hub come first.
MergeInTurn(rows, remote) == Cut(rows \o remote, IF query.limit <= 0 THEN ListDefault ELSE query.limit)

\* A row that is there twice stays there twice.
Descending(s) ==
  LET Before(j, i) == s[j] > s[i] \/ (s[j] = s[i] /\ j < i)
  IN [k \in DOMAIN s |-> s[CHOOSE i \in DOMAIN s : Cardinality({j \in DOMAIN s : Before(j, i)}) = k - 1]]

mergeUsageEvents(rows, remote) ==
  Cut(Descending(rows \o remote), IF query.limit <= 0 THEN ListDefault ELSE query.limit)

summarizeUsageRecords(rows) ==
  [m \in Models |-> Cardinality({i \in 1..Len(rows) : events[rows[i]].model = m})]

mergeUsageSummary(a, b) == [m \in Models |-> a[m] + b[m]]

\* Without remote rows the local answer is sent as it is.
Answer ==
  /\ query.step = "pull" /\ query.left = {}
  /\ query' = [query EXCEPT !.step = "done",
                 !.rows = IF query.op = "list" /\ query.remote # <<>> THEN mergeUsageEvents(@, query.remote) ELSE @,
                 !.buckets = IF query.op = "summary"
                             THEN mergeUsageSummary(@, summarizeUsageRecords(query.remote)) ELSE @]
  /\ UNCHANGED events

Next == \/ InsertRecord \/ Ask \/ ReadLocal \/ ListPeers \/ Answer
        \/ \E p \in Peers : Pull(p)
Spec == Init /\ [][Next]_vars

-----------------------------------------------------------------------------
Wanted(t) == query.from <= t /\ (query.model # AnyModel => query.model = events[t].model)

\* What the page was to show: the events there were when it was asked for, on the hub and
\* in the regions that answered.
Due == {t \in 1..query.began : events[t].source \in {Hub} \cup query.answered /\ Wanted(t)}

\* A region reports no more than its ReportMax newest events, filtered afterwards.
Reported(t) == events[t].source = Hub \/ Cardinality({u \in At(events[t].source) : u > t}) < ReportMax

\* A list is in order and has nothing twice, and an event it leaves out (of those reported)
\* is older than a whole page of others, however events arrive while the regions are asked.
\* (A page asked for with more than ListMax rows is a page of ListDefault.)
ListNewest ==
  query.step = "done" /\ query.op = "list" =>
    LET page == IF query.limit \in 1..ListMax THEN query.limit ELSE ListDefault
        shown == ToSet(query.rows)
    IN /\ \A i \in 1..Len(query.rows) - 1 : query.rows[i] > query.rows[i + 1]
       /\ \A t \in Due : t \in shown \/ ~Reported(t) \/ Cardinality({u \in shown : u > t}) >= page
=============================================================================
