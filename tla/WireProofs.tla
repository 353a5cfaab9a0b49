------------------------------- MODULE WireProofs -------------------------------
(***************************************************************************)
(* Proofs about the streams of Streams, as MCWire runs them, for any       *)
(* backends and plugins, any of the gateway's dialects, any channel        *)
(* capacity and any length of stream.                                      *)
(*                                                                         *)
(* First what concatenation does to the events in flight, then the shape   *)
(* of what a parser makes of a chunk, then the pipeline's steps (PipeInv). *)
(* After them the order of the events, the frames each writer adds, and    *)
(* the steps once more for what relates the two (NestInv). Last come the   *)
(* numbers of the pieces and of the calls: what has been shown, what is in *)
(* flight and what the wire carries follow on from one another, so nothing *)
(* is left out and nothing comes twice (LossInv).                          *)
(***************************************************************************)
EXTENDS MCWire, FiniteSetTheorems, TLAPS

-----------------------------------------------------------------------------
(* Sequences *)

IsSeq(s) == \E any : s \in Seq(any)
Of(s) == {s[i] : i \in DOMAIN s}

\* The empty sequence and a sequence of one.
LEMMA Short ==
  /\ IsSeq(<<>>) /\ Of(<<>>) = {} /\ Len(<<>>) = 0 /\ DOMAIN <<>> = {}
  /\ \A x : /\ IsSeq(<<x>>) /\ Of(<<x>>) = {x} /\ Len(<<x>>) = 1 /\ DOMAIN <<x>> = {1}
            /\ <<x>>[1] = x /\ <<x>> # <<>>
<1>1. IsSeq(<<>>) /\ Of(<<>>) = {} /\ Len(<<>>) = 0 /\ DOMAIN <<>> = {}
  <2>1. <<>> \in Seq({})
    OBVIOUS
  <2> QED
    BY <2>1 DEF IsSeq, Of
<1>2. ASSUME NEW x
      PROVE  /\ IsSeq(<<x>>) /\ Of(<<x>>) = {x} /\ Len(<<x>>) = 1 /\ DOMAIN <<x>> = {1}
             /\ <<x>>[1] = x /\ <<x>> # <<>>
  <2>1. <<x>> \in Seq({x})
    OBVIOUS
  <2>2. Len(<<x>>) = 1 /\ DOMAIN <<x>> = {1} /\ <<x>>[1] = x
    OBVIOUS
  <2>3. Of(<<x>>) = {x}
    BY <2>2 DEF Of
  <2>4. <<x>> # <<>>
    OBVIOUS
  <2> QED
    BY <2>1, <2>2, <2>3, <2>4 DEF IsSeq
<1> QED
  BY <1>1, <1>2

\* What is in a concatenation, and where.
LEMMA Joined ==
  ASSUME NEW s, NEW t, IsSeq(s), IsSeq(t)
  PROVE  /\ IsSeq(s \o t) /\ Of(s \o t) = Of(s) \cup Of(t)
         /\ Len(s) \in Nat /\ Len(t) \in Nat /\ Len(s \o t) = Len(s) + Len(t)
         /\ DOMAIN (s \o t) = 1..(Len(s) + Len(t)) /\ DOMAIN s = 1..Len(s) /\ DOMAIN t = 1..Len(t)
         /\ \A i \in 1..Len(s) : (s \o t)[i] = s[i]
         /\ \A i \in 1..Len(t) : (s \o t)[Len(s) + i] = t[i]
<1>1. PICK one : s \in Seq(one)
  BY DEF IsSeq
<1>2. PICK two : t \in Seq(two)
  BY DEF IsSeq
<1> DEFINE any == one \cup two
<1>3. s \in Seq(any) /\ t \in Seq(any)
  BY <1>1, <1>2
<1> HIDE DEF any
<1>4. s \o t \in Seq(any) /\ Len(s \o t) = Len(s) + Len(t) /\ Len(s) \in Nat /\ Len(t) \in Nat
  BY <1>3
<1>5. DOMAIN (s \o t) = 1..(Len(s) + Len(t)) /\ DOMAIN s = 1..Len(s) /\ DOMAIN t = 1..Len(t)
  BY <1>3, <1>4
<1>6. \A i \in 1..Len(s) : (s \o t)[i] = s[i]
  BY <1>3
<1>7. \A i \in 1..Len(t) : (s \o t)[Len(s) + i] = t[i]
  BY <1>3
<1>8. Of(s \o t) = Of(s) \cup Of(t)
  <2> DEFINE u == s \o t
             m == Len(s)
             n == Len(t)
  <2>1. /\ DOMAIN u = 1..(m + n) /\ DOMAIN s = 1..m /\ DOMAIN t = 1..n
        /\ \A i \in 1..m : u[i] = s[i]
        /\ \A i \in 1..n : u[m + i] = t[i]
        /\ m \in Nat /\ n \in Nat
    BY <1>4, <1>5, <1>6, <1>7
  <2> HIDE DEF u, m, n
  <2>2. \A i \in 1..(m + n) : i \in 1..m \/ (i - m \in 1..n /\ i = m + (i - m))
    BY <2>1
  <2>3. \A i \in DOMAIN u : u[i] \in Of(s) \cup Of(t)
    BY <2>1, <2>2 DEF Of
  <2>4. \A i \in DOMAIN s : s[i] \in Of(u)
    BY <2>1 DEF Of
  <2>5. \A i \in DOMAIN t : t[i] \in Of(u)
    <3> TAKE i \in DOMAIN t
    <3>1. i \in 1..n
      BY <2>1
    <3>2. m + i \in 1..(m + n)
      BY <3>1, <2>1
    <3> QED
      BY <3>1, <3>2, <2>1 DEF Of
  <2>6. Of(u) = Of(s) \cup Of(t)
    BY <2>3, <2>4, <2>5 DEF Of
  <2> QED
    BY <2>6 DEF u
<1> QED
  BY <1>3, <1>4, <1>5, <1>6, <1>7, <1>8 DEF IsSeq

LEMMA Joining ==
  ASSUME NEW s, IsSeq(s)
  PROVE  s \o <<>> = s /\ <<>> \o s = s
<1>1. PICK any : s \in Seq(any)
  BY DEF IsSeq
<1> QED
  BY <1>1

LEMMA Longer ==
  ASSUME NEW s, NEW x, IsSeq(s)
  PROVE  Append(s, x) = s \o <<x>>
<1>1. PICK any : s \in Seq(any)
  BY DEF IsSeq
<1> DEFINE more == any \cup {x}
<1>2. s \in Seq(more) /\ x \in more
  BY <1>1
<1> HIDE DEF more
<1> QED
  BY <1>2

LEMMA Parted ==
  ASSUME NEW s, IsSeq(s), s # <<>>
  PROVE  /\ s = <<Head(s)>> \o Tail(s) /\ IsSeq(Tail(s))
         /\ Of(s) = {Head(s)} \cup Of(Tail(s))
         /\ Len(s) = 1 + Len(Tail(s))
<1>1. PICK any : s \in Seq(any)
  BY DEF IsSeq
<1>2. s = <<Head(s)>> \o Tail(s) /\ Tail(s) \in Seq(any)
  BY <1>1
<1>3. IsSeq(Tail(s)) /\ IsSeq(<<Head(s)>>)
  BY <1>2, Short DEF IsSeq
<1> DEFINE h == <<Head(s)>>
           t == Tail(s)
<1>4. Of(h) = {Head(s)} /\ Len(h) = 1
  BY Short
<1>5. s = h \o t /\ IsSeq(h) /\ IsSeq(t)
  BY <1>2, <1>3
<1> HIDE DEF h, t
<1>6. Of(s) = Of(h) \cup Of(t) /\ Len(s) = Len(h) + Len(t)
  BY <1>5, Joined
<1> QED
  BY <1>2, <1>3, <1>4, <1>6 DEF h, t

Regroup(r, s, t) == (r \o s) \o t = r \o (s \o t)

LEMMA Regrouped ==
  ASSUME NEW r, NEW s, NEW t, IsSeq(r), IsSeq(s), IsSeq(t)
  PROVE  Regroup(r, s, t)
<1>1. PICK one : r \in Seq(one)
  BY DEF IsSeq
<1>2. PICK two : s \in Seq(two)
  BY DEF IsSeq
<1>3. PICK three : t \in Seq(three)
  BY DEF IsSeq
<1> DEFINE any == one \cup two \cup three
<1>4. r \in Seq(any) /\ s \in Seq(any) /\ t \in Seq(any)
  BY <1>1, <1>2, <1>3
<1> HIDE DEF any
<1> QED
  BY <1>4 DEF Regroup

\* Flattening no sequence, one, and what a chunk's calls give.
LEMMA FlattenNone == S!FlattenSeq(<<>>) = <<>>
BY DEF S!FlattenSeq

LEMMA FlattenOne ==
  ASSUME NEW s
  PROVE  S!FlattenSeq(<<s>>) = s
<1> DEFINE Unfolds(f) == f = [i \in 1..Len(<<s>>) |-> IF i = 1 THEN <<s>>[i] ELSE f[i - 1] \o <<s>>[i]]
           flat == CHOOSE f : Unfolds(f)
           once == [i \in 1..1 |-> s]
<1>1. Len(<<s>>) = 1
  OBVIOUS
<1>2. S!FlattenSeq(<<s>>) = flat[Len(<<s>>)]
  BY <1>1 DEF S!FlattenSeq
<1>3. Unfolds(once)
  BY <1>1
<1>4. Unfolds(flat)
  <2> HIDE DEF Unfolds, once
  <2> QED
    BY <1>3
<1>5. flat[1] = s
  BY <1>1, <1>4
<1> QED
  BY <1>1, <1>2, <1>5

LEMMA FlattenShort ==
  ASSUME NEW c, NEW f, c = <<>> \/ \E k : c = <<k>>, f = [i \in DOMAIN c |-> f[i]]
  PROVE  S!FlattenSeq(f) = IF c = <<>> THEN <<>> ELSE f[1]
<1>1. CASE c = <<>>
  <2>1. DOMAIN c = {}
    BY <1>1, Short
  <2>2. f = [i \in {} |-> f[i]]
    BY <2>1
  <2>3. f = <<>>
    BY <2>2
  <2> QED
    BY <1>1, <2>3, FlattenNone
<1>2. CASE \E k : c = <<k>>
  <2>1. DOMAIN c = {1} /\ c # <<>>
    BY <1>2, Short
  <2>2. f = [i \in {1} |-> f[i]]
    BY <2>1
  <2> DEFINE x == f[1]
  <2>3. f = [i \in {1} |-> x]
    BY <2>2
  <2>4. <<x>> = [i \in {1} |-> x]
    OBVIOUS
  <2> HIDE DEF x
  <2>5. f = <<x>>
    BY <2>3, <2>4
  <2> QED
    BY <2>1, <2>5, FlattenOne DEF x
<1> QED
  BY <1>1, <1>2

-----------------------------------------------------------------------------
(* Chunks, events and what a parser makes of a chunk *)

UpFields == {"phase", "open", "blocks", "calls", "n", "use"}
ChunkFields == {"start", "text", "calls", "fin", "use", "bad"}
CallFields == {"at", "opens", "id", "args"}
EventFields == {"kind", "tool", "n", "id", "fin", "use"}
ParserFields == {"pc", "started", "blocks", "calls", "pend"}
WriterFields == {"started", "next", "cur", "tool", "at", "held", "use"}
EventKinds == {"start", "text", "call", "args", "end", "error"}

IsChunk(c) ==
  /\ DOMAIN c = ChunkFields
  /\ c.calls = <<>> \/ \E k : c.calls = <<k>> /\ k.opens \in BOOLEAN
  /\ c.start \in BOOLEAN /\ c.use \in 0..1
IsEvent(e) == DOMAIN e = EventFields /\ e.kind \in EventKinds
IsParser(p) == DOMAIN p = ParserFields /\ IsSeq(p.blocks) /\ p.started \in BOOLEAN

\* At most one event, and of that kind.
Brief(s, kind) == s = <<>> \/ \E e : s = <<e>> /\ IsEvent(e) /\ e.kind = kind

LEMMA BriefSeq ==
  ASSUME NEW s, NEW kind, Brief(s, kind)
  PROVE  IsSeq(s) /\ \A e \in Of(s) : IsEvent(e) /\ e.kind = kind
BY Short DEF Brief

LEMMA Events ==
  /\ \A kind \in EventKinds : Brief(<<S!Event(kind)>>, kind)
  /\ Brief(S!Starts, "start") /\ S!Starts # <<>>
  /\ \A c : Brief(S!TextOf(c), "text") /\ (S!TextOf(c) # <<>> <=> c.text # 0)
  /\ \A tool, id : Brief(<<S!Opened(tool, id)>>, "call") /\ S!Opened(tool, id).tool = tool
  /\ \A tool, n : Brief(S!Args(tool, n), "args") /\ (S!Args(tool, n) # <<>> => S!Args(tool, n)[1].tool = tool)
  /\ \A fin, use : Brief(S!Ends(fin, use), "end") /\ S!Ends(fin, use) # <<>>
<1>1. \A kind \in EventKinds : IsEvent(S!Event(kind)) /\ S!Event(kind).kind = kind
  BY DEF S!Event, IsEvent, EventFields
<1>2. \A kind \in EventKinds : Brief(<<S!Event(kind)>>, kind)
  BY <1>1 DEF Brief
<1>3. Brief(S!Starts, "start") /\ S!Starts # <<>>
  BY <1>2, Short DEF S!Starts, EventKinds
<1>4. ASSUME NEW c
      PROVE  Brief(S!TextOf(c), "text") /\ (S!TextOf(c) # <<>> <=> c.text # 0)
  <2>1. IsEvent([S!Event("text") EXCEPT !.n = c.text]) /\ [S!Event("text") EXCEPT !.n = c.text].kind = "text"
    BY DEF S!Event, IsEvent, EventFields, EventKinds
  <2> DEFINE ev == [S!Event("text") EXCEPT !.n = c.text]
  <2>2. S!TextOf(c) = IF c.text = 0 THEN <<>> ELSE <<ev>>
    BY DEF S!TextOf
  <2> HIDE DEF ev
  <2>3. Brief(<<ev>>, "text") /\ <<ev>> # <<>>
    BY <2>1, Short DEF Brief, ev
  <2> QED
    BY <2>2, <2>3 DEF Brief
<1>5. ASSUME NEW tool, NEW id
      PROVE  Brief(<<S!Opened(tool, id)>>, "call") /\ S!Opened(tool, id).tool = tool
  <2>1. IsEvent(S!Opened(tool, id)) /\ S!Opened(tool, id).kind = "call" /\ S!Opened(tool, id).tool = tool
    BY DEF S!Opened, S!Event, IsEvent, EventFields, EventKinds
  <2> QED
    BY <2>1 DEF Brief
<1>6. ASSUME NEW tool, NEW n
      PROVE  Brief(S!Args(tool, n), "args") /\ (S!Args(tool, n) # <<>> => S!Args(tool, n)[1].tool = tool)
  <2> DEFINE ev == [S!Event("args") EXCEPT !.tool = tool, !.n = n]
  <2>1. IsEvent(ev) /\ ev.kind = "args" /\ ev.tool = tool
    BY DEF S!Event, IsEvent, EventFields, EventKinds
  <2>2. S!Args(tool, n) = IF n = 0 THEN <<>> ELSE <<ev>>
    BY DEF S!Args
  <2> HIDE DEF ev
  <2>3. Brief(<<ev>>, "args") /\ <<ev>>[1] = ev
    BY <2>1 DEF Brief
  <2> QED
    BY <2>1, <2>2, <2>3 DEF Brief
<1>7. ASSUME NEW fin, NEW use
      PROVE  Brief(S!Ends(fin, use), "end") /\ S!Ends(fin, use) # <<>>
  <2> DEFINE ev == [S!Event("end") EXCEPT !.fin = fin, !.use = use]
  <2>1. IsEvent(ev) /\ ev.kind = "end"
    BY DEF S!Event, IsEvent, EventFields, EventKinds
  <2>2. S!Ends(fin, use) = <<ev>>
    BY DEF S!Ends
  <2> HIDE DEF ev
  <2> QED
    BY <2>1, <2>2, Short DEF Brief
<1> QED
  BY <1>2, <1>3, <1>4, <1>5, <1>6, <1>7

\* The pieces they carry.
LEMMA EventNumbers ==
  /\ \A c : S!TextOf(c) # <<>> => S!TextOf(c)[1].n = c.text
  /\ \A tool, n : (S!Args(tool, n) # <<>> <=> n # 0) /\ (n # 0 => S!Args(tool, n)[1].n = n)
<1>1. ASSUME NEW c, S!TextOf(c) # <<>>
      PROVE  S!TextOf(c)[1].n = c.text
  <2> DEFINE ev == [S!Event("text") EXCEPT !.n = c.text]
  <2>1. ev.n = c.text
    BY DEF S!Event
  <2>2. S!TextOf(c) = <<ev>>
    BY <1>1 DEF S!TextOf
  <2> HIDE DEF ev
  <2> QED
    BY <2>1, <2>2
<1>2. ASSUME NEW tool, NEW n
      PROVE  (S!Args(tool, n) # <<>> <=> n # 0) /\ (n # 0 => S!Args(tool, n)[1].n = n)
  <2> DEFINE ev == [S!Event("args") EXCEPT !.tool = tool, !.n = n]
  <2>1. ev.n = n
    BY DEF S!Event
  <2>2. S!Args(tool, n) = IF n = 0 THEN <<>> ELSE <<ev>>
    BY DEF S!Args
  <2> HIDE DEF ev
  <2> QED
    BY <2>1, <2>2, Short
<1> QED
  BY <1>1, <1>2

\* A chunk of the OpenAI format with choices.
Tells(c) == c.start \/ c.text # 0 \/ c.calls # <<>> \/ c.fin # "none"

\* The events of a chunk, in the order a parser sends them.
Whole(s, t, o, a, e, x) == (((s \o t) \o (o \o a)) \o e) \o x
Ordered(c, s, t, o, a, e, x) ==
  /\ Brief(s, "start") /\ Brief(t, "text") /\ Brief(o, "call")
  /\ Brief(a, "args") /\ Brief(e, "end") /\ Brief(x, "error")
  /\ t # <<>> => c.text # 0
  /\ o \o a # <<>> => c.calls # <<>>
  /\ e # <<>> => c.fin # "none" \/ c.use > 0
  /\ x # <<>> => c.bad

\* A start is sent once: when the chunk carries it, or before the parser's first event.
Started(c, p, new, s) ==
  /\ backend = "openai" => /\ s # <<>> <=> Tells(c) /\ ~p.started
                           /\ new.started <=> p.started \/ Tells(c)
                           /\ ~Tells(c) => \A e \in Of(new.pend) : e.kind = "end"
  /\ backend = "gemini" => (s # <<>> <=> ~p.started) /\ new.started
  /\ backend = "bedrock" => /\ s # <<>> => c.start \/ ~p.started
                            /\ new.pend # <<>> => new.started
                            /\ new.pend # <<>> /\ ~p.started => s # <<>>
                            /\ p.started => new.started
                            /\ c.start => s # <<>>
                            /\ new.started /\ ~p.started => s # <<>>
  /\ backend \notin {"openai", "gemini", "bedrock"} => (s # <<>> <=> c.start) /\ new.started = p.started

\* The tool a call's arguments are sent for.
ForTool(c, p, new, o, a) ==
  LET k == c.calls[1] IN
  c.calls # <<>> =>
    /\ backend = "openai" => /\ o # <<>> => o[1].tool = k.at
                             /\ a # <<>> => a[1].tool = k.at
                             /\ o = <<>> <=> k.at \in Of(p.blocks)
                             /\ new.blocks = p.blocks \o <<k.at>>
    /\ backend \in {"anthropic", "bedrock"} =>
         /\ k.opens => /\ o # <<>> /\ o[1].tool = Len(p.blocks) /\ a = <<>>
                       /\ new.blocks = p.blocks \o <<k.at>>
         /\ ~k.opens => /\ o = <<>> /\ new.blocks = p.blocks
                        /\ a # <<>> => a[1].tool = 0 \/ \E i \in DOMAIN p.blocks : a[1].tool = i - 1
    /\ backend = "gemini" => /\ o # <<>> /\ (a # <<>> => a[1].tool = o[1].tool)
    /\ backend \notin {"openai", "anthropic", "bedrock", "gemini"} =>
         /\ k.opens => o # <<>> /\ o[1].tool = k.at
         /\ ~k.opens => o = <<>>
         /\ a # <<>> => a[1].tool = k.at

\* Nothing a chunk says is left out of its events.
Kept(c, p, new, t, o, a, e) ==
  LET k == c.calls[1] IN
  /\ c.text # 0 => t # <<>> /\ t[1].n = c.text
  /\ c.fin # "none" => e # <<>>
  /\ backend = "gemini" => new.calls = p.calls + Len(c.calls)
  /\ c.calls # <<>> =>
       /\ a # <<>> => a[1].n = k.args /\ k.args # 0
       /\ k.args # 0 /\ (~k.opens \/ backend \in {"openai", "gemini"}) => a # <<>>
       /\ backend = "gemini" /\ p.calls \in Nat => o[1].tool = p.calls
       /\ backend \in {"anthropic", "bedrock"} /\ a # <<>> => a[1].tool = S!Ordinal(p, k.at)

Shape(c, p, new, s, t, o, a, e, x) ==
  /\ DOMAIN new = ParserFields /\ new.pc = p.pc /\ new.started \in BOOLEAN /\ IsSeq(new.blocks)
  /\ new.pend = Whole(s, t, o, a, e, x)
  /\ Ordered(c, s, t, o, a, e, x)
  /\ c.calls = <<>> => new.blocks = p.blocks
  /\ Started(c, p, new, s)
  /\ ForTool(c, p, new, o, a)
  /\ Kept(c, p, new, t, o, a, e)

\* What the one call of a chunk gives.
LEMMA FlattenCalls ==
  ASSUME NEW c, IsChunk(c), NEW f, f = [i \in DOMAIN c.calls |-> f[i]]
  PROVE  S!FlattenSeq(f) = IF c.calls = <<>> THEN <<>> ELSE f[1]
<1> DEFINE calls == c.calls
<1>1. calls = <<>> \/ \E k : calls = <<k>>
  BY DEF IsChunk
<1>2. f = [i \in DOMAIN calls |-> f[i]]
  OBVIOUS
<1> HIDE DEF calls
<1>3. S!FlattenSeq(f) = IF calls = <<>> THEN <<>> ELSE f[1]
  BY <1>1, <1>2, FlattenShort
<1> QED
  BY <1>3 DEF calls

LEMMA OneCall ==
  ASSUME NEW c, IsChunk(c), c.calls # <<>>
  PROVE  DOMAIN c.calls = {1} /\ c.calls = <<c.calls[1]>> /\ c.calls[1].opens \in BOOLEAN
<1>1. PICK k : c.calls = <<k>> /\ k.opens \in BOOLEAN
  BY DEF IsChunk
<1> DEFINE calls == c.calls
<1>2. calls = <<k>>
  BY <1>1
<1> HIDE DEF calls
<1>3. calls[1] = k /\ DOMAIN calls = {1}
  BY <1>2
<1> QED
  BY <1>1, <1>3 DEF calls

\* A concatenation of brief sequences.
LEMMA WholeSeq ==
  ASSUME NEW c, NEW s, NEW t, NEW o, NEW a, NEW e, NEW x, Ordered(c, s, t, o, a, e, x)
  PROVE  /\ IsSeq(s) /\ IsSeq(t) /\ IsSeq(o) /\ IsSeq(a) /\ IsSeq(e) /\ IsSeq(x) /\ IsSeq(o \o a)
         /\ IsSeq(s \o t) /\ IsSeq((s \o t) \o (o \o a)) /\ IsSeq(((s \o t) \o (o \o a)) \o e)
         /\ IsSeq(Whole(s, t, o, a, e, x))
         /\ Of(Whole(s, t, o, a, e, x)) = Of(s) \cup Of(t) \cup Of(o) \cup Of(a) \cup Of(e) \cup Of(x)
<1>1. IsSeq(s) /\ IsSeq(t) /\ IsSeq(o) /\ IsSeq(a) /\ IsSeq(e) /\ IsSeq(x)
  BY BriefSeq DEF Ordered
<1> DEFINE st == s \o t
           oa == o \o a
           sta == st \o oa
           all == sta \o e
<1>2. IsSeq(st) /\ Of(st) = Of(s) \cup Of(t)
  BY <1>1, Joined
<1>3. IsSeq(oa) /\ Of(oa) = Of(o) \cup Of(a)
  BY <1>1, Joined
<1> HIDE DEF st, oa
<1>4. IsSeq(sta) /\ Of(sta) = Of(st) \cup Of(oa)
  BY <1>2, <1>3, Joined
<1> HIDE DEF sta
<1>5. IsSeq(all) /\ Of(all) = Of(sta) \cup Of(e)
  BY <1>1, <1>4, Joined
<1> HIDE DEF all
<1>6. IsSeq(all \o x) /\ Of(all \o x) = Of(all) \cup Of(x)
  BY <1>1, <1>5, Joined
<1>7. Whole(s, t, o, a, e, x) = all \o x
  BY DEF Whole, all, sta, oa, st
<1> QED
  BY <1>1, <1>2, <1>3, <1>4, <1>5, <1>6, <1>7 DEF all, sta, oa, st

LEMMA BriefOrNot ==
  \A kind : Brief(<<>>, kind)
BY DEF Brief

LEMMA OpenAIShape ==
  ASSUME NEW c, NEW p, IsChunk(c), IsParser(p), backend = "openai"
  PROVE  \E s, t, o, a, e, x : Shape(c, p, S!ParseOpenAI(c, p), s, t, o, a, e, x)
<1> DEFINE new == S!ParseOpenAI(c, p)
           none == <<>>
<1>0. DOMAIN p = ParserFields /\ IsSeq(p.blocks) /\ p.started \in BOOLEAN
  BY DEF IsParser
<1>1. CASE ~Tells(c)
  <2> DEFINE e == IF c.use > 0 THEN S!Ends("none", c.use) ELSE <<>>
  <2>1. new = [p EXCEPT !.pend = e]
    BY <1>1, Zenon DEF S!ParseOpenAI, Tells
  <2>2. Brief(e, "end") /\ (e # <<>> => c.use > 0)
    BY Events, BriefOrNot
  <2> HIDE DEF e, new
  <2>3. DOMAIN new = ParserFields /\ new.pc = p.pc /\ new.started = p.started /\ new.blocks = p.blocks /\ new.pend = e
    BY <1>0, <2>1 DEF ParserFields
  <2>4. Ordered(c, none, none, none, none, e, none)
    BY <2>2, BriefOrNot DEF Ordered
  <2>5. Whole(none, none, none, none, e, none) = e
    <3>1. IsSeq(e) /\ none \o none = none
      BY <2>2, BriefSeq, Short, Joining
    <3> QED
      BY <3>1, Joining DEF Whole
  <2>6. Started(c, p, new, none)
    BY <1>0, <1>1, <2>2, <2>3, BriefSeq DEF Started
  <2>7. ForTool(c, p, new, none, none)
    BY <1>1 DEF ForTool, Tells
  <2>8. Kept(c, p, new, none, none, none, e)
    BY <1>1 DEF Kept, Tells
  <2>9. Shape(c, p, new, none, none, none, none, e, none)
    BY <1>0, <2>3, <2>4, <2>5, <2>6, <2>7, <2>8 DEF Shape
  <2> QED
    BY <2>9 DEF new
<1>2. CASE Tells(c)
  <2> DEFINE k == c.calls[1]
             Call(j) == (IF j.at \in S!Range(p.blocks) THEN <<>> ELSE <<S!Opened(j.at, j.id)>>) \o S!Args(j.at, j.args)
             f == [i \in DOMAIN c.calls |-> Call(c.calls[i])]
             s == IF p.started THEN <<>> ELSE S!Starts
             t == S!TextOf(c)
             o == IF c.calls = <<>> \/ k.at \in S!Range(p.blocks) THEN <<>> ELSE <<S!Opened(k.at, k.id)>>
             a == IF c.calls = <<>> THEN <<>> ELSE S!Args(k.at, k.args)
             e == IF c.fin = "none" THEN <<>> ELSE S!Ends(c.fin, c.use)
             b == [i \in DOMAIN c.calls |-> c.calls[i].at]
             bs == p.blocks \o b
             events == ((s \o t) \o S!FlattenSeq(f)) \o e
  <2>1. new = [p EXCEPT !.started = TRUE, !.blocks = bs, !.pend = events]
    BY <1>2, Zenon DEF S!ParseOpenAI, Tells
  <2>2. Brief(s, "start") /\ (s # <<>> <=> ~p.started)
    BY Events, BriefOrNot
  <2>3. Brief(t, "text") /\ (t # <<>> => c.text # 0)
    BY Events
  <2>4. Brief(o, "call") /\ (o # <<>> => c.calls # <<>> /\ o[1].tool = k.at)
    BY Events, BriefOrNot, Short
  <2>5. Brief(a, "args") /\ (a # <<>> => c.calls # <<>> /\ a[1].tool = k.at)
    BY Events, BriefOrNot
  <2>6. Brief(e, "end") /\ (e # <<>> => c.fin # "none")
    BY Events, BriefOrNot
  <2>7. c.calls # <<>> => (o = <<>> <=> k.at \in Of(p.blocks))
    BY Short DEF Of, S!Range
  <2>8. S!FlattenSeq(f) = o \o a
    <3>1. f = [i \in DOMAIN c.calls |-> f[i]]
      OBVIOUS
    <3> HIDE DEF f
    <3>2. S!FlattenSeq(f) = IF c.calls = <<>> THEN <<>> ELSE f[1]
      BY <3>1, FlattenCalls
    <3>3. c.calls # <<>> => f[1] = Call(k)
      BY OneCall DEF f
    <3>4. c.calls # <<>> => f[1] = o \o a
      BY <3>3
    <3>5. c.calls = <<>> => o \o a = <<>>
      BY Joining, Short
    <3> QED
      BY <3>2, <3>4, <3>5
  <2>9. IsSeq(bs) /\ (c.calls = <<>> => bs = p.blocks) /\ (c.calls # <<>> => bs = p.blocks \o <<k.at>>)
    <3>1. c.calls = <<>> => b = <<>>
      BY Short
    <3>2. c.calls # <<>> => b = <<k.at>>
      <4>1. c.calls # <<>> => b = [i \in {1} |-> c.calls[i].at]
        BY OneCall
      <4> DEFINE at == k.at
      <4>2. [i \in {1} |-> c.calls[i].at] = [i \in {1} |-> at]
        OBVIOUS
      <4> HIDE DEF at
      <4>3. <<at>> = [i \in {1} |-> at]
        OBVIOUS
      <4> QED
        BY <4>1, <4>2, <4>3 DEF at
    <3> HIDE DEF b
    <3>3. IsSeq(b)
      BY <3>1, <3>2, Short
    <3> QED
      BY <1>0, <3>1, <3>2, <3>3, Joined, Joining
  <2>18. /\ c.text # 0 => t # <<>> /\ t[1].n = c.text
         /\ c.fin # "none" => e # <<>>
         /\ c.calls # <<>> => (a # <<>> <=> k.args # 0) /\ (a # <<>> => a[1].n = k.args)
    BY Events, EventNumbers
  <2> HIDE DEF f, s, t, o, a, e, bs, new, k
  <2>10. events = ((s \o t) \o (o \o a)) \o e
    BY <2>8
  <2> HIDE DEF events
  <2>11. /\ DOMAIN new = ParserFields /\ new.pc = p.pc /\ new.started = TRUE /\ new.blocks = bs
         /\ new.pend = events
    BY <1>0, <2>1 DEF ParserFields
  <2>12. o \o a # <<>> => c.calls # <<>>
    BY <2>4, <2>5, Joining, Short
  <2>13. Ordered(c, s, t, o, a, e, none)
    BY <2>2, <2>3, <2>4, <2>5, <2>6, <2>12, BriefOrNot DEF Ordered
  <2>14. Whole(s, t, o, a, e, none) = events
    BY <2>10, <2>13, WholeSeq, Joining DEF Whole
  <2>15. Started(c, p, new, s)
    BY <1>2, <2>2, <2>11 DEF Started
  <2>16. ForTool(c, p, new, o, a)
    BY <2>4, <2>5, <2>7, <2>9, <2>11 DEF ForTool, k
  <2>19. Kept(c, p, new, t, o, a, e)
    BY <2>18 DEF Kept, k
  <2>17. Shape(c, p, new, s, t, o, a, e, none)
    BY <2>9, <2>11, <2>13, <2>14, <2>15, <2>16, <2>19 DEF Shape
  <2> QED
    BY <2>17 DEF new
<1> QED
  BY <1>1, <1>2

\* What the formats with content blocks make of a chunk's call.
Blocks(c, p, o, a, bs) ==
  /\ S!FlattenSeq([i \in DOMAIN c.calls |-> S!BlockCall(p, c.calls[i])]) = o \o a
  /\ S!BlockSeen(p, c) = [p EXCEPT !.blocks = bs]
  /\ IsSeq(bs) /\ Brief(o, "call") /\ Brief(a, "args")
  /\ o \o a # <<>> => c.calls # <<>>
  /\ c.calls = <<>> => bs = p.blocks
  /\ c.calls # <<>> => LET k == c.calls[1] IN
       /\ k.opens => /\ o # <<>> /\ o[1].tool = Len(p.blocks) /\ a = <<>>
                     /\ bs = p.blocks \o <<k.at>>
       /\ ~k.opens => /\ o = <<>> /\ bs = p.blocks
                      /\ a # <<>> => a[1].tool = 0 \/ \E i \in DOMAIN p.blocks : a[1].tool = i - 1
                      /\ a # <<>> <=> k.args # 0
                      /\ a # <<>> => a[1].n = k.args /\ a[1].tool = S!Ordinal(p, k.at)

LEMMA BlocksShape ==
  ASSUME NEW c, NEW p, IsChunk(c), IsParser(p)
  PROVE  \E o, a, bs : Blocks(c, p, o, a, bs)
<1> DEFINE k == c.calls[1]
           f == [i \in DOMAIN c.calls |-> S!BlockCall(p, c.calls[i])]
           g == [i \in DOMAIN c.calls |-> IF c.calls[i].opens THEN <<c.calls[i].at>> ELSE <<>>]
           o == IF c.calls # <<>> /\ k.opens THEN <<S!Opened(Len(p.blocks), k.id)>> ELSE <<>>
           a == IF c.calls # <<>> /\ ~k.opens THEN S!Args(S!Ordinal(p, k.at), k.args) ELSE <<>>
           b == IF c.calls # <<>> /\ k.opens THEN <<k.at>> ELSE <<>>
           bs == p.blocks \o b
<1>1. Brief(o, "call") /\ (o # <<>> => c.calls # <<>>)
  BY Events, BriefOrNot
<1>2. Brief(a, "args") /\ (a # <<>> => c.calls # <<>>)
  BY Events, BriefOrNot
<1>3. IsSeq(b) /\ IsSeq(p.blocks)
  BY Short DEF IsParser
<1>4. S!FlattenSeq(f) = o \o a
  <2>1. f = [i \in DOMAIN c.calls |-> f[i]]
    OBVIOUS
  <2> HIDE DEF f
  <2>2. S!FlattenSeq(f) = IF c.calls = <<>> THEN <<>> ELSE f[1]
    BY <2>1, FlattenCalls
  <2>3. c.calls # <<>> => f[1] = S!BlockCall(p, k)
    BY OneCall DEF f
  <2>4. c.calls # <<>> => f[1] = IF k.opens THEN o ELSE a
    BY <2>3 DEF S!BlockCall
  <2>5. c.calls # <<>> /\ k.opens => a = <<>>
    OBVIOUS
  <2>6. c.calls # <<>> /\ ~k.opens => o = <<>>
    OBVIOUS
  <2>7. c.calls = <<>> => o = <<>> /\ a = <<>>
    OBVIOUS
  <2> HIDE DEF o, a
  <2>8. IsSeq(o) /\ IsSeq(a)
    BY <1>1, <1>2, BriefSeq
  <2> QED
    BY <2>2, <2>4, <2>5, <2>6, <2>7, <2>8, Joining
<1>5. S!FlattenSeq(g) = b
  <2>1. g = [i \in DOMAIN c.calls |-> g[i]]
    OBVIOUS
  <2> HIDE DEF g
  <2>2. S!FlattenSeq(g) = IF c.calls = <<>> THEN <<>> ELSE g[1]
    BY <2>1, FlattenCalls
  <2>3. c.calls # <<>> => g[1] = b
    BY OneCall DEF g
  <2> QED
    BY <2>2, <2>3
<1>6. S!BlockSeen(p, c) = [p EXCEPT !.blocks = bs]
  BY <1>5 DEF S!BlockSeen
<1>7. IsSeq(bs) /\ (b = <<>> => bs = p.blocks)
  BY <1>3, Joined, Joining
<1>8. c.calls # <<>> /\ k.opens => o # <<>> /\ o[1].tool = Len(p.blocks) /\ a = <<>> /\ bs = p.blocks \o <<k.at>>
  BY Events, Short
<1>9. c.calls # <<>> /\ ~k.opens => /\ o = <<>> /\ b = <<>>
                                    /\ a # <<>> => a[1].tool = S!Ordinal(p, k.at)
  BY Events
<1>10. S!Ordinal(p, k.at) = 0 \/ \E i \in DOMAIN p.blocks : S!Ordinal(p, k.at) = i - 1
  <2>1. CASE k.at \in S!Range(p.blocks)
    <3>1. \E i \in DOMAIN p.blocks : p.blocks[i] = k.at
      BY <2>1 DEF S!Range
    <3> DEFINE j == CHOOSE i \in DOMAIN p.blocks : p.blocks[i] = k.at
    <3>2. j \in DOMAIN p.blocks
      BY <3>1
    <3>3. S!Ordinal(p, k.at) = j - 1
      BY <2>1 DEF S!Ordinal
    <3> QED
      BY <3>2, <3>3
  <2>2. CASE k.at \notin S!Range(p.blocks)
    BY <2>2 DEF S!Ordinal
  <2> QED
    BY <2>1, <2>2
<1>11. c.calls = <<>> => b = <<>> /\ o \o a = <<>>
  BY Joining, Short
<1>13. c.calls # <<>> /\ ~k.opens => (a # <<>> <=> k.args # 0) /\ (a # <<>> => a[1].n = k.args)
  BY EventNumbers
<1> HIDE DEF k, o, a, b, bs
<1>12. Blocks(c, p, o, a, bs)
  BY <1>1, <1>2, <1>4, <1>6, <1>7, <1>8, <1>9, <1>10, <1>11, <1>13 DEF Blocks, k
<1> QED
  BY <1>12

LEMMA AnthropicShape ==
  ASSUME NEW c, NEW p, IsChunk(c), IsParser(p), backend = "anthropic"
  PROVE  \E s, t, o, a, e, x : Shape(c, p, S!ParseAnthropic(c, p), s, t, o, a, e, x)
<1>1. PICK o, a, bs : Blocks(c, p, o, a, bs)
  BY BlocksShape
<1> DEFINE new == S!ParseAnthropic(c, p)
           seen == S!BlockSeen(p, c)
           calls == S!FlattenSeq([i \in DOMAIN c.calls |-> S!BlockCall(p, c.calls[i])])
           none == <<>>
           s == IF c.start THEN S!Starts ELSE <<>>
           t == S!TextOf(c)
           e == IF c.fin = "none" THEN <<>> ELSE S!Ends(c.fin, c.use)
           events == ((s \o t) \o calls) \o e
<1>2. new = [seen EXCEPT !.pend = events]
  BY Zenon DEF S!ParseAnthropic
<1>3. Brief(s, "start") /\ (s # <<>> <=> c.start)
  BY Events, BriefOrNot DEF IsChunk
<1>4. Brief(t, "text") /\ (t # <<>> => c.text # 0)
  BY Events
<1>5. Brief(e, "end") /\ (e # <<>> => c.fin # "none")
  BY Events, BriefOrNot
<1>6. DOMAIN p = ParserFields /\ IsSeq(p.blocks) /\ p.started \in BOOLEAN
  BY DEF IsParser
<1>7. calls = o \o a /\ seen = [p EXCEPT !.blocks = bs]
  BY <1>1 DEF Blocks
<1>16. (c.text # 0 => t # <<>> /\ t[1].n = c.text) /\ (c.fin # "none" => e # <<>>)
  BY Events, EventNumbers
<1> HIDE DEF new, seen, calls, s, t, e
<1>8. events = ((s \o t) \o (o \o a)) \o e
  BY <1>7
<1> HIDE DEF events
<1>9. DOMAIN seen = ParserFields /\ seen.pc = p.pc /\ seen.started = p.started /\ seen.blocks = bs
  BY <1>6, <1>7 DEF ParserFields
<1>10. /\ DOMAIN new = ParserFields /\ new.pc = p.pc /\ new.started = p.started /\ new.blocks = bs
       /\ new.pend = events
  BY <1>2, <1>9 DEF ParserFields
<1>11. Ordered(c, s, t, o, a, e, none)
  BY <1>1, <1>3, <1>4, <1>5, BriefOrNot DEF Ordered, Blocks
<1>12. Whole(s, t, o, a, e, none) = events
  BY <1>8, <1>11, WholeSeq, Joining DEF Whole
<1>13. Started(c, p, new, s)
  BY <1>3, <1>10 DEF Started
<1>14. ForTool(c, p, new, o, a)
  BY <1>1, <1>10 DEF ForTool, Blocks
<1>17. Kept(c, p, new, t, o, a, e)
  BY <1>1, <1>16, OneCall DEF Kept, Blocks
<1>15. Shape(c, p, new, s, t, o, a, e, none)
  BY <1>1, <1>6, <1>10, <1>11, <1>12, <1>13, <1>14, <1>17 DEF Shape, Blocks
<1> QED
  BY <1>15 DEF new

LEMMA BedrockShape ==
  ASSUME NEW c, NEW p, IsChunk(c), IsParser(p), backend = "bedrock"
  PROVE  \E s, t, o, a, e, x : Shape(c, p, S!MapConverse(c, p), s, t, o, a, e, x)
<1>1. PICK o, a, bs : Blocks(c, p, o, a, bs)
  BY BlocksShape
<1> DEFINE new == S!MapConverse(c, p)
           seen == S!BlockSeen(p, c)
           calls == S!FlattenSeq([i \in DOMAIN c.calls |-> S!BlockCall(p, c.calls[i])])
           none == <<>>
           s1 == IF c.start THEN S!Starts ELSE <<>>
           t == S!TextOf(c)
           e == IF c.fin = "none" /\ c.use = 0 THEN <<>> ELSE S!Ends(c.fin, c.use)
           events == ((s1 \o t) \o calls) \o e
           s0 == IF p.started \/ c.start \/ events = <<>> THEN <<>> ELSE S!Starts
           s == IF c.start THEN s1 ELSE s0
           all == s0 \o events
<1>2. new = [seen EXCEPT !.started = @ \/ events # <<>>, !.pend = all]
  BY Zenon DEF S!MapConverse
<1>3. /\ Brief(s1, "start") /\ (s1 # <<>> <=> c.start)
      /\ Brief(s0, "start") /\ (s0 # <<>> <=> ~p.started /\ ~c.start /\ events # <<>>)
  <2> HIDE DEF events
  <2> QED
    BY Events, BriefOrNot DEF IsChunk, IsParser
<1>4. Brief(t, "text") /\ (t # <<>> => c.text # 0)
  BY Events
<1>5. Brief(e, "end") /\ (e # <<>> => c.fin # "none" \/ c.use > 0)
  BY Events, BriefOrNot DEF IsChunk
<1>6. DOMAIN p = ParserFields /\ IsSeq(p.blocks) /\ p.started \in BOOLEAN
  BY DEF IsParser
<1>7. calls = o \o a /\ seen = [p EXCEPT !.blocks = bs]
  BY <1>1 DEF Blocks
<1> HIDE DEF events
<1>8. (s = s1 /\ s0 = <<>>) \/ (s = s0 /\ s1 = <<>>)
  BY DEF IsChunk
<1>9. Brief(s, "start") /\ (s # <<>> <=> c.start \/ s0 # <<>>)
  BY <1>3 DEF IsChunk
<1>18. (c.text # 0 => t # <<>> /\ t[1].n = c.text) /\ (c.fin # "none" => e # <<>>)
  BY Events, EventNumbers
<1> HIDE DEF new, seen, calls, s0, s1, s, t, e
<1>10. events = ((s1 \o t) \o (o \o a)) \o e
  BY <1>7 DEF events
<1> HIDE DEF all
<1>11. DOMAIN seen = ParserFields /\ seen.pc = p.pc /\ seen.started = p.started /\ seen.blocks = bs
  BY <1>6, <1>7 DEF ParserFields
<1>12. /\ DOMAIN new = ParserFields /\ new.pc = p.pc /\ new.blocks = bs /\ new.pend = all
       /\ new.started <=> p.started \/ events # <<>>
       /\ new.started \in BOOLEAN
  BY <1>2, <1>6, <1>11 DEF ParserFields
<1>13. Ordered(c, s, t, o, a, e, none) /\ Ordered(c, s1, t, o, a, e, none)
  BY <1>1, <1>3, <1>4, <1>5, <1>9, BriefOrNot DEF Ordered, Blocks
<1>14. Whole(s, t, o, a, e, none) = all /\ (all # <<>> => events # <<>>) /\ (events = <<>> => s1 = <<>>)
  <2>1. /\ IsSeq(s) /\ IsSeq(t) /\ IsSeq(e) /\ IsSeq(o \o a) /\ IsSeq(s0) /\ IsSeq(s1)
        /\ IsSeq(((s \o t) \o (o \o a)) \o e)
    BY <1>3, <1>13, WholeSeq, BriefSeq
  <2>2. Whole(s, t, o, a, e, none) = ((s \o t) \o (o \o a)) \o e
    BY <2>1, Joining DEF Whole
  <2>3. ASSUME s = s1, s0 = <<>>
        PROVE  Whole(s, t, o, a, e, none) = all
    <3>1. all = events
      <4>1. IsSeq(events)
        BY <1>10, <2>1, <2>3
      <4> QED
        BY <2>3, <4>1, Joining DEF all
    <3> QED
      BY <2>2, <2>3, <3>1, <1>10
  <2>4. ASSUME s = s0, s1 = <<>>
        PROVE  Whole(s, t, o, a, e, none) = all
    <3> DEFINE oa == o \o a
    <3>1. events = (t \o oa) \o e
      BY <2>1, <2>4, <1>10, Joining
    <3> HIDE DEF oa
    <3>2. IsSeq(oa)
      BY <2>1 DEF oa
    <3> DEFINE u == t \o oa
    <3>3. IsSeq(u)
      BY <2>1, <3>2, Joined
    <3>4. Regroup(s0, t, oa)
      BY <2>1, <3>2, Regrouped
    <3> HIDE DEF u
    <3>5. Regroup(s0, u, e)
      BY <2>1, <3>3, Regrouped
    <3>6. all = s0 \o (u \o e)
      BY <3>1 DEF all, u
    <3>7. all = (s0 \o u) \o e
      BY <3>5, <3>6 DEF Regroup
    <3>8. s0 \o u = (s0 \o t) \o oa
      BY <3>4 DEF Regroup, u
    <3>9. Whole(s, t, o, a, e, none) = ((s0 \o t) \o oa) \o e
      BY <2>2, <2>4 DEF oa
    <3> QED
      BY <3>7, <3>8, <3>9
  <2>5. all # <<>> => events # <<>>
    <3>1. SUFFICES ASSUME events = <<>> PROVE all = <<>>
      OBVIOUS
    <3>2. s0 = <<>>
      BY <1>3, <3>1
    <3> QED
      BY <3>1, <3>2, Joining, Short DEF all
  <2>6. events = <<>> => s1 = <<>>
    <3>1. SUFFICES ASSUME events = <<>> PROVE s1 = <<>>
      OBVIOUS
    <3>2. Whole(s1, t, o, a, e, none) = events
      <4>1. IsSeq(((s1 \o t) \o (o \o a)) \o e)
        BY <1>13, WholeSeq
      <4> QED
        BY <4>1, <1>10, Joining DEF Whole
    <3>3. Of(s1) \subseteq Of(events)
      BY <1>13, <3>2, WholeSeq
    <3>4. Of(s1) = {}
      BY <3>1, <3>3, Short
    <3> QED
      BY <1>3, <3>4, Short DEF Brief
  <2> QED
    BY <1>8, <2>3, <2>4, <2>5, <2>6
<1>15. Started(c, p, new, s)
  <2>1. backend = "bedrock"
    OBVIOUS
  <2>2. new.pend # <<>> => events # <<>>
    BY <1>12, <1>14
  <2>3. c.start => events # <<>>
    BY <1>3, <1>14
  <2> QED
    BY <1>3, <1>9, <1>12, <2>2, <2>3 DEF Started
<1>16. ForTool(c, p, new, o, a)
  BY <1>1, <1>12 DEF ForTool, Blocks
<1>19. Kept(c, p, new, t, o, a, e)
  BY <1>1, <1>18, OneCall DEF Kept, Blocks
<1>17. Shape(c, p, new, s, t, o, a, e, none)
  BY <1>1, <1>6, <1>12, <1>13, <1>14, <1>15, <1>16, <1>19 DEF Shape, Blocks
<1> QED
  BY <1>17 DEF new

LEMMA GeminiShape ==
  ASSUME NEW c, NEW p, IsChunk(c), IsParser(p), backend = "gemini"
  PROVE  \E s, t, o, a, e, x : Shape(c, p, S!ParseGemini(c, p), s, t, o, a, e, x)
<1> DEFINE new == S!ParseGemini(c, p)
           before == IF c.text = 0 THEN 0 ELSE 1
           Call(i) == <<S!Opened(p.calls + i - 1, <<"call_gemini", before + i - 1>>)>>
                      \o S!Args(p.calls + i - 1, c.calls[i].args)
           f == [i \in DOMAIN c.calls |-> Call(i)]
           calls == p.calls + Len(c.calls)
           fin == IF calls > 0 /\ c.fin = "stop" THEN "tool_calls" ELSE c.fin
           none == <<>>
           s == IF p.started THEN <<>> ELSE S!Starts
           t == S!TextOf(c)
           o == IF c.calls = <<>> THEN <<>>
                ELSE <<S!Opened(p.calls + 1 - 1, <<"call_gemini", before + 1 - 1>>)>>
           a == IF c.calls = <<>> THEN <<>> ELSE S!Args(p.calls + 1 - 1, c.calls[1].args)
           e == IF fin = "none" THEN <<>> ELSE S!Ends(fin, 0)
           events == ((s \o t) \o S!GeminiCalls(c, p)) \o e
<1>1. new = [p EXCEPT !.started = TRUE, !.calls = calls, !.pend = events]
  BY Zenon DEF S!ParseGemini
<1>2. S!GeminiCalls(c, p) = S!FlattenSeq(f)
  BY Zenon DEF S!GeminiCalls
<1>3. Brief(s, "start") /\ (s # <<>> <=> ~p.started)
  BY Events, BriefOrNot DEF IsParser
<1>4. Brief(t, "text") /\ (t # <<>> => c.text # 0)
  BY Events
<1>5. Brief(o, "call") /\ (c.calls # <<>> => o # <<>> /\ o[1].tool = p.calls + 1 - 1)
  BY Events, BriefOrNot, Short
<1>6. Brief(a, "args") /\ (a # <<>> => c.calls # <<>> /\ a[1].tool = p.calls + 1 - 1)
  BY Events, BriefOrNot
<1>7. Brief(e, "end") /\ (e # <<>> => c.fin # "none")
  BY Events, BriefOrNot
<1>8. S!FlattenSeq(f) = o \o a
  <2>1. f = [i \in DOMAIN c.calls |-> f[i]]
    OBVIOUS
  <2> HIDE DEF f
  <2>2. S!FlattenSeq(f) = IF c.calls = <<>> THEN <<>> ELSE f[1]
    BY <2>1, FlattenCalls
  <2>3. c.calls # <<>> => f[1] = Call(1)
    <3>1. c.calls # <<>> => 1 \in DOMAIN c.calls
      BY OneCall
    <3> HIDE DEF before
    <3> QED
      BY <3>1, Zenon DEF f
  <2>4. c.calls # <<>> => f[1] = o \o a
    BY <2>3
  <2>5. c.calls = <<>> => o \o a = <<>>
    BY Joining, Short
  <2> HIDE DEF o, a
  <2> QED
    BY <2>2, <2>4, <2>5
<1>9. c.calls = <<>> => o = <<>> /\ a = <<>>
  OBVIOUS
<1>19. /\ c.text # 0 => t # <<>> /\ t[1].n = c.text
       /\ c.calls # <<>> => (a # <<>> <=> c.calls[1].args # 0) /\ (a # <<>> => a[1].n = c.calls[1].args)
  BY Events, EventNumbers
<1>20. c.fin # "none" => e # <<>>
  BY Events
<1>21. calls = p.calls + Len(c.calls)
  OBVIOUS
<1> HIDE DEF new, f, s, t, o, a, e, calls
<1>10. events = ((s \o t) \o (o \o a)) \o e
  BY <1>2, <1>8
<1> HIDE DEF events
<1>11. DOMAIN p = ParserFields /\ IsSeq(p.blocks)
  BY DEF IsParser
<1>12. /\ DOMAIN new = ParserFields /\ new.pc = p.pc /\ new.started = TRUE /\ new.blocks = p.blocks
       /\ new.pend = events /\ new.calls = calls
  BY <1>1, <1>11 DEF ParserFields
<1>13. o \o a # <<>> => c.calls # <<>>
  BY <1>9, Joining, Short
<1>14. Ordered(c, s, t, o, a, e, none)
  BY <1>3, <1>4, <1>5, <1>6, <1>7, <1>13, BriefOrNot DEF Ordered
<1>15. Whole(s, t, o, a, e, none) = events
  BY <1>10, <1>14, WholeSeq, Joining DEF Whole
<1>16. Started(c, p, new, s)
  BY <1>3, <1>12 DEF Started
<1>17. ForTool(c, p, new, o, a)
  BY <1>5, <1>6 DEF ForTool
<1>22. Kept(c, p, new, t, o, a, e)
  BY <1>5, <1>12, <1>19, <1>20, <1>21 DEF Kept
<1>18. Shape(c, p, new, s, t, o, a, e, none)
  BY <1>11, <1>12, <1>14, <1>15, <1>16, <1>17, <1>22 DEF Shape
<1> QED
  BY <1>18 DEF new

LEMMA ProtoShape ==
  ASSUME NEW c, NEW p, IsChunk(c), IsParser(p), backend \notin {"openai", "anthropic", "gemini", "bedrock"}
  PROVE  \E s, t, o, a, e, x : Shape(c, p, S!FromProto(c, p), s, t, o, a, e, x)
<1> DEFINE new == S!FromProto(c, p)
           k == c.calls[1]
           Call(j) == IF j.opens THEN <<S!Opened(j.at, j.id)>> ELSE S!Args(j.at, j.args)
           f == [i \in DOMAIN c.calls |-> Call(c.calls[i])]
           s == IF c.start THEN S!Starts ELSE <<>>
           t == S!TextOf(c)
           o == IF c.calls # <<>> /\ k.opens THEN <<S!Opened(k.at, k.id)>> ELSE <<>>
           a == IF c.calls # <<>> /\ ~k.opens THEN S!Args(k.at, k.args) ELSE <<>>
           e == IF c.fin = "none" THEN <<>> ELSE S!Ends(c.fin, c.use)
           x == IF c.bad THEN <<S!Event("error")>> ELSE <<>>
           events == (((s \o t) \o S!FlattenSeq(f)) \o e) \o x
<1>1. new = [p EXCEPT !.pend = events]
  BY Zenon DEF S!FromProto
<1>2. Brief(s, "start") /\ (s # <<>> <=> c.start)
  BY Events, BriefOrNot DEF IsChunk
<1>3. Brief(t, "text") /\ (t # <<>> => c.text # 0)
  BY Events
<1>4. Brief(o, "call") /\ (c.calls # <<>> /\ k.opens => o # <<>> /\ o[1].tool = k.at)
  BY Events, BriefOrNot, Short
<1>5. Brief(a, "args") /\ (a # <<>> => a[1].tool = k.at)
  BY Events, BriefOrNot
<1>6. Brief(e, "end") /\ (e # <<>> => c.fin # "none")
  BY Events, BriefOrNot
<1>7. Brief(x, "error") /\ (x # <<>> => c.bad)
  BY Events, BriefOrNot DEF EventKinds
<1>8. S!FlattenSeq(f) = o \o a
  <2>1. f = [i \in DOMAIN c.calls |-> f[i]]
    OBVIOUS
  <2> HIDE DEF f
  <2>2. S!FlattenSeq(f) = IF c.calls = <<>> THEN <<>> ELSE f[1]
    BY <2>1, FlattenCalls
  <2>3. c.calls # <<>> => f[1] = Call(k)
    BY OneCall DEF f
  <2>4. c.calls # <<>> => f[1] = IF k.opens THEN o ELSE a
    BY <2>3
  <2>5. c.calls # <<>> /\ k.opens => a = <<>>
    OBVIOUS
  <2>6. c.calls # <<>> /\ ~k.opens => o = <<>>
    OBVIOUS
  <2>7. c.calls = <<>> => o = <<>> /\ a = <<>>
    OBVIOUS
  <2> HIDE DEF o, a
  <2>8. IsSeq(o) /\ IsSeq(a)
    BY <1>4, <1>5, BriefSeq
  <2> QED
    BY <2>2, <2>4, <2>5, <2>6, <2>7, <2>8, Joining
<1>9. /\ c.calls = <<>> => o = <<>> /\ a = <<>>
      /\ c.calls # <<>> /\ ~k.opens => o = <<>>
  OBVIOUS
<1>19. /\ c.text # 0 => t # <<>> /\ t[1].n = c.text
       /\ c.fin # "none" => e # <<>>
       /\ c.calls # <<>> /\ ~k.opens => (a # <<>> <=> k.args # 0) /\ (a # <<>> => a[1].n = k.args)
       /\ c.calls # <<>> /\ k.opens => a = <<>>
  BY Events, EventNumbers
<1> HIDE DEF new, f, s, t, o, a, e, x
<1>10. events = (((s \o t) \o (o \o a)) \o e) \o x
  BY <1>8
<1> HIDE DEF events
<1>11. DOMAIN p = ParserFields /\ IsSeq(p.blocks) /\ p.started \in BOOLEAN
  BY DEF IsParser
<1>12. /\ DOMAIN new = ParserFields /\ new.pc = p.pc /\ new.started = p.started /\ new.blocks = p.blocks
       /\ new.pend = events
  BY <1>1, <1>11 DEF ParserFields
<1>13. o \o a # <<>> => c.calls # <<>>
  BY <1>9, Joining, Short
<1>14. Ordered(c, s, t, o, a, e, x)
  BY <1>2, <1>3, <1>4, <1>5, <1>6, <1>7, <1>13 DEF Ordered
<1>15. Whole(s, t, o, a, e, x) = events
  BY <1>10 DEF Whole
<1>16. Started(c, p, new, s)
  BY <1>2, <1>12 DEF Started
<1>17. ForTool(c, p, new, o, a)
  BY <1>4, <1>5, <1>9 DEF ForTool
<1>20. Kept(c, p, new, t, o, a, e)
  BY <1>19, OneCall DEF Kept
<1>18. Shape(c, p, new, s, t, o, a, e, x)
  BY <1>11, <1>12, <1>14, <1>15, <1>16, <1>17, <1>20 DEF Shape
<1> QED
  BY <1>18 DEF new

\* What a parser makes of a chunk, whatever the backend's format.
LEMMA Parsed ==
  ASSUME NEW c, NEW p, IsChunk(c), IsParser(p)
  PROVE  \E s, t, o, a, e, x : Shape(c, p, S!Parse(c, p), s, t, o, a, e, x)
<1>1. CASE backend = "openai"
  <2>1. S!Parse(c, p) = S!ParseOpenAI(c, p)
    BY <1>1, Zenon DEF S!Parse
  <2> QED
    BY <1>1, <2>1, OpenAIShape
<1>2. CASE backend = "anthropic"
  <2>1. S!Parse(c, p) = S!ParseAnthropic(c, p)
    BY <1>2 DEF S!Parse
  <2> QED
    BY <1>2, <2>1, AnthropicShape
<1>3. CASE backend = "gemini"
  <2>1. S!Parse(c, p) = S!ParseGemini(c, p)
    BY <1>3 DEF S!Parse
  <2> QED
    BY <1>3, <2>1, GeminiShape
<1>4. CASE backend = "bedrock"
  <2>1. S!Parse(c, p) = S!MapConverse(c, p)
    BY <1>4 DEF S!Parse
  <2> QED
    BY <1>4, <2>1, BedrockShape
<1>5. CASE backend \notin {"openai", "anthropic", "gemini", "bedrock"}
  <2>1. S!Parse(c, p) = S!FromProto(c, p)
    BY <1>5 DEF S!Parse
  <2> QED
    BY <1>5, <2>1, ProtoShape
<1> QED
  BY <1>1, <1>2, <1>3, <1>4, <1>5

-----------------------------------------------------------------------------
(* The events in flight *)

\* From the next one the handler receives to the last one the parser still holds.
Flow == (out \o ch) \o parser.pend
FlowTypes == IsSeq(out) /\ IsSeq(ch) /\ IsSeq(parser.pend)

LEMMA FlowParts ==
  ASSUME FlowTypes
  PROVE  IsSeq(Flow) /\ Of(Flow) = Of(out) \cup Of(ch) \cup Of(parser.pend)
<1> DEFINE first == out \o ch
           last == parser.pend
<1>1. IsSeq(first) /\ Of(first) = Of(out) \cup Of(ch) /\ IsSeq(last)
  BY Joined DEF FlowTypes
<1> HIDE DEF first, last
<1>2. IsSeq(first \o last) /\ Of(first \o last) = Of(first) \cup Of(last)
  BY <1>1, Joined
<1> QED
  BY <1>1, <1>2 DEF first, last, Flow

\* An event moved from one place to the next leaves the flow as it is.
LEMMA MovedOn ==
  ASSUME NEW s, NEW t, IsSeq(s), IsSeq(t), t # <<>>
  PROVE  Append(s, Head(t)) \o Tail(t) = s \o t /\ IsSeq(Append(s, Head(t))) /\ IsSeq(Tail(t))
<1> DEFINE h == <<Head(t)>>
           r == Tail(t)
<1>1. t = h \o r /\ IsSeq(r) /\ IsSeq(h)
  BY Parted, Short
<1>2. Append(s, Head(t)) = s \o h
  BY Longer
<1> HIDE DEF h, r
<1>3. Regroup(s, h, r)
  BY <1>1, Regrouped
<1>4. IsSeq(s \o h)
  BY <1>1, Joined
<1>5. (s \o h) \o r = s \o t
  BY <1>1, <1>3 DEF Regroup
<1> QED
  BY <1>1, <1>2, <1>4, <1>5 DEF r

LEMMA Pushed ==
  ASSUME FlowTypes, ~S!Http => ch = <<>>, DOMAIN parser = ParserFields, S!Push
  PROVE  /\ Flow' = Flow /\ FlowTypes' /\ (~S!Http => ch' = <<>>) /\ DOMAIN parser' = ParserFields
         /\ parser'.pc = parser.pc /\ parser'.started = parser.started /\ parser'.blocks = parser.blocks
         /\ parser.pend # <<>>
<1> DEFINE pend == parser.pend
<1>0. /\ DOMAIN parser' = ParserFields /\ parser'.pend = Tail(pend) /\ parser'.pc = parser.pc
      /\ parser'.started = parser.started /\ parser'.blocks = parser.blocks /\ pend # <<>>
  BY DEF S!Push, ParserFields
<1>00. IsSeq(pend) /\ IsSeq(out) /\ IsSeq(ch)
  BY DEF FlowTypes
<1>1. CASE S!Http
  <2>1. ch' = Append(ch, Head(pend)) /\ out' = out
    BY <1>1 DEF S!Push
  <2> DEFINE moved == Append(ch, Head(pend))
             rest == Tail(pend)
  <2> HIDE DEF pend
  <2>2. moved \o rest = ch \o pend /\ IsSeq(moved) /\ IsSeq(rest)
    BY <1>0, <1>00, MovedOn
  <2> HIDE DEF moved, rest
  <2>3. Regroup(out, moved, rest) /\ Regroup(out, ch, pend)
    BY <1>00, <2>2, Regrouped
  <2>4. (out \o moved) \o rest = (out \o ch) \o pend
    BY <2>2, <2>3 DEF Regroup
  <2>5. Flow' = (out \o moved) \o rest
    BY <1>0, <2>1 DEF Flow, moved, rest
  <2>6. Flow = (out \o ch) \o pend
    BY DEF Flow, pend
  <2>7. FlowTypes'
    BY <1>0, <1>00, <2>1, <2>2 DEF FlowTypes, moved, rest
  <2> QED
    BY <1>0, <1>1, <2>4, <2>5, <2>6, <2>7 DEF pend
<1>2. CASE ~S!Http
  <2>1. out' = Append(out, Head(pend)) /\ ch' = ch /\ ch = <<>>
    BY <1>2 DEF S!Push
  <2> DEFINE moved == Append(out, Head(pend))
             rest == Tail(pend)
  <2> HIDE DEF pend
  <2>2. moved \o rest = out \o pend /\ IsSeq(moved) /\ IsSeq(rest)
    BY <1>0, <1>00, MovedOn
  <2> HIDE DEF moved, rest
  <2>3. moved \o <<>> = moved /\ out \o <<>> = out
    BY <1>00, <2>2, Joining
  <2>5. Flow' = (moved \o <<>>) \o rest
    BY <1>0, <2>1 DEF Flow, moved, rest
  <2>6. Flow = (out \o <<>>) \o pend
    BY <2>1 DEF Flow, pend
  <2>7. FlowTypes'
    BY <1>0, <1>00, <2>1, <2>2 DEF FlowTypes, moved, rest
  <2> QED
    BY <1>0, <2>1, <2>2, <2>3, <2>5, <2>6, <2>7 DEF pend
<1> QED
  BY <1>1, <1>2

LEMMA Forwarded ==
  ASSUME FlowTypes, S!Forward
  PROVE  Flow' = Flow /\ FlowTypes' /\ ch # <<>> /\ parser' = parser
<1>1. ch # <<>> /\ ch' = Tail(ch) /\ out' = Append(out, Head(ch)) /\ parser' = parser
  BY DEF S!Forward
<1>2. out' \o ch' = out \o ch /\ IsSeq(out') /\ IsSeq(ch')
  BY <1>1, MovedOn DEF FlowTypes
<1> QED
  BY <1>1, <1>2 DEF Flow, FlowTypes

LEMMA Taken ==
  ASSUME FlowTypes, out # <<>>, out' = Tail(out), ch' = ch, parser' = parser
  PROVE  /\ Flow = <<Head(out)>> \o Flow' /\ FlowTypes' /\ IsSeq(Flow')
         /\ Of(Flow) = {Head(out)} \cup Of(Flow')
<1> DEFINE h == <<Head(out)>>
           r == Tail(out)
           pend == parser.pend
<1>0. IsSeq(out) /\ IsSeq(ch) /\ IsSeq(pend)
  BY DEF FlowTypes
<1>1. out = h \o r /\ IsSeq(r) /\ IsSeq(h) /\ Of(h) = {Head(out)}
  BY <1>0, Parted, Short
<1> HIDE DEF h, r
<1>2. Regroup(h, r, ch) /\ IsSeq(r \o ch)
  BY <1>0, <1>1, Regrouped, Joined
<1> DEFINE rc == r \o ch
<1> HIDE DEF pend, rc
<1>3. Regroup(h, rc, pend)
  BY <1>0, <1>1, <1>2, Regrouped DEF rc
<1>4. out \o ch = h \o rc
  BY <1>1, <1>2 DEF Regroup, rc
<1>5. Flow = h \o (rc \o pend)
  BY <1>3, <1>4 DEF Flow, Regroup, pend
<1>6. Flow' = rc \o pend
  BY DEF Flow, rc, pend, r
<1>7. FlowTypes'
  BY <1>0, <1>1 DEF FlowTypes, r, pend
<1>8. IsSeq(Flow')
  BY <1>7, FlowParts, Joined, <1>0, <1>2, <1>6 DEF rc
<1> DEFINE F == Flow'
<1>9. Flow = h \o F /\ IsSeq(F)
  BY <1>5, <1>6, <1>8
<1> HIDE DEF F
<1>10. Of(Flow) = Of(h) \cup Of(F)
  BY <1>1, <1>9, Joined
<1> QED
  BY <1>1, <1>5, <1>6, <1>7, <1>8, <1>10 DEF h, F

LEMMA Added ==
  ASSUME FlowTypes, parser.pend = <<>>, IsSeq(parser'.pend), UNCHANGED <<out, ch>>
  PROVE  /\ Flow' = Flow \o parser'.pend /\ FlowTypes'
         /\ Of(Flow') = Of(Flow) \cup Of(parser'.pend)
<1> DEFINE first == out \o ch
           new == parser'.pend
<1>1. IsSeq(first)
  BY Joined DEF FlowTypes
<1>2. Flow = first /\ Flow' = first \o new
  BY <1>1, Joining DEF Flow
<1> HIDE DEF first, new
<1>3. Of(first \o new) = Of(first) \cup Of(new)
  BY <1>1, Joined DEF new
<1> QED
  BY <1>2, <1>3 DEF FlowTypes, new

-----------------------------------------------------------------------------
(* What the writers write *)

IsWriter(w) == DOMAIN w = WriterFields /\ IsSeq(w.held)

\* A frame that says the message ended is written for an event that says so; none is
\* the mark that all was read, which only Finish writes.
Fitting(e, f) == f.typ # "done" /\ (f.typ = "finish" => e.kind = "end")
Fits(e, frames) == IsSeq(frames) /\ \A f \in Of(frames) : Fitting(e, f)

\* What a writer may make of an event.
Written(e, done) == IsWriter(done.w) /\ Fits(e, done.frames)

LEMMA MappedSeq ==
  ASSUME NEW s, NEW f, IsSeq(s), f = [i \in DOMAIN s |-> f[i]]
  PROVE  IsSeq(f) /\ Len(f) = Len(s) /\ DOMAIN f = DOMAIN s
<1>1. PICK any : s \in Seq(any)
  BY DEF IsSeq
<1> DEFINE n == Len(s)
           values == {f[i] : i \in 1..n}
<1>2. n \in Nat /\ DOMAIN s = 1..n
  BY <1>1
<1>3. f = [i \in 1..n |-> f[i]]
  BY <1>2
<1> HIDE DEF n
<1>4. f \in [1..n -> values]
  BY <1>3
<1> HIDE DEF values
<1>5. f \in Seq(values) /\ Len(f) = n /\ DOMAIN f = 1..n
  BY <1>2, <1>4
<1> QED
  BY <1>2, <1>5 DEF IsSeq, n

LEMMA FrameFields ==
  ASSUME NEW typ, NEW at, NEW ns, NEW id
  PROVE  /\ S!Frame(typ, at, ns).typ = typ /\ S!Frame(typ, at, ns).at = at
         /\ [S!Frame(typ, at, ns) EXCEPT !.id = id].typ = typ
         /\ [S!Frame(typ, at, ns) EXCEPT !.id = id].at = at
BY DEF S!Frame

LEMMA FitFrame ==
  ASSUME NEW e, NEW typ, NEW at, NEW ns, NEW id, typ # "done", typ = "finish" => e.kind = "end"
  PROVE  Fitting(e, S!Frame(typ, at, ns)) /\ Fitting(e, [S!Frame(typ, at, ns) EXCEPT !.id = id])
BY FrameFields DEF Fitting

LEMMA FitNone == \A e : Fits(e, <<>>)
BY Short DEF Fits

LEMMA FitOne ==
  ASSUME NEW e, NEW f, Fitting(e, f)
  PROVE  Fits(e, <<f>>)
BY Short DEF Fits

LEMMA FitJoin ==
  ASSUME NEW e, NEW s, NEW t, Fits(e, s), Fits(e, t)
  PROVE  Fits(e, s \o t)
BY Joined DEF Fits

LEMMA FitTwo ==
  ASSUME NEW e, NEW f, NEW g, Fitting(e, f), Fitting(e, g)
  PROVE  Fits(e, <<f, g>>)
<1>1. <<f, g>> \in Seq({f, g}) /\ DOMAIN <<f, g>> = {1, 2} /\ <<f, g>>[1] = f /\ <<f, g>>[2] = g
  OBVIOUS
<1>2. Of(<<f, g>>) = {f, g}
  BY <1>1 DEF Of
<1> QED
  BY <1>1, <1>2 DEF Fits, IsSeq

LEMMA FitWrote ==
  ASSUME NEW e, NEW w, NEW frames, IsWriter(w), Fits(e, frames)
  PROVE  Written(e, S!Wrote(w, frames))
BY DEF Written, S!Wrote

LEMMA SumWriter ==
  ASSUME NEW w, NEW use, IsWriter(w)
  PROVE  IsWriter(S!Sum(w, use))
BY DEF S!Sum, IsWriter, WriterFields

LEMMA OpenAIWritten ==
  ASSUME NEW e, NEW w, IsEvent(e), e.kind # "error", IsWriter(w)
  PROVE  Written(e, S!WriteOpenAI(e, w))
<1> DEFINE done == S!WriteOpenAI(e, w)
           role == S!Frame("role", 0, <<>>)
           text == S!Frame("text", 0, <<e.n>>)
           call == [S!Frame("call", e.tool, <<>>) EXCEPT !.id = e.id]
           args == S!Frame("args", e.tool, <<e.n>>)
           finish == S!Frame("finish", 0, <<>>)
           usage == S!Frame("usage", 0, <<>>)
           last == IF e.use > 0 THEN <<usage>> ELSE <<>>
           sum == S!Sum(w, e.use)
<1>1. Fitting(e, role) /\ Fitting(e, text) /\ Fitting(e, call) /\ Fitting(e, args) /\ Fitting(e, usage)
  BY FitFrame
<1>2. e.kind = "end" => Fitting(e, finish)
  BY FitFrame
<1>3. /\ e.kind = "start" => done = S!Wrote(w, <<role>>)
      /\ e.kind = "text" => done = S!Wrote(w, <<text>>)
      /\ e.kind = "call" => done = S!Wrote(w, <<call>>)
      /\ e.kind = "args" => done = S!Wrote(w, <<args>>)
  BY DEF S!WriteOpenAI
<1>4. e.kind = "end" => done = S!Wrote(sum, <<finish>> \o last)
  BY Zenon DEF S!WriteOpenAI
<1>5. IsWriter(sum)
  BY SumWriter
<1> HIDE DEF done, role, text, call, args, finish, usage, sum
<1>6. Fits(e, <<role>>) /\ Fits(e, <<text>>) /\ Fits(e, <<call>>) /\ Fits(e, <<args>>)
  BY <1>1, FitOne
<1>7. Fits(e, last)
  BY <1>1, FitOne, FitNone
<1> HIDE DEF last
<1>8. e.kind = "end" => Fits(e, <<finish>> \o last)
  BY <1>2, <1>7, FitOne, FitJoin
<1>9. CASE e.kind = "end"
  BY <1>4, <1>5, <1>8, <1>9, FitWrote DEF done
<1>10. CASE e.kind # "end"
  BY <1>3, <1>6, <1>10, FitWrote DEF done, IsEvent, EventKinds
<1> QED
  BY <1>9, <1>10

LEMMA StartedClosed ==
  ASSUME NEW e, NEW w
  PROVE  Fits(e, S!EnsureStarted(w)) /\ Fits(e, S!CloseCur(w))
<1> DEFINE role == S!Frame("role", 0, <<>>)
           close == S!Frame("close", w.at, <<>>)
<1>1. Fitting(e, role) /\ Fitting(e, close)
  BY FitFrame
<1>2. /\ S!EnsureStarted(w) = IF w.started THEN <<>> ELSE <<role>>
      /\ S!CloseCur(w) = IF w.cur = "none" THEN <<>> ELSE <<close>>
  BY DEF S!EnsureStarted, S!CloseCur
<1> HIDE DEF role, close
<1> QED
  BY <1>1, <1>2, FitNone, FitOne

LEMMA AnthropicWritten ==
  ASSUME NEW e, NEW w, IsEvent(e), e.kind # "error", IsWriter(w)
  PROVE  Written(e, S!WriteAnthropic(e, w))
<1> DEFINE done == S!WriteAnthropic(e, w)
           begun == [w EXCEPT !.started = TRUE]
           fresh == S!Block(w, IF e.kind = "text" THEN "text" ELSE "call", e.tool)
           idle == [S!Sum(w, e.use) EXCEPT !.cur = "none"]
           start == S!EnsureStarted(w)
           close == S!CloseCur(w)
           text == S!Frame("text", w.at, <<e.n>>)
           open == S!Frame("open", w.next, <<>>)
           first == S!Frame("text", w.next, <<e.n>>)
           call == [S!Frame("call", w.next, <<>>) EXCEPT !.id = e.id]
           args == S!Frame("args", w.at, <<e.n>>)
           finish == S!Frame("finish", 0, <<>>)
           stop == S!Frame("stop", 0, <<>>)
           given == IF w.cur = "call" /\ w.tool = e.tool THEN <<args>> ELSE <<>>
<1>1. IsWriter(begun) /\ IsWriter(fresh) /\ IsWriter(idle)
  BY DEF IsWriter, WriterFields, S!Block, S!Sum
<1>2. Fits(e, start) /\ Fits(e, close)
  BY StartedClosed
<1>3. /\ Fitting(e, text) /\ Fitting(e, open) /\ Fitting(e, first) /\ Fitting(e, call) /\ Fitting(e, args)
      /\ Fitting(e, stop) /\ (e.kind = "end" => Fitting(e, finish))
  BY FitFrame
<1>4. /\ e.kind = "start" => done = S!Wrote(begun, start)
      /\ e.kind = "text" /\ w.cur = "text" => done = S!Wrote(begun, start \o <<text>>)
      /\ e.kind = "text" /\ w.cur # "text" => done = S!Wrote(fresh, (start \o close) \o <<open, first>>)
      /\ e.kind = "call" => done = S!Wrote(fresh, (start \o close) \o <<call>>)
      /\ e.kind = "args" => done = S!Wrote(w, given)
      /\ e.kind = "end" => done = S!Wrote(idle, close \o <<finish, stop>>)
  BY Zenon DEF S!WriteAnthropic
<1> HIDE DEF done, begun, fresh, idle, start, close, text, open, first, call, args, finish, stop
<1>5. Fits(e, <<text>>) /\ Fits(e, <<call>>) /\ Fits(e, <<open, first>>)
  BY <1>3, FitOne, FitTwo
<1>6. Fits(e, given)
  BY <1>3, FitOne, FitNone
<1>7. Fits(e, start \o <<text>>) /\ Fits(e, start \o close)
  BY <1>2, <1>5, FitJoin
<1>8. Fits(e, (start \o close) \o <<open, first>>) /\ Fits(e, (start \o close) \o <<call>>)
  <2> DEFINE both == start \o close
  <2>1. Fits(e, both)
    BY <1>7
  <2> HIDE DEF both
  <2>2. Fits(e, both \o <<open, first>>) /\ Fits(e, both \o <<call>>)
    BY <1>5, <2>1, FitJoin
  <2> QED
    BY <2>2 DEF both
<1>9. e.kind = "end" => Fits(e, close \o <<finish, stop>>)
  BY <1>2, <1>3, FitTwo, FitJoin
<1> HIDE DEF given
<1>10. CASE e.kind = "text"
  BY <1>1, <1>4, <1>7, <1>8, <1>10, FitWrote DEF done
<1>11. CASE e.kind = "start" \/ e.kind = "args"
  BY <1>1, <1>2, <1>4, <1>6, <1>11, FitWrote DEF done
<1>12. CASE e.kind = "call" \/ e.kind = "end"
  BY <1>1, <1>4, <1>8, <1>9, <1>12, FitWrote DEF done
<1> QED
  BY <1>10, <1>11, <1>12 DEF IsEvent, EventKinds

LEMMA GeminiWritten ==
  ASSUME NEW e, NEW w, IsEvent(e), e.kind # "error", IsWriter(w)
  PROVE  Written(e, S!WriteGemini(e, w))
<1> DEFINE done == S!WriteGemini(e, w)
           held == w.held
           holds == \E i \in DOMAIN w.held : w.held[i].tool = e.tool
           text == S!Frame("text", 0, <<e.n>>)
           finish == S!Frame("finish", 0, <<>>)
           call == [tool |-> e.tool, id |-> e.id, ns |-> <<>>]
           longer == [w EXCEPT !.held = Append(@, call)]
           Filled(c) == IF c.tool = e.tool THEN [c EXCEPT !.ns = Append(@, e.n)] ELSE c
           more == [i \in DOMAIN held |-> Filled(held[i])]
           filled == [w EXCEPT !.held = more]
           calls == [i \in DOMAIN held |-> [S!Frame("call", i - 1, held[i].ns) EXCEPT !.id = held[i].id]]
           empty == [S!Sum(w, e.use) EXCEPT !.held = <<>>]
           joined == IF holds THEN w ELSE longer
<1>1. /\ e.kind = "start" => done = S!Wrote(w, <<>>)
      /\ e.kind = "text" => done = S!Wrote(w, <<text>>)
      /\ e.kind = "call" => done = S!Wrote(joined, <<>>)
      /\ e.kind = "args" => done = S!Wrote(filled, <<>>)
      /\ e.kind = "end" => done = S!Wrote(empty, calls \o <<finish>>)
  <2>1. e.kind = "start" => done = S!Wrote(w, <<>>)
    BY Zenon DEF S!WriteGemini
  <2>2. e.kind = "text" => done = S!Wrote(w, <<text>>)
    BY Zenon DEF S!WriteGemini
  <2>3. e.kind = "call" => done = S!Wrote(joined, <<>>)
    BY Zenon DEF S!WriteGemini
  <2>4. e.kind = "args" => done = S!Wrote(filled, <<>>)
    BY Zenon DEF S!WriteGemini
  <2>5. e.kind = "end" => done = S!Wrote(empty, calls \o <<finish>>)
    BY Zenon DEF S!WriteGemini
  <2> HIDE DEF done, text, joined, filled, calls, empty, finish
  <2> QED
    BY <2>1, <2>2, <2>3, <2>4, <2>5
<1>2. Fitting(e, text) /\ (e.kind = "end" => Fitting(e, finish))
  BY FitFrame
<1>3. IsSeq(held) /\ DOMAIN w = WriterFields
  BY DEF IsWriter
<1>4. IsWriter(empty)
  BY <1>3, Short DEF S!Sum, IsWriter, WriterFields
<1>5. IsWriter(longer)
  <2> HIDE DEF call
  <2>1. IsSeq(Append(held, call))
    <3> DEFINE one == <<call>>
    <3> HIDE DEF held
    <3>1. Append(held, call) = held \o one /\ IsSeq(one)
      BY <1>3, Longer, Short
    <3> HIDE DEF one
    <3> QED
      BY <1>3, <3>1, Joined
  <2> QED
    BY <1>3, <2>1 DEF IsWriter, WriterFields
<1>6. IsWriter(filled)
  <2>1. more = [i \in DOMAIN held |-> more[i]]
    OBVIOUS
  <2> HIDE DEF more
  <2>2. IsSeq(more)
    BY <1>3, <2>1, MappedSeq
  <2> QED
    BY <1>3, <2>2 DEF IsWriter, WriterFields
<1>7. Fits(e, calls)
  <2>1. calls = [i \in DOMAIN held |-> calls[i]]
    OBVIOUS
  <2>2. \A i \in DOMAIN held : Fitting(e, calls[i])
    BY FitFrame
  <2> HIDE DEF calls, held
  <2>3. IsSeq(calls) /\ DOMAIN calls = DOMAIN held
    BY <1>3, <2>1, MappedSeq
  <2> QED
    BY <2>2, <2>3 DEF Fits, Of
<1> HIDE DEF done, text, finish, longer, filled, calls, empty, holds
<1>8. IsWriter(joined)
  BY <1>5
<1>9. Fits(e, <<text>>) /\ (e.kind = "end" => Fits(e, calls \o <<finish>>))
  BY <1>2, <1>7, FitOne, FitJoin
<1> HIDE DEF joined
<1>10. CASE e.kind \in {"start", "text", "call", "args"}
  BY <1>1, <1>6, <1>8, <1>9, <1>10, FitNone, FitWrote DEF done
<1>11. CASE e.kind = "end"
  BY <1>1, <1>4, <1>9, <1>11, FitWrote DEF done
<1> QED
  BY <1>10, <1>11 DEF IsEvent, EventKinds

LEMMA EventWritten ==
  ASSUME NEW e, NEW w, IsEvent(e), e.kind # "error", IsWriter(w)
  PROVE  Written(e, S!WriteEvent(e, w))
<1>1. \/ S!WriteEvent(e, w) = S!WriteOpenAI(e, w)
      \/ S!WriteEvent(e, w) = S!WriteAnthropic(e, w)
      \/ S!WriteEvent(e, w) = S!WriteGemini(e, w)
  BY Zenon DEF S!WriteEvent
<1> QED
  BY <1>1, OpenAIWritten, AnthropicWritten, GeminiWritten

-----------------------------------------------------------------------------
(* The pipeline: a stream that was cut off is reported *)

Finished == {"finished", "complete", "cut"}
SaidEnd == up.phase \in Finished
Carries(c) == c.fin # "none" \/ c.use > 0

StreamTypes ==
  /\ DOMAIN up = UpFields /\ up.calls \in Nat /\ IsParser(parser) /\ IsWriter(writer)
  /\ wire = <<>> \/ \E c : wire = <<c>> /\ IsChunk(c)
  /\ parser.pc \in {"read", "last", "closed"}
  /\ FlowTypes /\ IsSeq(shown)
  /\ \A e \in Of(Flow) : IsEvent(e)
  /\ ~S!Http => ch = <<>>
  /\ parser.pc = "closed" => parser.pend = <<>>
  /\ closed => S!Http /\ ch = <<>> /\ parser.pc = "closed"

\* An end in flight was said, and a parser that stopped before the upstream's end has
\* left an error in flight, unless nobody waits for it any more.
EndWasSaid ==
  /\ \A c \in Of(wire) : Carries(c) => SaidEnd
  /\ \A e \in Of(Flow) : e.kind = "end" => SaidEnd
  /\ \A f \in Of(shown) : f.typ = "finish" => SaidEnd
StopIsReported ==
  /\ parser.pc # "read" => S!Hung \/ reply # "none" \/ \E e \in Of(Flow) : e.kind = "error"
  /\ reply = "ok" => S!Hung
  /\ \A f \in Of(shown) : f.typ = "done" => S!Hung /\ reply = "ok"

PipeInv == StreamTypes /\ EndWasSaid /\ StopIsReported

LEMMA PipeInit == S!Init => PipeInv
<1> SUFFICES ASSUME S!Init PROVE PipeInv
  OBVIOUS
<1>1. /\ DOMAIN up = UpFields /\ up.calls \in Nat
      /\ DOMAIN parser = ParserFields /\ DOMAIN writer = WriterFields
      /\ parser.pc = "read" /\ parser.started = FALSE /\ parser.blocks = <<>> /\ parser.pend = <<>>
      /\ writer.held = <<>>
  BY DEF S!Init, UpFields, ParserFields, WriterFields
<1>2. wire = <<>> /\ ch = <<>> /\ out = <<>> /\ closed = FALSE /\ shown = <<>> /\ reply = "none"
  BY DEF S!Init
<1>3. FlowTypes /\ Flow = <<>>
  BY <1>1, <1>2, Short, Joining DEF FlowTypes, Flow
<1>4. StreamTypes
  <2>1. IsParser(parser) /\ IsWriter(writer)
    BY <1>1, Short DEF IsParser, IsWriter
  <2>2. Of(Flow) = {} /\ IsSeq(shown)
    BY <1>2, <1>3, Short
  <2> QED
    BY <1>1, <1>2, <1>3, <2>1, <2>2 DEF StreamTypes
<1>5. EndWasSaid
  BY <1>2, <1>3, Short DEF EndWasSaid
<1>6. StopIsReported
  BY <1>1, <1>2, Short DEF StopIsReported
<1> QED
  BY <1>4, <1>5, <1>6 DEF PipeInv

\* What the upstream says.
Carrying(c, start, text, calls, fin, use, bad) ==
  /\ DOMAIN c = ChunkFields /\ c.text = text /\ c.calls = calls /\ c.fin = fin /\ c.use = use
  /\ c.start \in BOOLEAN /\ (c.start <=> start) /\ (c.bad <=> bad)

Opening(c) == c.calls # <<>> /\ c.calls[1].opens
Adding(c) == c.calls # <<>> /\ ~c.calls[1].opens
Says(c) == c.text # 0 \/ c.calls # <<>> \/ Carries(c)
Active == {"before", "talking", "finished"}

\* The order in which the upstream says things: the start first, a call's arguments after
\* the call, the end last, and a failure of its own as its last word.
SayFits(c, u) ==
  /\ IsChunk(c) /\ DOMAIN u = UpFields /\ u.calls \in Nat
  /\ up.phase \in Active /\ u.phase # "before"
  /\ SaidEnd => u.phase \in Finished /\ c.text = 0 /\ c.calls = <<>>
  /\ Carries(c) => u.phase \in Finished
  /\ c.bad => u.phase \notin Active
  /\ c.start => up.phase = "before"
  /\ backend = "openai" => /\ u.phase = "finished" => Tells(c) \/ up.phase = "finished"
                           /\ Carries(c) /\ ~Tells(c) => up.phase = "finished"
  /\ backend \notin {"openai", "gemini", "bedrock"} =>
       /\ u.phase \in {"talking", "finished"} => c.start \/ up.phase \in {"talking", "finished"}
       /\ ~c.start /\ Says(c) => up.phase \in {"talking", "finished"}
  /\ u.open = "call" => \/ Opening(c) /\ c.calls[1].opens
                        \/ up.open = "call" /\ u.calls = up.calls
  /\ Adding(c) => up.open = "call"
  /\ backend \notin {"openai", "anthropic", "bedrock", "gemini"} =>
       /\ Opening(c) => c.calls[1].at = u.calls - 1
       /\ Adding(c) => c.calls[1].at = up.calls - 1

LEMMA UpstreamSays ==
  ASSUME DOMAIN up = UpFields, up.calls \in Nat, S!Upstream, ~S!HangUp, ~S!Cut
  PROVE  \E c, u, pieces : S!Say(c, u, pieces) /\ SayFits(c, u)
<1> USE DEF SaidEnd, Finished, Active, Carries
<1>1. CASE S!SayStart
  <2> DEFINE chunk == [S!Chunk EXCEPT !.start = TRUE]
             u == [up EXCEPT !.phase = "talking"]
  <2>1. S!Say(chunk, u, <<>>) /\ up.phase = "before"
    BY <1>1, Zenon DEF S!SayStart
  <2>2. DOMAIN u = UpFields /\ u.phase = "talking" /\ u.open = up.open /\ u.calls = up.calls
    BY DEF UpFields
  <2>3. Carrying(chunk, TRUE, 0, <<>>, "none", 0, FALSE)
    BY DEF Carrying, S!Chunk, ChunkFields
  <2> HIDE DEF chunk, u
  <2>4. SayFits(chunk, u)
    BY <2>1, <2>2, <2>3 DEF Carrying, IsChunk, SayFits, Tells, Says, Opening, Adding
  <2> QED
    BY <2>1, <2>4
<1>2. CASE S!SayText
  <2> DEFINE chunk == [S!Chunk EXCEPT !.text = up.n + 1]
             u == [up EXCEPT !.phase = "talking", !.n = @ + 1, !.open = "text",
                             !.blocks = IF up.open = "text" THEN @ ELSE @ + 1]
             pieces == <<0>>
  <2>1. S!Say(chunk, u, pieces) /\ S!Talks
    BY <1>2, Zenon DEF S!SayText
  <2>2. DOMAIN u = UpFields /\ u.phase = "talking" /\ u.open = "text" /\ u.calls = up.calls
    BY DEF UpFields
  <2>3. Carrying(chunk, FALSE, up.n + 1, <<>>, "none", 0, FALSE)
    BY DEF Carrying, S!Chunk, ChunkFields
  <2> HIDE DEF chunk, u, pieces
  <2>4. SayFits(chunk, u)
    BY <2>1, <2>2, <2>3 DEF Carrying, IsChunk, SayFits, Tells, Says, Opening, Adding, S!Talks
  <2> QED
    BY <2>1, <2>4
<1>3. CASE S!SayCall
  <2>1. PICK whole \in BOOLEAN :
          S!Say([S!Chunk EXCEPT !.calls =
                   <<[at |-> S!WireIndex(1), opens |-> TRUE, id |-> <<"own", up.calls>>,
                      args |-> IF whole THEN up.n + 1 ELSE 0]>>],
                [up EXCEPT !.phase = "talking", !.open = "call", !.blocks = @ + 1, !.calls = @ + 1,
                           !.n = IF whole THEN @ + 1 ELSE @],
                IF whole THEN <<up.calls + 1>> ELSE <<>>)
    BY <1>3, Zenon DEF S!SayCall
  <2> DEFINE k == [at |-> S!WireIndex(1), opens |-> TRUE, id |-> <<"own", up.calls>>,
                   args |-> IF whole THEN up.n + 1 ELSE 0]
             chunk == [S!Chunk EXCEPT !.calls = <<k>>]
             u == [up EXCEPT !.phase = "talking", !.open = "call", !.blocks = @ + 1, !.calls = @ + 1,
                             !.n = IF whole THEN @ + 1 ELSE @]
             pieces == IF whole THEN <<up.calls + 1>> ELSE <<>>
  <2>2. S!Say(chunk, u, pieces)
    BY <2>1
  <2>3. S!Talks
    BY <1>3 DEF S!SayCall
  <2>4. DOMAIN u = UpFields /\ u.phase = "talking" /\ u.open = "call" /\ u.calls = up.calls + 1
    BY DEF UpFields
  <2>5. (k.opens <=> TRUE) /\ k.opens \in BOOLEAN /\ k.at = S!WireIndex(1)
    OBVIOUS
  <2> HIDE DEF k, u, pieces
  <2>6. Carrying(chunk, FALSE, 0, <<k>>, "none", 0, FALSE)
    BY DEF Carrying, S!Chunk, ChunkFields
  <2> HIDE DEF chunk
  <2>7. chunk.calls[1] = k /\ chunk.calls # <<>> /\ IsChunk(chunk)
    BY <2>5, <2>6 DEF Carrying, IsChunk
  <2>8. backend \notin {"openai", "anthropic", "bedrock", "gemini"} => k.at = u.calls - 1
    BY <2>4, <2>5 DEF S!WireIndex
  <2>9. SayFits(chunk, u)
    BY <2>3, <2>4, <2>5, <2>6, <2>7, <2>8 DEF Carrying, SayFits, Tells, Says, Opening, Adding, S!Talks
  <2> QED
    BY <2>2, <2>9
<1>4. CASE S!SayTogether
  <2> DEFINE k == [at |-> up.calls, opens |-> TRUE, id |-> <<>>, args |-> up.n + 2]
             chunk == [S!Chunk EXCEPT !.text = up.n + 1, !.calls = <<k>>]
             u == [up EXCEPT !.phase = "talking", !.open = "call", !.calls = @ + 1, !.n = @ + 2]
             pieces == <<0, up.calls + 1>>
  <2>1. S!Say(chunk, u, pieces) /\ S!Talks /\ backend = "gemini"
    BY <1>4, Zenon DEF S!SayTogether
  <2>2. DOMAIN u = UpFields /\ u.phase = "talking" /\ u.open = "call" /\ u.calls = up.calls + 1
    BY DEF UpFields
  <2>3. (k.opens <=> TRUE) /\ k.opens \in BOOLEAN
    OBVIOUS
  <2> HIDE DEF k, u, pieces
  <2>4. Carrying(chunk, FALSE, up.n + 1, <<k>>, "none", 0, FALSE)
    BY DEF Carrying, S!Chunk, ChunkFields
  <2> HIDE DEF chunk
  <2>5. chunk.calls[1] = k /\ chunk.calls # <<>> /\ IsChunk(chunk)
    BY <2>3, <2>4 DEF Carrying, IsChunk
  <2>6. SayFits(chunk, u)
    BY <2>1, <2>2, <2>3, <2>4, <2>5 DEF Carrying, SayFits, Tells, Says, Opening, Adding, S!Talks
  <2> QED
    BY <2>1, <2>6
<1>5. CASE S!SayArgs
  <2> DEFINE k == [at |-> S!WireIndex(0), opens |-> FALSE, id |-> <<>>, args |-> up.n + 1]
             chunk == [S!Chunk EXCEPT !.calls = <<k>>]
             u == [up EXCEPT !.n = @ + 1]
             pieces == <<up.calls>>
  <2>1. S!Say(chunk, u, pieces) /\ up.phase = "talking" /\ up.open = "call"
    BY <1>5, Zenon DEF S!SayArgs
  <2>2. DOMAIN u = UpFields /\ u.phase = up.phase /\ u.open = up.open /\ u.calls = up.calls
    BY DEF UpFields
  <2>3. (k.opens <=> FALSE) /\ k.opens \in BOOLEAN /\ k.at = S!WireIndex(0)
    OBVIOUS
  <2> HIDE DEF k, u, pieces
  <2>4. Carrying(chunk, FALSE, 0, <<k>>, "none", 0, FALSE)
    BY DEF Carrying, S!Chunk, ChunkFields
  <2> HIDE DEF chunk
  <2>5. chunk.calls[1] = k /\ chunk.calls # <<>> /\ IsChunk(chunk)
    BY <2>3, <2>4 DEF Carrying, IsChunk
  <2>6. backend \notin {"openai", "anthropic", "bedrock", "gemini"} => k.at = up.calls - 1
    BY <2>3 DEF S!WireIndex
  <2>7. SayFits(chunk, u)
    BY <2>1, <2>2, <2>3, <2>4, <2>5, <2>6 DEF Carrying, SayFits, Tells, Says, Opening, Adding
  <2> QED
    BY <2>1, <2>7
<1>6. CASE S!SayFinish
  <2>1. PICK use \in 0..1 :
          S!Say([S!Chunk EXCEPT !.fin = IF up.calls > 0 /\ backend # "gemini" THEN "tool_calls" ELSE "stop",
                                !.use = use],
                [up EXCEPT !.phase = "finished", !.use = use], <<>>)
    BY <1>6, Zenon DEF S!SayFinish
  <2> DEFINE fin == IF up.calls > 0 /\ backend # "gemini" THEN "tool_calls" ELSE "stop"
             chunk == [S!Chunk EXCEPT !.fin = fin, !.use = use]
             u == [up EXCEPT !.phase = "finished", !.use = use]
  <2>2. S!Say(chunk, u, <<>>)
    BY <2>1
  <2>3. S!Talks
    BY <1>6 DEF S!SayFinish
  <2>4. DOMAIN u = UpFields /\ u.phase = "finished" /\ u.open = up.open /\ u.calls = up.calls
    BY DEF UpFields
  <2>5. fin # "none"
    OBVIOUS
  <2> HIDE DEF fin, u
  <2>6. Carrying(chunk, FALSE, 0, <<>>, fin, use, FALSE)
    BY DEF Carrying, S!Chunk, ChunkFields
  <2> HIDE DEF chunk
  <2>7. SayFits(chunk, u)
    BY <2>3, <2>4, <2>5, <2>6 DEF Carrying, IsChunk, SayFits, Tells, Says, Opening, Adding, S!Talks
  <2> QED
    BY <2>2, <2>7
<1>7. CASE S!SayUsage
  <2> DEFINE chunk == [S!Chunk EXCEPT !.use = 1]
             u == [up EXCEPT !.use = 1]
  <2>1. S!Say(chunk, u, <<>>) /\ up.phase = "finished"
    BY <1>7, Zenon DEF S!SayUsage
  <2>2. DOMAIN u = UpFields /\ u.phase = up.phase /\ u.open = up.open /\ u.calls = up.calls
    BY DEF UpFields
  <2>3. Carrying(chunk, FALSE, 0, <<>>, "none", 1, FALSE)
    BY DEF Carrying, S!Chunk, ChunkFields
  <2> HIDE DEF chunk, u
  <2>4. SayFits(chunk, u)
    BY <2>1, <2>2, <2>3 DEF Carrying, IsChunk, SayFits, Tells, Says, Opening, Adding
  <2> QED
    BY <2>1, <2>4
<1>8. CASE S!SayFailure
  <2> DEFINE chunk == [S!Chunk EXCEPT !.bad = TRUE]
             u == [up EXCEPT !.phase = "failed"]
  <2>1. S!Say(chunk, u, <<>>) /\ up.phase \in {"before", "talking"}
    BY <1>8, Zenon DEF S!SayFailure
  <2>2. DOMAIN u = UpFields /\ u.phase = "failed" /\ u.open = up.open /\ u.calls = up.calls
    BY DEF UpFields
  <2>3. Carrying(chunk, FALSE, 0, <<>>, "none", 0, TRUE)
    BY DEF Carrying, S!Chunk, ChunkFields
  <2> HIDE DEF chunk, u
  <2>4. SayFits(chunk, u)
    BY <2>1, <2>2, <2>3 DEF Carrying, IsChunk, SayFits, Tells, Says, Opening, Adding
  <2> QED
    BY <2>1, <2>4
<1> QED
  BY <1>1, <1>2, <1>3, <1>4, <1>5, <1>6, <1>7, <1>8 DEF S!Upstream

LEMMA UpstreamKeeps == PipeInv /\ S!Upstream => PipeInv'
<1> SUFFICES ASSUME PipeInv, S!Upstream PROVE PipeInv'
  OBVIOUS
<1>0. DOMAIN up = UpFields /\ up.calls \in Nat
  BY DEF PipeInv, StreamTypes
<1>1. CASE S!HangUp \/ S!Cut
  <2>1. /\ DOMAIN up' = UpFields /\ up'.calls = up.calls /\ ~S!Hung
        /\ SaidEnd => SaidEnd'
        /\ UNCHANGED <<backend, client, said, wire, parser, ch, out, closed, writer, shown, gone, reply>>
    BY <1>0, <1>1 DEF S!HangUp, S!Cut, UpFields, SaidEnd, Finished, S!Hung
  <2>2. Flow' = Flow /\ (FlowTypes' <=> FlowTypes) /\ (S!Http' <=> S!Http)
    BY <2>1 DEF Flow, FlowTypes, S!Http
  <2>3. StreamTypes'
    BY <2>1, <2>2 DEF PipeInv, StreamTypes
  <2>4. EndWasSaid'
    BY <2>1, <2>2 DEF PipeInv, EndWasSaid
  <2>5. StopIsReported'
    BY <2>1, <2>2 DEF PipeInv, StopIsReported
  <2> QED
    BY <2>3, <2>4, <2>5 DEF PipeInv
<1>2. CASE ~S!HangUp /\ ~S!Cut
  <2>1. PICK c, u, pieces : S!Say(c, u, pieces) /\ SayFits(c, u)
    BY <1>0, <1>2, UpstreamSays
  <2>2. /\ wire = <<>> /\ wire' = <<c>> /\ up' = u
        /\ UNCHANGED <<backend, client, parser, ch, out, closed, writer, shown, gone, reply>>
    BY <2>1 DEF S!Say
  <2>3. Flow' = Flow /\ (FlowTypes' <=> FlowTypes) /\ (S!Http' <=> S!Http)
    BY <2>2 DEF Flow, FlowTypes, S!Http
  <2>4. /\ IsChunk(c) /\ DOMAIN up' = UpFields /\ up'.calls \in Nat /\ ~S!Hung
        /\ SaidEnd => SaidEnd'
        /\ Carries(c) => SaidEnd'
    BY <2>1, <2>2 DEF SayFits, SaidEnd, Active, S!Hung
  <2>5. StreamTypes'
    BY <2>2, <2>3, <2>4 DEF PipeInv, StreamTypes
  <2>6. EndWasSaid'
    <3>1. Of(wire') = {c}
      BY <2>2, Short
    <3> QED
      BY <2>2, <2>3, <2>4, <3>1 DEF PipeInv, EndWasSaid
  <2>7. StopIsReported'
    BY <2>2, <2>3, <2>4 DEF PipeInv, StopIsReported
  <2> QED
    BY <2>5, <2>6, <2>7 DEF PipeInv
<1> QED
  BY <1>1, <1>2

\* What a parser made of a chunk.
LEMMA ReadShape ==
  ASSUME StreamTypes, S!Read
  PROVE  \E c, s, t, o, a, e, x : /\ wire = <<c>> /\ IsChunk(c) /\ parser.pend = <<>> /\ parser.pc = "read"
                                  /\ Shape(c, parser, parser', s, t, o, a, e, x)
<1>1. PICK c : wire = <<c>> /\ IsChunk(c)
  BY DEF StreamTypes, S!Read
<1>2. parser' = S!Parse(c, parser) /\ parser.pend = <<>> /\ parser.pc = "read"
  BY <1>1 DEF S!Read
<1>3. IsParser(parser)
  BY DEF StreamTypes
<1>4. \E s, t, o, a, e, x : Shape(c, parser, S!Parse(c, parser), s, t, o, a, e, x)
  BY <1>1, <1>3, Parsed
<1> QED
  BY <1>1, <1>2, <1>4

LEMMA ReadKeeps == PipeInv /\ S!Read => PipeInv'
<1> SUFFICES ASSUME PipeInv, S!Read PROVE PipeInv'
  OBVIOUS
<1>1. PICK c, s, t, o, a, e, x : /\ wire = <<c>> /\ IsChunk(c) /\ parser.pend = <<>> /\ parser.pc = "read"
                                 /\ Shape(c, parser, parser', s, t, o, a, e, x)
  BY ReadShape DEF PipeInv
<1>2. wire' = <<>> /\ UNCHANGED <<backend, client, up, said, ch, out, closed, writer, shown, gone, reply>>
  BY DEF S!Read
<1>3. /\ IsParser(parser') /\ parser'.pc = "read" /\ parser'.pend = Whole(s, t, o, a, e, x)
      /\ Ordered(c, s, t, o, a, e, x)
  BY <1>1 DEF Shape, IsParser
<1>4. /\ IsSeq(parser'.pend)
      /\ Of(parser'.pend) = Of(s) \cup Of(t) \cup Of(o) \cup Of(a) \cup Of(e) \cup Of(x)
  BY <1>3, WholeSeq
<1>5. /\ \A v \in Of(s) : IsEvent(v) /\ v.kind = "start"
      /\ \A v \in Of(t) : IsEvent(v) /\ v.kind = "text"
      /\ \A v \in Of(o) : IsEvent(v) /\ v.kind = "call"
      /\ \A v \in Of(a) : IsEvent(v) /\ v.kind = "args"
      /\ \A v \in Of(e) : IsEvent(v) /\ v.kind = "end"
      /\ \A v \in Of(x) : IsEvent(v) /\ v.kind = "error"
  BY <1>3, BriefSeq DEF Ordered
<1>6. FlowTypes' /\ Of(Flow') = Of(Flow) \cup Of(parser'.pend)
  BY <1>1, <1>2, <1>4, Added DEF PipeInv, StreamTypes
<1>7. e # <<>> => SaidEnd
  <2>1. e # <<>> => Carries(c)
    BY <1>3 DEF Ordered, Carries
  <2>2. Of(wire) = {c}
    BY <1>1, Short
  <2> QED
    BY <2>1, <2>2 DEF PipeInv, EndWasSaid
<1>8. \A v \in Of(Flow') : IsEvent(v) /\ (v.kind = "end" => SaidEnd)
  <2>1. Of(e) # {} => e # <<>>
    BY Short
  <2>2. \A v \in Of(Flow) : IsEvent(v) /\ (v.kind = "end" => SaidEnd)
    BY DEF PipeInv, StreamTypes, EndWasSaid
  <2> QED
    BY <1>4, <1>5, <1>6, <1>7, <2>1, <2>2
<1>9. SaidEnd' = SaidEnd /\ (S!Hung' <=> S!Hung) /\ (S!Http' <=> S!Http)
  BY <1>2 DEF SaidEnd, S!Hung, S!Http
<1>10. StreamTypes'
  BY <1>1, <1>2, <1>3, <1>6, <1>8, <1>9 DEF PipeInv, StreamTypes
<1>11. EndWasSaid'
  BY <1>2, <1>8, <1>9, Short DEF PipeInv, EndWasSaid
<1>12. StopIsReported'
  BY <1>2, <1>3, <1>9 DEF PipeInv, StopIsReported
<1> QED
  BY <1>10, <1>11, <1>12 DEF PipeInv

LEMMA ReadFailsKeeps == PipeInv /\ S!ReadFails => PipeInv'
<1> SUFFICES ASSUME PipeInv, S!ReadFails PROVE PipeInv'
  OBVIOUS
<1> DEFINE failure == S!Event("error")
<1>1. /\ parser.pend = <<>> /\ parser.pc = "read"
      /\ parser' = [parser EXCEPT !.pc = "last", !.pend = <<failure>>]
      /\ UNCHANGED <<backend, client, up, said, wire, ch, out, closed, writer, shown, gone, reply>>
  BY DEF S!ReadFails
<1>2. IsEvent(failure) /\ failure.kind = "error"
  BY DEF S!Event, IsEvent, EventFields, EventKinds
<1> HIDE DEF failure
<1>3. IsParser(parser)
  BY DEF PipeInv, StreamTypes
<1>4. IsParser(parser') /\ parser'.pc = "last" /\ parser'.pend = <<failure>>
  BY <1>1, <1>3 DEF IsParser, ParserFields
<1>5. IsSeq(parser'.pend) /\ Of(parser'.pend) = {failure}
  BY <1>4, Short
<1>6. FlowTypes' /\ Of(Flow') = Of(Flow) \cup {failure}
  BY <1>1, <1>5, Added DEF PipeInv, StreamTypes
<1>7. SaidEnd' = SaidEnd /\ (S!Hung' <=> S!Hung) /\ (S!Http' <=> S!Http)
  BY <1>1 DEF SaidEnd, S!Hung, S!Http
<1>8. StreamTypes'
  BY <1>1, <1>2, <1>4, <1>6, <1>7 DEF PipeInv, StreamTypes
<1>9. EndWasSaid'
  BY <1>1, <1>2, <1>6, <1>7 DEF PipeInv, EndWasSaid
<1>10. StopIsReported'
  BY <1>1, <1>2, <1>6, <1>7 DEF PipeInv, StopIsReported
<1> QED
  BY <1>8, <1>9, <1>10 DEF PipeInv

\* Steps that leave the events in flight, the upstream and the client's side alone.
LEMMA QuietKeeps ==
  ASSUME PipeInv, Flow' = Flow, FlowTypes', IsParser(parser'), ~S!Http => ch' = <<>>,
         parser'.pc \in {"read", "last", "closed"},
         parser'.pc = "closed" => parser'.pend = <<>>,
         closed' => S!Http /\ ch' = <<>> /\ parser'.pc = "closed",
         parser'.pc # "read" => S!Hung \/ reply # "none" \/ \E e \in Of(Flow) : e.kind = "error",
         UNCHANGED <<backend, up, wire, writer, shown, reply>>
  PROVE  PipeInv'
<1>1. SaidEnd' = SaidEnd /\ (S!Hung' <=> S!Hung) /\ (S!Http' <=> S!Http)
  BY DEF SaidEnd, S!Hung, S!Http
<1>2. StreamTypes'
  BY <1>1 DEF PipeInv, StreamTypes
<1>3. EndWasSaid'
  BY <1>1 DEF PipeInv, EndWasSaid
<1>4. StopIsReported'
  BY <1>1 DEF PipeInv, StopIsReported
<1> QED
  BY <1>2, <1>3, <1>4 DEF PipeInv

LEMMA PassingKeeps ==
  PipeInv /\ (S!ReadEnd \/ S!ClosesParser \/ S!Push \/ S!Forward \/ S!CloseBody \/ S!Leave) => PipeInv'
<1> SUFFICES ASSUME PipeInv, S!ReadEnd \/ S!ClosesParser \/ S!Push \/ S!Forward \/ S!CloseBody \/ S!Leave
             PROVE  PipeInv'
  OBVIOUS
<1>0. /\ IsParser(parser) /\ FlowTypes /\ (~S!Http => ch = <<>>) /\ parser.pc \in {"read", "last", "closed"}
      /\ (parser.pc = "closed" => parser.pend = <<>>)
      /\ (closed => S!Http /\ ch = <<>> /\ parser.pc = "closed")
      /\ (parser.pc # "read" => S!Hung \/ reply # "none" \/ \E e \in Of(Flow) : e.kind = "error")
  BY DEF PipeInv, StreamTypes, StopIsReported
<1>1. CASE S!ReadEnd \/ S!ClosesParser
  <2>1. /\ IsParser(parser') /\ parser'.pc = "closed" /\ parser'.pend = parser.pend /\ parser.pend = <<>>
        /\ parser.pc \in {"read", "last"} /\ (parser.pc = "read" => S!Hung)
        /\ UNCHANGED <<backend, up, wire, ch, out, closed, writer, shown, reply>>
    BY <1>0, <1>1 DEF S!ReadEnd, S!ClosesParser, IsParser, ParserFields
  <2>2. Flow' = Flow /\ FlowTypes'
    BY <1>0, <2>1 DEF Flow, FlowTypes
  <2>3. ~closed'
    BY <1>0, <2>1
  <2> QED
    BY <1>0, <2>1, <2>2, <2>3, QuietKeeps
<1>2. CASE S!Push
  <2>1. /\ Flow' = Flow /\ FlowTypes' /\ (~S!Http => ch' = <<>>) /\ DOMAIN parser' = ParserFields
        /\ parser'.pc = parser.pc /\ parser'.started = parser.started /\ parser'.blocks = parser.blocks
        /\ parser.pend # <<>>
    BY <1>0, <1>2, Pushed DEF IsParser
  <2>2. IsParser(parser')
    BY <1>0, <2>1 DEF IsParser
  <2>3. UNCHANGED <<backend, up, wire, closed, writer, shown, reply>>
    BY <1>2 DEF S!Push
  <2> QED
    BY <1>0, <2>1, <2>2, <2>3, QuietKeeps
<1>3. CASE S!Forward
  <2>1. Flow' = Flow /\ FlowTypes' /\ ch # <<>> /\ parser' = parser
    BY <1>0, <1>3, Forwarded
  <2>2. UNCHANGED <<backend, up, wire, closed, writer, shown, reply>>
    BY <1>3 DEF S!Forward
  <2> QED
    BY <1>0, <2>1, <2>2, QuietKeeps
<1>4. CASE S!CloseBody
  <2>1. /\ S!Http /\ ch = <<>> /\ parser.pc = "closed"
        /\ UNCHANGED <<backend, up, wire, parser, ch, out, writer, shown, reply>>
    BY <1>4 DEF S!CloseBody
  <2>2. Flow' = Flow /\ FlowTypes'
    BY <1>0, <2>1 DEF Flow, FlowTypes
  <2> QED
    BY <1>0, <2>1, <2>2, QuietKeeps
<1>5. CASE S!Leave
  <2>1. UNCHANGED <<backend, up, wire, parser, ch, out, closed, writer, shown, reply>>
    BY <1>5 DEF S!Leave
  <2>2. Flow' = Flow /\ FlowTypes'
    BY <1>0, <2>1 DEF Flow, FlowTypes
  <2> QED
    BY <1>0, <2>1, <2>2, QuietKeeps
<1> QED
  BY <1>1, <1>2, <1>3, <1>4, <1>5

LEMMA ReceiveKeeps == PipeInv /\ S!Receive => PipeInv'
<1> SUFFICES ASSUME PipeInv, S!Receive PROVE PipeInv'
  OBVIOUS
<1> DEFINE e == Head(out)
           done == S!WriteEvent(e, writer)
<1>1. /\ reply = "none" /\ out # <<>> /\ e.kind # "error" /\ out' = Tail(out)
      /\ UNCHANGED <<backend, client, up, said, wire, parser, ch, closed, gone>>
  BY DEF S!Receive
<1>2. \/ writer' = done.w /\ shown' = (IF gone THEN shown ELSE shown \o done.frames) /\ reply' = reply
      \/ writer' = writer /\ shown' = shown /\ reply' = "broken"
  BY Zenon DEF S!Receive
<1>3. FlowTypes' /\ Of(Flow) = {e} \cup Of(Flow')
  BY <1>1, Taken DEF PipeInv, StreamTypes
<1>4. IsEvent(e) /\ (e.kind = "end" => SaidEnd)
  BY <1>3 DEF PipeInv, StreamTypes, EndWasSaid
<1>5. Written(e, done)
  BY <1>1, <1>4, EventWritten DEF PipeInv, StreamTypes
<1> HIDE DEF e, done
<1>6. IsSeq(done.frames) /\ \A f \in Of(done.frames) : f.typ # "done" /\ (f.typ = "finish" => SaidEnd)
  BY <1>4, <1>5 DEF Written, Fits, Fitting
<1>7. /\ IsWriter(writer') /\ IsSeq(shown') /\ reply' \in {"none", "broken"}
      /\ \A f \in Of(shown') : (f.typ = "finish" => SaidEnd) /\ (f.typ = "done" => S!Hung /\ reply = "ok")
  <2>1. IsSeq(shown) /\ IsWriter(writer)
    BY DEF PipeInv, StreamTypes
  <2>2. \A f \in Of(shown) : (f.typ = "finish" => SaidEnd) /\ (f.typ = "done" => S!Hung /\ reply = "ok")
    BY DEF PipeInv, EndWasSaid, StopIsReported
  <2>3. IsSeq(shown \o done.frames) /\ Of(shown \o done.frames) = Of(shown) \cup Of(done.frames)
    BY <1>6, <2>1, Joined
  <2>4. IsWriter(done.w)
    BY <1>5 DEF Written
  <2> QED
    BY <1>1, <1>2, <1>6, <2>1, <2>2, <2>3, <2>4
<1>8. SaidEnd' = SaidEnd /\ (S!Hung' <=> S!Hung) /\ (S!Http' <=> S!Http)
  BY <1>1 DEF SaidEnd, S!Hung, S!Http
<1>9. StreamTypes'
  BY <1>1, <1>3, <1>7, <1>8 DEF PipeInv, StreamTypes
<1>10. EndWasSaid'
  BY <1>1, <1>3, <1>7, <1>8 DEF PipeInv, EndWasSaid
<1>11. StopIsReported'
  <2>1. (\E v \in Of(Flow) : v.kind = "error") => \E v \in Of(Flow') : v.kind = "error"
    BY <1>1, <1>3 DEF e
  <2>2. reply = "none"
    BY <1>1
  <2> QED
    BY <1>1, <1>7, <1>8, <2>1, <2>2 DEF PipeInv, StopIsReported
<1> QED
  BY <1>9, <1>10, <1>11 DEF PipeInv

LEMMA ReceiveErrorKeeps == PipeInv /\ S!ReceiveError => PipeInv'
<1> SUFFICES ASSUME PipeInv, S!ReceiveError PROVE PipeInv'
  OBVIOUS
<1>1. /\ reply = "none" /\ out # <<>> /\ out' = Tail(out) /\ reply' = "error"
      /\ UNCHANGED <<backend, client, up, said, wire, parser, ch, closed, writer, shown, gone>>
  BY DEF S!ReceiveError
<1>2. FlowTypes' /\ Of(Flow) = {Head(out)} \cup Of(Flow')
  BY <1>1, Taken DEF PipeInv, StreamTypes
<1>3. SaidEnd' = SaidEnd /\ (S!Hung' <=> S!Hung) /\ (S!Http' <=> S!Http)
  BY <1>1 DEF SaidEnd, S!Hung, S!Http
<1>4. StreamTypes'
  BY <1>1, <1>2, <1>3 DEF PipeInv, StreamTypes
<1>5. EndWasSaid'
  BY <1>1, <1>2, <1>3 DEF PipeInv, EndWasSaid
<1>6. StopIsReported'
  BY <1>1, <1>2, <1>3 DEF PipeInv, StopIsReported
<1> QED
  BY <1>4, <1>5, <1>6 DEF PipeInv

\* A handler that is told the stream is over has received all there was.
LEMMA FinishKeeps == PipeInv /\ S!Finish => PipeInv'
<1> SUFFICES ASSUME PipeInv, S!Finish PROVE PipeInv'
  OBVIOUS
<1>1. /\ reply = "none" /\ out = <<>> /\ S!Closed /\ reply' \in {"ok", "broken"}
      /\ UNCHANGED <<backend, client, up, said, wire, parser, ch, out, closed, writer, gone>>
      /\ \/ reply' = "ok" /\ shown' \in {shown, shown \o S!WriteDone}
         \/ reply' = "broken" /\ shown' = shown
  BY DEF S!Finish
<1>2. parser.pc = "closed" /\ Flow = <<>>
  <2>1. parser.pc = "closed" /\ ch = <<>> /\ parser.pend = <<>>
    BY <1>1 DEF PipeInv, StreamTypes, S!Closed
  <2> QED
    BY <1>1, <2>1, Joining, Short DEF Flow
<1>3. S!Hung
  BY <1>1, <1>2, Short DEF PipeInv, StopIsReported
<1>4. IsSeq(S!WriteDone) /\ \A f \in Of(S!WriteDone) : f.typ = "done"
  <2> DEFINE mark == S!Frame("done", 0, <<>>)
  <2>1. mark.typ = "done"
    BY FrameFields
  <2>2. S!WriteDone = IF client = "openai" THEN <<mark>> ELSE <<>>
    BY DEF S!WriteDone
  <2> HIDE DEF mark
  <2> QED
    BY <2>1, <2>2, Short
<1>5. /\ IsSeq(shown') /\ (reply' # "ok" => shown' = shown)
      /\ \A f \in Of(shown') : f \in Of(shown) \/ f.typ = "done"
  <2>1. IsSeq(shown)
    BY DEF PipeInv, StreamTypes
  <2>2. IsSeq(shown \o S!WriteDone) /\ Of(shown \o S!WriteDone) = Of(shown) \cup Of(S!WriteDone)
    BY <1>4, <2>1, Joined
  <2> QED
    BY <1>1, <1>4, <2>1, <2>2
<1>6. Flow' = Flow /\ (FlowTypes' <=> FlowTypes)
  BY <1>1 DEF Flow, FlowTypes
<1>7. SaidEnd' = SaidEnd /\ (S!Hung' <=> S!Hung) /\ (S!Http' <=> S!Http)
  BY <1>1 DEF SaidEnd, S!Hung, S!Http
<1>8. StreamTypes'
  BY <1>1, <1>5, <1>6, <1>7 DEF PipeInv, StreamTypes
<1>9. EndWasSaid'
  <2>1. \A f \in Of(shown) : f.typ = "finish" => SaidEnd
    BY DEF PipeInv, EndWasSaid
  <2> QED
    BY <1>1, <1>5, <1>6, <1>7, <2>1 DEF PipeInv, EndWasSaid
<1>10. StopIsReported'
  <2>1. \A f \in Of(shown) : f.typ # "done"
    BY <1>1 DEF PipeInv, StopIsReported
  <2> QED
    BY <1>1, <1>3, <1>5, <1>7, <2>1 DEF StopIsReported
<1> QED
  BY <1>8, <1>9, <1>10 DEF PipeInv

LEMMA PipeStep == PipeInv /\ [S!Next]_(S!vars) => PipeInv'
<1>1. ASSUME PipeInv, UNCHANGED S!vars
      PROVE  PipeInv'
  <2>1. UNCHANGED <<backend, client, up, said, wire, parser, ch, out, closed, writer, shown, gone, reply>>
    BY <1>1 DEF S!vars
  <2>2. Flow' = Flow /\ FlowTypes' /\ IsParser(parser')
    BY <1>1, <2>1 DEF Flow, FlowTypes, PipeInv, StreamTypes
  <2> QED
    BY <1>1, <2>1, <2>2, QuietKeeps DEF PipeInv, StreamTypes, StopIsReported
<1> QED
  BY <1>1, UpstreamKeeps, ReadKeeps, ReadFailsKeeps, PassingKeeps, ReceiveKeeps, ReceiveErrorKeeps, FinishKeeps
     DEF S!Next, S!ParserStep, S!ForwardStep, S!HandlerStep

\* While no stream is asked for, the stream's state is the initial one and stays so.
LEMMA PipeInvariant == Spec => []PipeInv
<1>1. Init => PipeInv
  BY PipeInit DEF Init
<1>2. PipeInv /\ [Next]_vars => PipeInv'
  <2>1. [Next]_vars => [S!Next]_(S!vars)
    BY DEF Next, vars, stream, S!vars
  <2> QED
    BY <2>1, PipeStep
<1> QED
  BY <1>1, <1>2, PTL DEF Spec

\* A stream the backend cut off or failed is never shown as a finished answer: an end is
\* passed on only if it was said, and "ok" recorded only when all of it was read.
THEOREM NoCutIsHidden == Spec => []CutIsReported
<1>1. ASSUME PipeInv
      PROVE  CutIsReported
  <2>1. \A i \in DOMAIN shown : shown[i] \in Of(shown)
    BY DEF Of
  <2> QED
    BY <1>1, <2>1 DEF CutIsReported, S!CutIsReported, PipeInv, EndWasSaid, StopIsReported, SaidEnd, Finished
<1> QED
  BY <1>1, PipeInvariant, PTL

-----------------------------------------------------------------------------
(* The order of the events in flight *)

\* Where the elements of a concatenation come from.
Parts(s, t, u) ==
  /\ Len(s) \in Nat /\ Len(t) \in Nat /\ DOMAIN s = 1..Len(s) /\ DOMAIN t = 1..Len(t)
  /\ DOMAIN u = 1..(Len(s) + Len(t))
  /\ \A i \in DOMAIN s : u[i] = s[i]
  /\ \A i \in DOMAIN t : u[Len(s) + i] = t[i]
  /\ \A i \in DOMAIN u : i \in DOMAIN s \/ (i - Len(s) \in DOMAIN t /\ u[i] = t[i - Len(s)])

LEMMA InParts ==
  ASSUME NEW s, NEW t, IsSeq(s), IsSeq(t)
  PROVE  Parts(s, t, s \o t)
<1> DEFINE u == s \o t
           m == Len(s)
           n == Len(t)
<1>1. /\ m \in Nat /\ n \in Nat /\ DOMAIN u = 1..(m + n) /\ DOMAIN s = 1..m /\ DOMAIN t = 1..n
      /\ \A i \in 1..m : u[i] = s[i]
      /\ \A i \in 1..n : u[m + i] = t[i]
  BY Joined
<1> HIDE DEF u, m, n
<1>2. ASSUME NEW i \in DOMAIN u
      PROVE  i \in 1..m \/ (i - m \in 1..n /\ u[i] = t[i - m])
  <2>1. i \in 1..m \/ (i - m \in 1..n /\ i = m + (i - m))
    BY <1>1
  <2> QED
    BY <1>1, <2>1
<1> QED
  BY <1>1, <1>2 DEF Parts, u, m, n

Has(s, kind) == \E e \in Of(s) : e.kind = kind
CallsIn(s) == {e.tool : e \in {d \in Of(s) : d.kind = "call"}}
Over(e) == e.kind \in {"end", "error"}

\* Only the first event may be a start; only ends and an error come after an end; a call's
\* arguments come after the call, unless it is one of `tools`.
StartFirst(s) == \A i \in DOMAIN s : s[i].kind = "start" => i = 1
EndsTrail(s) == \A i, j \in DOMAIN s : i < j /\ s[i].kind = "end" => Over(s[j])
ArgsAfter(s, tools) ==
  \A j \in DOMAIN s : s[j].kind = "args" =>
    s[j].tool \in tools \/ \E i \in DOMAIN s : i < j /\ s[i].kind = "call" /\ s[i].tool = s[j].tool

LEMMA StartJoin ==
  ASSUME NEW s, NEW t, IsSeq(s), IsSeq(t), StartFirst(s), StartFirst(t), ~Has(t, "start") \/ s = <<>>
  PROVE  StartFirst(s \o t)
<1>1. Parts(s, t, s \o t)
  BY InParts
<1>2. s = <<>> => Len(s) = 0
  BY Short
<1> DEFINE u == s \o t
<1> HIDE DEF u
<1> QED
  BY <1>1, <1>2 DEF StartFirst, Parts, Has, Of, u

LEMMA EndsJoin ==
  ASSUME NEW s, NEW t, IsSeq(s), IsSeq(t), EndsTrail(s), EndsTrail(t),
         Has(s, "end") => \A e \in Of(t) : Over(e)
  PROVE  EndsTrail(s \o t)
<1> DEFINE u == s \o t
           m == Len(s)
<1>1. Parts(s, t, u)
  BY InParts
<1> HIDE DEF u
<1> SUFFICES ASSUME NEW i \in DOMAIN u, NEW j \in DOMAIN u, i < j, u[i].kind = "end"
             PROVE  Over(u[j])
  BY DEF EndsTrail, u
<1>2. CASE j \in DOMAIN s
  BY <1>1, <1>2 DEF Parts, EndsTrail
<1>3. CASE j \notin DOMAIN s
  <2>1. j - m \in DOMAIN t /\ u[j] = t[j - m] /\ t[j - m] \in Of(t)
    BY <1>1, <1>3 DEF Parts, Of
  <2>2. CASE i \in DOMAIN s
    <3>1. Has(s, "end")
      BY <1>1, <2>2 DEF Parts, Has, Of
    <3> QED
      BY <2>1, <3>1
  <2>3. CASE i \notin DOMAIN s
    <3>1. i - m \in DOMAIN t /\ u[i] = t[i - m] /\ i - m < j - m
      BY <1>1, <2>3 DEF Parts
    <3> QED
      BY <2>1, <3>1 DEF EndsTrail
  <2> QED
    BY <2>2, <2>3
<1> QED
  BY <1>2, <1>3

LEMMA ArgsJoin ==
  ASSUME NEW s, NEW t, NEW tools, IsSeq(s), IsSeq(t), ArgsAfter(s, tools),
         ArgsAfter(t, tools \cup CallsIn(s))
  PROVE  ArgsAfter(s \o t, tools)
<1> DEFINE u == s \o t
           m == Len(s)
<1>1. Parts(s, t, u)
  BY InParts
<1> HIDE DEF u
<1> SUFFICES ASSUME NEW j \in DOMAIN u, u[j].kind = "args", u[j].tool \notin tools
             PROVE  \E i \in DOMAIN u : i < j /\ u[i].kind = "call" /\ u[i].tool = u[j].tool
  BY DEF ArgsAfter, u
<1>2. DOMAIN s \subseteq DOMAIN u
  BY <1>1 DEF Parts
<1>3. CASE j \in DOMAIN s
  BY <1>1, <1>2, <1>3 DEF Parts, ArgsAfter
<1>4. CASE j \notin DOMAIN s
  <2>1. j - m \in DOMAIN t /\ u[j] = t[j - m] /\ m < j /\ m \in Nat
    BY <1>1, <1>4 DEF Parts
  <2>2. CASE t[j - m].tool \in CallsIn(s)
    <3>1. PICK i \in DOMAIN s : s[i].kind = "call" /\ s[i].tool = t[j - m].tool
      BY <2>2 DEF CallsIn, Of
    <3>2. i < j /\ u[i] = s[i]
      BY <1>1, <2>1, <3>1 DEF Parts
    <3> QED
      BY <1>2, <2>1, <3>1, <3>2
  <2>3. CASE t[j - m].tool \notin CallsIn(s)
    <3>1. PICK i \in DOMAIN t : i < j - m /\ t[i].kind = "call" /\ t[i].tool = t[j - m].tool
      BY <2>1, <2>3 DEF ArgsAfter
    <3>2. m + i \in DOMAIN u /\ m + i < j /\ u[m + i] = t[i]
      BY <1>1, <2>1, <3>1 DEF Parts
    <3> QED
      BY <2>1, <3>1, <3>2
  <2> QED
    BY <2>2, <2>3
<1> QED
  BY <1>3, <1>4

\* What is left when the first event is taken.
LEMMA Rest ==
  ASSUME NEW h, NEW t, IsSeq(t)
  PROVE  /\ StartFirst(<<h>> \o t) => ~Has(t, "start")
         /\ EndsTrail(<<h>> \o t) => EndsTrail(t) /\ (h.kind = "end" => \A e \in Of(t) : Over(e))
         /\ \A tools, more : /\ ArgsAfter(<<h>> \o t, tools) /\ tools \subseteq more
                             /\ h.kind = "call" => h.tool \in more
                             => ArgsAfter(t, more) /\ (h.kind = "args" => h.tool \in tools)
<1> DEFINE s == <<h>>
           u == s \o t
<1>1. Parts(s, t, u) /\ Len(s) = 1 /\ s[1] = h
  BY InParts, Short
<1> HIDE DEF s, u
<1>2. u[1] = h /\ 1 \in DOMAIN u /\ \A i \in DOMAIN t : i \in Nat \ {0} /\ u[i + 1] = t[i] /\ i + 1 \in DOMAIN u
  BY <1>1 DEF Parts
<1>3. \A i \in DOMAIN u : i \in Nat /\ (i = 1 \/ (i - 1 \in DOMAIN t /\ u[i] = t[i - 1]))
  BY <1>1 DEF Parts
<1>4. StartFirst(u) => ~Has(t, "start")
  BY <1>2 DEF StartFirst, Has, Of
<1>5. EndsTrail(u) => EndsTrail(t) /\ (h.kind = "end" => \A e \in Of(t) : Over(e))
  BY <1>2 DEF EndsTrail, Of
<1>6. ASSUME NEW tools, NEW more, ArgsAfter(u, tools), tools \subseteq more, h.kind = "call" => h.tool \in more
      PROVE  ArgsAfter(t, more) /\ (h.kind = "args" => h.tool \in tools)
  <2>1. ASSUME h.kind = "args"
        PROVE  h.tool \in tools
    <3>1. ~\E i \in DOMAIN u : i < 1
      BY <1>1 DEF Parts
    <3> QED
      BY <1>2, <1>6, <2>1, <3>1 DEF ArgsAfter
  <2>2. ASSUME NEW j \in DOMAIN t, t[j].kind = "args", t[j].tool \notin more
        PROVE  \E i \in DOMAIN t : i < j /\ t[i].kind = "call" /\ t[i].tool = t[j].tool
    <3>1. PICK i \in DOMAIN u : i < j + 1 /\ u[i].kind = "call" /\ u[i].tool = t[j].tool
      BY <1>2, <1>6, <2>2 DEF ArgsAfter
    <3>2. i # 1
      BY <1>2, <1>6, <2>2, <3>1
    <3>3. i - 1 \in DOMAIN t /\ u[i] = t[i - 1] /\ i - 1 < j
      BY <1>2, <1>3, <3>1, <3>2
    <3> QED
      BY <3>1, <3>3
  <2> QED
    BY <2>1, <2>2 DEF ArgsAfter
<1> QED
  BY <1>4, <1>5, <1>6 DEF u, s
-----------------------------------------------------------------------------
(* Frames and blocks *)

\* Which blocks a sequence of frames has opened and closed by its i-th.
Opens(s, i) == s[i].typ \in {"open", "call"}
Openings(s, i) == {j \in 1..i : Opens(s, j)}
Shut(s, i, at) == \E j \in 1..i : s[j].typ = "close" /\ s[j].at = at
Shows(s, typ) == \E j \in DOMAIN s : s[j].typ = typ

\* A frame of dialect d in its place among those before it: FramesNest for one frame.
Nested(d, s, i) ==
  /\ d # "gemini" /\ s[i].typ # "done" => (s[i].typ = "role" <=> i = 1)
  /\ s[i].typ = "args" => \E j \in 1..i : s[j].typ = "call" /\ s[j].at = s[i].at
  /\ s[i].typ = "done" => i = Len(s)
  /\ d = "anthropic" =>
       /\ Opens(s, i) => s[i].at = Cardinality(Openings(s, i)) - 1
       /\ Opens(s, i) \/ s[i].typ = "finish" => \A j \in Openings(s, i) \ {i} : Shut(s, i, s[j].at)
       /\ s[i].typ \in {"text", "args"} => /\ s[i].at = Cardinality(Openings(s, i)) - 1
                                           /\ ~Shut(s, i, s[i].at)
       /\ (\E j \in 1..(i - 1) : s[j].typ = "finish") => s[i].typ \in {"finish", "stop"}

\* What the Anthropic writer's locals say of the frames it has written.
Tracks(s, w) ==
  /\ w.started <=> s # <<>>
  /\ w.next = Cardinality(Openings(s, Len(s)))
  /\ w.cur \in {"none", "text", "call"}
  /\ w.cur # "none" => w.next > 0 /\ w.at = w.next - 1 /\ ~Shut(s, Len(s), w.at)
  /\ w.cur = "call" => \E j \in DOMAIN s : s[j].typ = "call" /\ s[j].at = w.at
  /\ \A j \in Openings(s, Len(s)) :
       s[j].at \in 0..(w.next - 1) /\ (Shut(s, Len(s), s[j].at) \/ (w.cur # "none" /\ s[j].at = w.at))
  /\ \A j \in DOMAIN s : s[j].typ = "close" => s[j].at \in 0..(w.next - 1)
  /\ Shows(s, "finish") => w.cur = "none"

\* r is s with one frame more.
Grown(s, f, r) ==
  /\ Len(s) \in Nat /\ Len(r) = Len(s) + 1 /\ DOMAIN s = 1..Len(s) /\ DOMAIN r = 1..Len(r)
  /\ \A i \in 1..Len(s) : r[i] = s[i]
  /\ r[Len(r)] = f
  /\ s = <<>> <=> Len(s) = 0
  /\ r # <<>>

LEMMA Growing ==
  ASSUME NEW s, NEW f, IsSeq(s)
  PROVE  Grown(s, f, s \o <<f>>) /\ IsSeq(s \o <<f>>)
<1> DEFINE one == <<f>>
<1>1. IsSeq(one) /\ Len(one) = 1 /\ one[1] = f /\ DOMAIN one = {1}
  BY Short
<1>2. s = <<>> <=> Len(s) = 0
  <2>1. PICK any : s \in Seq(any)
    BY DEF IsSeq
  <2> QED
    BY <2>1
<1> HIDE DEF one
<1> DEFINE r == s \o one
<1>3. Parts(s, one, r) /\ IsSeq(r)
  BY <1>1, InParts, Joined
<1>4. Len(r) = Len(s) + 1
  BY <1>1, Joined
<1>5. r[Len(s) + 1] = f
  BY <1>1, <1>3 DEF Parts
<1> HIDE DEF r
<1>6. r # <<>>
  BY <1>3, <1>4, Short DEF Parts
<1> QED
  BY <1>1, <1>2, <1>3, <1>4, <1>5, <1>6 DEF Grown, Parts, r, one

\* What one frame more changes.
LEMMA OpeningsGrown ==
  ASSUME NEW s, NEW f, NEW r, Grown(s, f, r)
  PROVE  /\ \A i \in 1..Len(s) : /\ Opens(r, i) <=> Opens(s, i)
                                 /\ Openings(r, i) = Openings(s, i)
                                 /\ \A at : Shut(r, i, at) <=> Shut(s, i, at)
         /\ \A at : Shut(r, Len(r), at) <=> Shut(s, Len(s), at) \/ (f.typ = "close" /\ f.at = at)
         /\ Openings(r, Len(r)) = Openings(s, Len(s)) \cup (IF Opens(r, Len(r)) THEN {Len(r)} ELSE {})
         /\ Len(r) \notin Openings(s, Len(s)) /\ Openings(s, Len(s)) \subseteq 1..Len(s)
         /\ Cardinality(Openings(s, Len(s))) \in Nat
         /\ Cardinality(Openings(r, Len(r)))
              = Cardinality(Openings(s, Len(s))) + (IF Opens(r, Len(r)) THEN 1 ELSE 0)
<1> DEFINE n == Len(s)
           before == Openings(s, n)
           after == Openings(r, n + 1)
<1>1. /\ n \in Nat /\ Len(r) = n + 1 /\ DOMAIN s = 1..n /\ DOMAIN r = 1..(n + 1)
      /\ \A i \in 1..n : r[i] = s[i]
      /\ r[n + 1] = f
  BY DEF Grown
<1> HIDE DEF n
<1>2. \A i \in 1..n : 1..i \subseteq 1..n
  BY <1>1
<1>3. \A i \in 1..n : /\ Opens(r, i) <=> Opens(s, i)
                      /\ Openings(r, i) = Openings(s, i)
                      /\ \A at : Shut(r, i, at) <=> Shut(s, i, at)
  BY <1>1, <1>2 DEF Opens, Openings, Shut
<1>4. 1..(n + 1) = 1..n \cup {n + 1} /\ n + 1 \notin 1..n
  BY <1>1
<1>5. \A at : Shut(r, n + 1, at) <=> Shut(s, n, at) \/ (f.typ = "close" /\ f.at = at)
  BY <1>1, <1>4 DEF Shut
<1>6. after = before \cup (IF Opens(r, n + 1) THEN {n + 1} ELSE {})
  BY <1>1, <1>3, <1>4 DEF Openings
<1>7. IsFiniteSet(before) /\ Cardinality(before) \in Nat
  <2>1. IsFiniteSet(1..n)
    <3>1. 1 \in Int /\ n \in Int
      BY <1>1
    <3> QED
      BY <3>1, FS_Interval, Zenon
  <2>2. before \subseteq 1..n
    BY DEF Openings
  <2> HIDE DEF before
  <2> QED
    BY <2>1, <2>2, FS_Subset, FS_CardinalityType
<1>8. n + 1 \notin before /\ before \subseteq 1..n
  BY <1>4 DEF Openings
<1> HIDE DEF before, after
<1>9. Cardinality(after) = Cardinality(before) + (IF Opens(r, n + 1) THEN 1 ELSE 0)
  <2>1. CASE Opens(r, n + 1)
    <3>1. after = before \cup {n + 1}
      BY <1>6, <2>1
    <3> QED
      BY <1>7, <1>8, <2>1, <3>1, FS_AddElement
  <2>2. CASE ~Opens(r, n + 1)
    BY <1>6, <1>7, <2>2
  <2> QED
    BY <2>1, <2>2
<1> QED
  BY <1>1, <1>3, <1>5, <1>6, <1>7, <1>8, <1>9 DEF n, before, after

\* A frame keeps its place.
LEMMA NestedGrown ==
  ASSUME NEW d, NEW s, NEW f, NEW r, Grown(s, f, r), NEW i \in DOMAIN s, Nested(d, s, i), s[i].typ # "done"
  PROVE  Nested(d, r, i) /\ r[i].typ # "done"
<1>1. /\ i \in 1..Len(s) /\ Len(s) \in Nat /\ \A j \in 1..Len(s) : r[j] = s[j]
      /\ \A j \in 1..i : j \in 1..Len(s)
      /\ \A j \in 1..(i - 1) : j \in 1..Len(s)
  BY DEF Grown
<1>2. /\ Opens(r, i) <=> Opens(s, i)
      /\ Openings(r, i) = Openings(s, i)
      /\ \A at : Shut(r, i, at) <=> Shut(s, i, at)
  BY <1>1, OpeningsGrown
<1>3. \A j \in Openings(s, i) : r[j] = s[j]
  BY <1>1 DEF Openings
<1> QED
  BY <1>1, <1>2, <1>3 DEF Nested

\* The frame a writer adds, and its locals after it.
Follows(s, w, f, v) ==
  /\ v.started <=> TRUE
  /\ \/ /\ s = <<>> /\ f.typ = "role"
        /\ v.next = w.next /\ v.cur = w.cur /\ v.at = w.at
     \/ /\ s # <<>> /\ f.typ = "close" /\ w.cur # "none" /\ f.at = w.at
        /\ v.next = w.next /\ v.cur = "none"
     \/ /\ s # <<>> /\ f.typ \in {"open", "call"} /\ w.cur = "none" /\ f.at = w.next
        /\ ~Shows(s, "finish")
        /\ v.next = w.next + 1 /\ v.at = w.next /\ v.cur = (IF f.typ = "open" THEN "text" ELSE "call")
     \/ /\ s # <<>> /\ <<f.typ, w.cur>> \in {<<"text", "text">>, <<"args", "call">>} /\ f.at = w.at
        /\ v.next = w.next /\ v.cur = w.cur /\ v.at = w.at
     \/ /\ s # <<>> /\ f.typ \in {"finish", "stop"} /\ w.cur = "none"
        /\ v.next = w.next /\ v.cur = "none"

\* The frames of a stream that is not over, each in its place.
Placed(d, s) == IsSeq(s) /\ \A i \in DOMAIN s : Nested(d, s, i) /\ s[i].typ # "done"

\* What the Anthropic dialect has shown so far.
Good(s, w) == Placed("anthropic", s) /\ Tracks(s, w)

LEMMA OneMore ==
  ASSUME NEW s, NEW w, NEW f, NEW v, Good(s, w), Follows(s, w, f, v)
  PROVE  Good(s \o <<f>>, v)
<1> DEFINE r == s \o <<f>>
           n == Len(s)
           k == Cardinality(Openings(s, n))
<1>1. Grown(s, f, r) /\ IsSeq(r)
  BY Growing DEF Good, Placed
<1> HIDE DEF r
<1>2. /\ n \in Nat /\ Len(r) = n + 1 /\ DOMAIN s = 1..n /\ DOMAIN r = 1..(n + 1)
      /\ \A i \in 1..n : r[i] = s[i]
      /\ r[n + 1] = f /\ r # <<>>
      /\ s = <<>> <=> n = 0
  BY <1>1 DEF Grown
<1>3. /\ \A at : Shut(r, n + 1, at) <=> Shut(s, n, at) \/ (f.typ = "close" /\ f.at = at)
      /\ Openings(r, n + 1) = Openings(s, n) \cup (IF Opens(r, n + 1) THEN {n + 1} ELSE {})
      /\ n + 1 \notin Openings(s, n) /\ Openings(s, n) \subseteq 1..n /\ k \in Nat
      /\ Cardinality(Openings(r, n + 1)) = k + (IF Opens(r, n + 1) THEN 1 ELSE 0)
  BY <1>1, <1>2, OpeningsGrown
<1>4. Opens(r, n + 1) <=> f.typ \in {"open", "call"}
  BY <1>2 DEF Opens
<1>5. \A i \in DOMAIN s : Nested("anthropic", r, i) /\ r[i].typ # "done"
  BY <1>1, NestedGrown DEF Good, Placed
<1>6. /\ w.next = k /\ w.cur \in {"none", "text", "call"}
      /\ w.cur # "none" => w.next > 0 /\ w.at = w.next - 1 /\ ~Shut(s, n, w.at)
      /\ w.cur = "call" => \E j \in DOMAIN s : s[j].typ = "call" /\ s[j].at = w.at
      /\ \A j \in Openings(s, n) :
           s[j].at \in 0..(w.next - 1) /\ (Shut(s, n, s[j].at) \/ (w.cur # "none" /\ s[j].at = w.at))
      /\ \A j \in DOMAIN s : s[j].typ = "close" => s[j].at \in 0..(w.next - 1)
      /\ Shows(s, "finish") => w.cur = "none"
  BY DEF Good, Placed, Tracks
<1> DEFINE after == Openings(r, n + 1)
           m == Cardinality(after)
<1>7. after \ {n + 1} = Openings(s, n) /\ m = k + (IF f.typ \in {"open", "call"} THEN 1 ELSE 0)
  BY <1>3, <1>4
<1>8. \A j \in Openings(s, n) : r[j] = s[j]
  BY <1>2, <1>3
<1> HIDE DEF n, k, after, m
<1>9. (\E j \in 1..n : r[j].typ = "finish") => Shows(s, "finish")
  BY <1>2 DEF Shows
<1>10. f.typ # "done" /\ (f.typ = "role" <=> n + 1 = 1)
  BY <1>2 DEF Follows
<1>11. f.typ = "args" => \E j \in 1..(n + 1) : r[j].typ = "call" /\ r[j].at = f.at
  BY <1>2, <1>6 DEF Follows
<1>12. f.typ \in {"open", "call"} => f.at = m - 1
  BY <1>3, <1>6, <1>7 DEF Follows
<1>13. f.typ \in {"open", "call", "finish"} => \A j \in after \ {n + 1} : Shut(r, n + 1, r[j].at)
  BY <1>3, <1>6, <1>7, <1>8 DEF Follows
<1>14. f.typ \in {"text", "args"} => f.at = m - 1 /\ ~Shut(r, n + 1, f.at)
  BY <1>3, <1>6, <1>7 DEF Follows
<1>15. (\E j \in 1..n : r[j].typ = "finish") => f.typ \in {"finish", "stop"}
  <2>1. s = <<>> => ~Shows(s, "finish")
    BY <1>2 DEF Shows
  <2> QED
    BY <1>6, <1>9, <2>1 DEF Follows
<1>16. Nested("anthropic", r, n + 1)
  <2>1. n + 1 - 1 = n
    BY <1>2
  <2> QED
    BY <1>2, <1>4, <1>10, <1>11, <1>12, <1>13, <1>14, <1>15, <2>1 DEF Nested, m, after
<1>17. Tracks(r, v)
  <2>1. v.next = m
    BY <1>3, <1>6, <1>7 DEF Follows
  <2>2. v.cur \in {"none", "text", "call"} /\ (v.started <=> r # <<>>)
    BY <1>2, <1>6 DEF Follows
  <2>3. v.cur # "none" => v.next > 0 /\ v.at = v.next - 1 /\ ~Shut(r, n + 1, v.at)
    <3>1. ~Shut(s, n, w.next)
      BY <1>2, <1>3, <1>6 DEF Shut
    <3> QED
      BY <1>3, <1>6, <3>1 DEF Follows
  <2>4. v.cur = "call" => \E j \in DOMAIN r : r[j].typ = "call" /\ r[j].at = v.at
    BY <1>2, <1>6 DEF Follows
  <2>5. ASSUME NEW j \in after
        PROVE  /\ r[j].at \in 0..(v.next - 1)
               /\ Shut(r, n + 1, r[j].at) \/ (v.cur # "none" /\ r[j].at = v.at)
    <3>1. CASE j = n + 1
      <4>1. f.typ \in {"open", "call"}
        BY <1>4, <3>1 DEF after, Openings
      <4> QED
        BY <1>2, <1>3, <1>6, <3>1, <4>1 DEF Follows
    <3>2. CASE j # n + 1
      <4>1. j \in Openings(s, n) /\ r[j] = s[j]
        BY <1>7, <1>8, <2>5, <3>2
      <4> QED
        BY <1>3, <1>6, <4>1 DEF Follows
    <3> QED
      BY <3>1, <3>2
  <2>6. ASSUME NEW j \in DOMAIN r, r[j].typ = "close"
        PROVE  r[j].at \in 0..(v.next - 1)
    <3>1. CASE j = n + 1
      BY <1>2, <1>3, <1>6, <2>6, <3>1 DEF Follows
    <3>2. CASE j # n + 1
      <4>1. j \in DOMAIN s /\ r[j] = s[j]
        BY <1>2, <3>2
      <4> QED
        BY <1>3, <1>6, <2>6, <4>1 DEF Follows
    <3> QED
      BY <3>1, <3>2
  <2>7. Shows(r, "finish") => v.cur = "none"
    <3>1. Shows(r, "finish") => Shows(s, "finish") \/ f.typ = "finish"
      BY <1>2 DEF Shows
    <3>2. s = <<>> => ~Shows(s, "finish")
      BY <1>2 DEF Shows
    <3> QED
      BY <1>6, <3>1, <3>2 DEF Follows
  <2> QED
    BY <1>2, <2>1, <2>2, <2>3, <2>4, <2>5, <2>6, <2>7 DEF Tracks, m, after
<1>18. \A i \in DOMAIN r : Nested("anthropic", r, i) /\ r[i].typ # "done"
  <2>1. \A i \in DOMAIN r : i \in DOMAIN s \/ i = n + 1
    BY <1>2
  <2> QED
    BY <1>2, <1>5, <1>10, <1>16, <2>1
<1> QED
  BY <1>1, <1>17, <1>18 DEF Good, Placed, r

LEMMA Pair ==
  ASSUME NEW f, NEW g
  PROVE  IsSeq(<<f, g>>) /\ <<f>> \o <<g>> = <<f, g>>
<1>1. <<f, g>> \in Seq({f, g}) /\ <<f>> \in Seq({f, g}) /\ <<g>> \in Seq({f, g})
  OBVIOUS
<1> DEFINE s == <<f>>
           t == <<g>>
           u == <<f, g>>
<1>2. /\ Len(s) = 1 /\ s[1] = f /\ Len(t) = 1 /\ t[1] = g
      /\ Len(u) = 2 /\ u[1] = f /\ u[2] = g
  OBVIOUS
<1> HIDE DEF s, t, u
<1>3. Len(s \o t) = 2 /\ (s \o t)[1] = f /\ (s \o t)[2] = g /\ s \o t \in Seq({f, g})
  BY <1>1, <1>2 DEF s, t
<1> DEFINE r == s \o t
           any == {f, g}
<1>4. r \in Seq(any) /\ Len(r) = 2 /\ u \in Seq(any)
  BY <1>1, <1>3 DEF u
<1>5. r[1] = u[1] /\ r[2] = u[2]
  BY <1>2, <1>3
<1> HIDE DEF r, any
<1>6. r = [i \in 1..2 |-> r[i]] /\ u = [i \in 1..2 |-> u[i]]
  BY <1>2, <1>4
<1>7. \A i \in 1..2 : r[i] = u[i]
  BY <1>5
<1>8. r = u
  BY <1>6, <1>7
<1> QED
  BY <1>4, <1>8 DEF IsSeq, r, s, t, u

LEMMA TwoMore ==
  ASSUME NEW s, NEW w, NEW f, NEW v, NEW g, NEW u, Good(s, w),
         Follows(s, w, f, v), Follows(s \o <<f>>, v, g, u)
  PROVE  Good(s \o <<f, g>>, u) /\ IsSeq(<<f, g>>) /\ s \o <<f, g>> # <<>>
<1> DEFINE one == <<f>>
           two == <<g>>
<1>1. Good(s \o one, v)
  BY OneMore
<1>2. Good((s \o one) \o two, u)
  BY <1>1, OneMore
<1>3. IsSeq(s) /\ IsSeq(one) /\ IsSeq(two)
  BY Short DEF Good, Placed
<1>4. one \o two = <<f, g>>
  BY Pair
<1> HIDE DEF one, two
<1>5. Regroup(s, one, two) /\ IsSeq(s \o one)
  BY <1>3, Regrouped, Joined
<1> DEFINE r == s \o one
<1>6. r \o two # <<>>
  <2> HIDE DEF r
  <2>1. Grown(r, g, r \o <<g>>)
    BY <1>5, Growing DEF r
  <2> QED
    BY <2>1 DEF Grown, two
<1> QED
  BY <1>2, <1>4, <1>5, <1>6, Pair DEF Regroup

\* The open block is closed.
LEMMA CloseGood ==
  ASSUME NEW s, NEW w, IsWriter(w), Good(s, w), s # <<>>
  PROVE  LET r == s \o S!CloseCur(w) IN
           /\ Good(r, [w EXCEPT !.cur = "none"]) /\ r # <<>>
           /\ Shows(r, "finish") => Shows(s, "finish")
<1> DEFINE close == S!Frame("close", w.at, <<>>)
           v == [w EXCEPT !.cur = "none"]
           r == s \o S!CloseCur(w)
<1>1. v.started = w.started /\ v.next = w.next /\ v.cur = "none" /\ v.at = w.at
  BY DEF IsWriter, WriterFields
<1>2. close.typ = "close" /\ close.at = w.at
  BY FrameFields
<1>3. S!CloseCur(w) = IF w.cur = "none" THEN <<>> ELSE <<close>>
  BY DEF S!CloseCur
<1>4. w.started <=> TRUE
  BY DEF Good, Placed, Tracks
<1> HIDE DEF close, v
<1>5. CASE w.cur = "none"
  <2>1. r = s
    BY <1>3, <1>5, Joining DEF Good, Placed
  <2>2. Tracks(s, v)
    BY <1>1, <1>5 DEF Good, Placed, Tracks
  <2> QED
    BY <2>1, <2>2 DEF Good, Placed, v
<1>6. CASE w.cur # "none"
  <2>1. r = s \o <<close>>
    BY <1>3, <1>6
  <2>2. Follows(s, w, close, v)
    BY <1>1, <1>2, <1>4, <1>6 DEF Follows
  <2>3. Good(s \o <<close>>, v)
    BY <2>2, OneMore
  <2>4. Grown(s, close, s \o <<close>>)
    BY Growing DEF Good, Placed
  <2> DEFINE t == s \o <<close>>
  <2> HIDE DEF t
  <2>5. t # <<>> /\ (Shows(t, "finish") => Shows(s, "finish"))
    BY <1>2, <2>4 DEF Grown, Shows, t
  <2> QED
    BY <2>1, <2>3, <2>5 DEF v, t
<1> QED
  BY <1>5, <1>6 DEF v

LEMMA AnthropicGood ==
  ASSUME NEW s, NEW w, NEW e, IsWriter(w), Good(s, w), IsEvent(e), e.kind # "error",
         e.kind = "start" <=> s = <<>>, Shows(s, "finish") => e.kind = "end"
  PROVE  LET done == S!WriteAnthropic(e, w) IN Good(s \o done.frames, done.w) /\ s \o done.frames # <<>>
<1> DEFINE done == S!WriteAnthropic(e, w)
           begun == [w EXCEPT !.started = TRUE]
           fresh == S!Block(w, IF e.kind = "text" THEN "text" ELSE "call", e.tool)
           idle == [S!Sum(w, e.use) EXCEPT !.cur = "none"]
           still == [w EXCEPT !.cur = "none"]
           start == S!EnsureStarted(w)
           close == S!CloseCur(w)
           role == S!Frame("role", 0, <<>>)
           text == S!Frame("text", w.at, <<e.n>>)
           open == S!Frame("open", w.next, <<>>)
           first == S!Frame("text", w.next, <<e.n>>)
           call == [S!Frame("call", w.next, <<>>) EXCEPT !.id = e.id]
           args == S!Frame("args", w.at, <<e.n>>)
           finish == S!Frame("finish", 0, <<>>)
           stop == S!Frame("stop", 0, <<>>)
           given == IF w.cur = "call" /\ w.tool = e.tool THEN <<args>> ELSE <<>>
<1>1. /\ e.kind = "start" => done = S!Wrote(begun, start)
      /\ e.kind = "text" /\ w.cur = "text" => done = S!Wrote(begun, start \o <<text>>)
      /\ e.kind = "text" /\ w.cur # "text" => done = S!Wrote(fresh, (start \o close) \o <<open, first>>)
      /\ e.kind = "call" => done = S!Wrote(fresh, (start \o close) \o <<call>>)
      /\ e.kind = "args" => done = S!Wrote(w, given)
      /\ e.kind = "end" => done = S!Wrote(idle, close \o <<finish, stop>>)
  BY Zenon DEF S!WriteAnthropic
<1>2. /\ begun.started = TRUE /\ begun.next = w.next /\ begun.cur = w.cur /\ begun.at = w.at
      /\ fresh.started = TRUE /\ fresh.next = w.next + 1 /\ fresh.at = w.next
      /\ fresh.cur = (IF e.kind = "text" THEN "text" ELSE "call")
      /\ idle.started = w.started /\ idle.next = w.next /\ idle.cur = "none"
      /\ still.started = w.started /\ still.next = w.next /\ still.cur = "none" /\ still.at = w.at
  BY DEF IsWriter, WriterFields, S!Block, S!Sum
<1>3. /\ role.typ = "role" /\ text.typ = "text" /\ text.at = w.at /\ open.typ = "open" /\ open.at = w.next
      /\ first.typ = "text" /\ first.at = w.next /\ call.typ = "call" /\ call.at = w.next
      /\ args.typ = "args" /\ args.at = w.at /\ finish.typ = "finish" /\ stop.typ = "stop"
  BY FrameFields
<1>4. \A x, frames : S!Wrote(x, frames).w = x /\ S!Wrote(x, frames).frames = frames
  BY DEF S!Wrote
<1>5. start = IF w.started THEN <<>> ELSE <<role>>
  BY DEF S!EnsureStarted
<1>6. (w.started <=> s # <<>>) /\ IsSeq(s)
  BY DEF Good, Placed, Tracks
<1>7. s # <<>> => /\ Good(s \o close, still) /\ s \o close # <<>>
                  /\ Shows(s \o close, "finish") => Shows(s, "finish")
  BY CloseGood
<1>8. IsSeq(close) /\ IsSeq(<<>>)
  <2>1. Fits(e, close)
    BY StartedClosed
  <2> QED
    BY <2>1, Short DEF Fits
<1> DEFINE shut == s \o close
<1>9. \A t : IsSeq(t) => s \o (close \o t) = shut \o t
  <2> TAKE t
  <2> HAVE IsSeq(t)
  <2> HIDE DEF close
  <2>1. Regroup(s, close, t)
    BY <1>6, <1>8, Regrouped
  <2> QED
    BY <2>1 DEF Regroup
<1>10. <<>> \o close = close /\ \A x : <<>> \o <<x>> = <<x>>
  <2>1. <<>> \o close = close
    BY <1>8, Joining
  <2> QED
    BY <2>1, Short, Joining
<1> HIDE DEF done, begun, fresh, idle, still, start, close, role, text, open, first, call, args, finish, stop, shut
<1>11. \A f : IsSeq(<<f>>) /\ \A t : IsSeq(t) => t \o <<f>> # <<>>
  <2>1. ASSUME NEW f, NEW t, IsSeq(t)
        PROVE  t \o <<f>> # <<>>
    BY <2>1, Growing DEF Grown
  <2> QED
    BY <2>1, Short
<1>12. CASE e.kind = "start"
  <2>1. start = <<role>> /\ s = <<>>
    BY <1>5, <1>6, <1>12
  <2>2. Follows(s, w, role, begun)
    BY <1>2, <1>3, <2>1 DEF Follows
  <2>3. Good(s \o <<role>>, begun)
    BY <2>2, OneMore
  <2>4. done.w = begun /\ done.frames = <<role>>
    BY <1>1, <1>4, <1>12, <2>1
  <2> QED
    BY <1>6, <1>11, <2>3, <2>4 DEF done
<1>13. CASE e.kind = "text" /\ w.cur = "text"
  <2>1. start = <<>> /\ s # <<>>
    BY <1>5, <1>6, <1>13
  <2>2. Follows(s, w, text, begun)
    BY <1>2, <1>3, <1>13, <2>1 DEF Follows
  <2>3. Good(s \o <<text>>, begun)
    BY <2>2, OneMore
  <2>4. done.w = begun /\ done.frames = <<text>>
    BY <1>1, <1>4, <1>10, <1>13, <2>1
  <2> QED
    BY <1>6, <1>11, <2>3, <2>4 DEF done
<1>14. CASE e.kind = "text" /\ w.cur # "text"
  <2>1. start = <<>> /\ s # <<>>
    BY <1>5, <1>6, <1>14
  <2>2. Good(shut, still) /\ shut # <<>> /\ ~Shows(shut, "finish") /\ IsSeq(shut)
    BY <1>7, <1>14, <2>1 DEF shut, Good, Placed
  <2>3. Follows(shut, still, open, fresh)
    BY <1>2, <1>3, <1>14, <2>2 DEF Follows
  <2>4. Follows(shut \o <<open>>, fresh, first, fresh)
    BY <1>2, <1>3, <1>11, <1>14, <2>2 DEF Follows
  <2>5. /\ Good(shut \o <<open, first>>, fresh)
        /\ IsSeq(<<open, first>>) /\ shut \o <<open, first>> # <<>>
    BY <2>2, <2>3, <2>4, TwoMore
  <2>6. s \o (close \o <<open, first>>) = shut \o <<open, first>>
    BY <1>9, <2>5
  <2>7. done.w = fresh /\ done.frames = close \o <<open, first>>
    <3>1. start \o close = close
      BY <1>10, <2>1
    <3>2. done = S!Wrote(fresh, close \o <<open, first>>)
      BY <1>1, <1>14, <3>1
    <3> QED
      BY <1>4, <3>2
  <2> QED
    BY <2>5, <2>6, <2>7 DEF done
<1>15. CASE e.kind = "call"
  <2>1. start = <<>> /\ s # <<>>
    BY <1>5, <1>6, <1>15
  <2>2. Good(shut, still) /\ shut # <<>> /\ ~Shows(shut, "finish") /\ IsSeq(shut)
    BY <1>7, <1>15, <2>1 DEF shut, Good, Placed
  <2>3. Follows(shut, still, call, fresh)
    BY <1>2, <1>3, <1>15, <2>2 DEF Follows
  <2>4. Good(shut \o <<call>>, fresh)
    BY <2>2, <2>3, OneMore
  <2>5. done.w = fresh /\ done.frames = close \o <<call>>
    <3>1. start \o close = close
      BY <1>10, <2>1
    <3>2. done = S!Wrote(fresh, close \o <<call>>)
      BY <1>1, <1>15, <3>1
    <3> QED
      BY <1>4, <3>2
  <2>6. s \o (close \o <<call>>) = shut \o <<call>> /\ shut \o <<call>> # <<>>
    BY <1>9, <1>11, <2>2
  <2> QED
    BY <2>4, <2>5, <2>6 DEF done
<1>16. CASE e.kind = "args"
  <2>1. s # <<>> /\ (w.started <=> TRUE)
    BY <1>6, <1>16
  <2>2. done.w = w /\ done.frames = given
    BY <1>1, <1>4, <1>16
  <2>3. w.cur = "call" => Follows(s, w, args, w)
    BY <1>3, <2>1 DEF Follows
  <2>4. CASE given = <<args>> /\ w.cur = "call"
    BY <1>6, <1>11, <2>2, <2>3, <2>4, OneMore DEF done
  <2>5. CASE given = <<>>
    BY <1>6, <2>1, <2>2, <2>5, Joining DEF done
  <2> QED
    BY <2>4, <2>5
<1>17. CASE e.kind = "end"
  <2>1. start = <<>> /\ s # <<>> /\ (w.started <=> TRUE)
    BY <1>5, <1>6, <1>17
  <2>2. Good(shut, still) /\ shut # <<>> /\ IsSeq(shut)
    BY <1>7, <1>17, <2>1 DEF shut, Good, Placed
  <2>3. Follows(shut, still, finish, idle)
    BY <1>2, <1>3, <2>1, <2>2 DEF Follows
  <2>4. Follows(shut \o <<finish>>, idle, stop, idle)
    BY <1>2, <1>3, <1>11, <2>1, <2>2 DEF Follows
  <2>5. /\ Good(shut \o <<finish, stop>>, idle)
        /\ IsSeq(<<finish, stop>>) /\ shut \o <<finish, stop>> # <<>>
    BY <2>2, <2>3, <2>4, TwoMore
  <2>6. s \o (close \o <<finish, stop>>) = shut \o <<finish, stop>>
    BY <1>9, <2>5
  <2>7. done.w = idle /\ done.frames = close \o <<finish, stop>>
    <3>1. done = S!Wrote(idle, close \o <<finish, stop>>)
      BY <1>1, <1>17
    <3> QED
      BY <1>4, <3>1
  <2> QED
    BY <2>5, <2>6, <2>7 DEF done
<1> QED
  BY <1>12, <1>13, <1>14, <1>15, <1>16, <1>17 DEF IsEvent, EventKinds

Called(s, tool) == \E j \in DOMAIN s : s[j].typ = "call" /\ s[j].at = tool

\* One frame more in a dialect without blocks.
LEMMA PlainMore ==
  ASSUME NEW s, NEW f, Placed("openai", s), f.typ # "done",
         f.typ = "role" <=> s = <<>>, f.typ = "args" => Called(s, f.at)
  PROVE  /\ Placed("openai", s \o <<f>>) /\ s \o <<f>> # <<>>
         /\ f.typ = "call" => Called(s \o <<f>>, f.at)
         /\ \A tool : Called(s, tool) => Called(s \o <<f>>, tool)
<1> DEFINE r == s \o <<f>>
           n == Len(s)
<1>1. Grown(s, f, r) /\ IsSeq(r)
  BY Growing DEF Placed
<1> HIDE DEF r
<1>2. /\ n \in Nat /\ Len(r) = n + 1 /\ DOMAIN s = 1..n /\ DOMAIN r = 1..(n + 1)
      /\ \A i \in 1..n : r[i] = s[i]
      /\ r[n + 1] = f /\ r # <<>>
      /\ s = <<>> <=> n = 0
  BY <1>1 DEF Grown
<1>3. \A i \in DOMAIN s : Nested("openai", r, i) /\ r[i].typ # "done"
  BY <1>1, NestedGrown DEF Placed
<1> HIDE DEF n
<1>4. f.typ = "args" => \E j \in 1..(n + 1) : r[j].typ = "call" /\ r[j].at = f.at
  BY <1>2 DEF Called
<1>5. f.typ = "role" <=> n + 1 = 1
  BY <1>2
<1>6. Nested("openai", r, n + 1)
  BY <1>2, <1>4, <1>5 DEF Nested
<1>7. \A i \in DOMAIN r : Nested("openai", r, i) /\ r[i].typ # "done"
  <2>1. \A i \in DOMAIN r : i \in DOMAIN s \/ i = n + 1
    BY <1>2
  <2> QED
    BY <1>2, <1>3, <1>6, <2>1
<1>8. /\ f.typ = "call" => Called(r, f.at)
      /\ \A tool : Called(s, tool) => Called(r, tool)
  BY <1>2 DEF Called
<1> QED
  BY <1>1, <1>2, <1>7, <1>8 DEF Placed, r

LEMMA OpenAIGood ==
  ASSUME NEW s, NEW w, NEW e, Placed("openai", s), IsEvent(e), e.kind # "error",
         e.kind = "start" <=> s = <<>>, e.kind = "args" => Called(s, e.tool)
  PROVE  LET r == s \o S!WriteOpenAI(e, w).frames IN
           /\ Placed("openai", r) /\ r # <<>>
           /\ e.kind = "call" => Called(r, e.tool)
           /\ \A tool : Called(s, tool) => Called(r, tool)
<1> DEFINE done == S!WriteOpenAI(e, w)
           frames == done.frames
           role == S!Frame("role", 0, <<>>)
           text == S!Frame("text", 0, <<e.n>>)
           call == [S!Frame("call", e.tool, <<>>) EXCEPT !.id = e.id]
           args == S!Frame("args", e.tool, <<e.n>>)
           finish == S!Frame("finish", 0, <<>>)
           usage == S!Frame("usage", 0, <<>>)
           last == IF e.use > 0 THEN <<usage>> ELSE <<>>
           sum == S!Sum(w, e.use)
<1>1. /\ e.kind = "start" => done = S!Wrote(w, <<role>>)
      /\ e.kind = "text" => done = S!Wrote(w, <<text>>)
      /\ e.kind = "call" => done = S!Wrote(w, <<call>>)
      /\ e.kind = "args" => done = S!Wrote(w, <<args>>)
  BY DEF S!WriteOpenAI
<1>2. e.kind = "end" => done = S!Wrote(sum, <<finish>> \o last)
  BY Zenon DEF S!WriteOpenAI
<1>3. \A x, fs : S!Wrote(x, fs).frames = fs
  BY DEF S!Wrote
<1>4. /\ role.typ = "role" /\ text.typ = "text" /\ call.typ = "call" /\ call.at = e.tool
      /\ args.typ = "args" /\ args.at = e.tool /\ finish.typ = "finish" /\ usage.typ = "usage"
  BY FrameFields
<1>5. /\ e.kind = "start" => frames = <<role>>
      /\ e.kind = "text" => frames = <<text>>
      /\ e.kind = "call" => frames = <<call>>
      /\ e.kind = "args" => frames = <<args>>
      /\ e.kind = "end" => frames = <<finish>> \o last
  <2> HIDE DEF done, role, text, call, args, finish, last, sum
  <2> QED
    BY <1>1, <1>2, <1>3
<1> HIDE DEF done, frames, role, text, call, args, finish, usage, sum
<1>6. ASSUME e.kind # "end"
      PROVE  \E f : /\ frames = <<f>> /\ f.typ = (IF e.kind = "start" THEN "role" ELSE e.kind)
                    /\ e.kind \in {"call", "args"} => f.at = e.tool
  BY <1>4, <1>5, <1>6 DEF IsEvent, EventKinds
<1>7. CASE e.kind # "end"
  <2>1. PICK f : /\ frames = <<f>> /\ f.typ = (IF e.kind = "start" THEN "role" ELSE e.kind)
                 /\ e.kind \in {"call", "args"} => f.at = e.tool
    BY <1>6, <1>7
  <2>2. /\ f.typ # "done" /\ (f.typ = "role" <=> s = <<>>)
        /\ f.typ = "args" => Called(s, f.at)
        /\ e.kind = "call" <=> f.typ = "call"
    BY <1>7, <2>1 DEF IsEvent, EventKinds
  <2>3. /\ Placed("openai", s \o <<f>>) /\ s \o <<f>> # <<>>
        /\ f.typ = "call" => Called(s \o <<f>>, f.at)
        /\ \A tool : Called(s, tool) => Called(s \o <<f>>, tool)
    BY <2>2, PlainMore
  <2> QED
    BY <2>1, <2>2, <2>3 DEF frames, done
<1>8. CASE e.kind = "end"
  <2> DEFINE one == s \o <<finish>>
             two == one \o <<usage>>
  <2>1. s # <<>> /\ IsSeq(s)
    BY <1>8 DEF Placed
  <2>2. Placed("openai", one) /\ one # <<>> /\ \A tool : Called(s, tool) => Called(one, tool)
    BY <1>4, <2>1, PlainMore
  <2> HIDE DEF one
  <2>3. Placed("openai", two) /\ two # <<>> /\ \A tool : Called(one, tool) => Called(two, tool)
    BY <1>4, <2>2, PlainMore
  <2> HIDE DEF two
  <2>4. s \o (<<finish>> \o last) = IF e.use > 0 THEN two ELSE one
    <3> DEFINE x == <<finish>>
               y == <<usage>>
    <3>1. IsSeq(x) /\ IsSeq(y) /\ x \o <<>> = x
      BY Short, Joining
    <3> HIDE DEF x, y
    <3>2. Regroup(s, x, y)
      BY <2>1, <3>1, Regrouped
    <3>3. s \o (x \o y) = (s \o x) \o y
      BY <3>2 DEF Regroup
    <3>4. last = IF e.use > 0 THEN y ELSE <<>>
      BY DEF y
    <3> QED
      BY <3>1, <3>3, <3>4 DEF x, y, one, two
  <2> DEFINE r == s \o frames
  <2>5. r = two \/ r = one
    BY <1>5, <1>8, <2>4
  <2> HIDE DEF r
  <2>6. Placed("openai", r) /\ r # <<>> /\ \A tool : Called(s, tool) => Called(r, tool)
    BY <2>2, <2>3, <2>5
  <2> QED
    BY <1>8, <2>6 DEF r, frames, done
<1> QED
  BY <1>7, <1>8

\* In the Gemini dialect arguments come with their call.
LEMMA GeminiMore ==
  ASSUME NEW s, NEW t, Placed("gemini", s), IsSeq(t), \A f \in Of(t) : f.typ \notin {"args", "done"}
  PROVE  Placed("gemini", s \o t)
<1> DEFINE r == s \o t
           n == Len(s)
<1>1. Parts(s, t, r) /\ IsSeq(r)
  BY InParts, Joined DEF Placed
<1> HIDE DEF r
<1> SUFFICES ASSUME NEW i \in DOMAIN r
             PROVE  Nested("gemini", r, i) /\ r[i].typ # "done"
  BY <1>1 DEF Placed, r
<1>2. CASE i \in DOMAIN s
  <2>1. r[i] = s[i] /\ Nested("gemini", s, i) /\ s[i].typ # "done"
    BY <1>1, <1>2 DEF Parts, Placed
  <2>2. \A j \in 1..i : r[j] = s[j]
    BY <1>1, <1>2 DEF Parts
  <2> QED
    BY <2>1, <2>2 DEF Nested
<1>3. CASE i \notin DOMAIN s
  <2>1. r[i] \in Of(t)
    BY <1>1, <1>3 DEF Parts, Of
  <2> QED
    BY <2>1 DEF Nested
<1> QED
  BY <1>2, <1>3

LEMMA GeminiGood ==
  ASSUME NEW s, NEW w, NEW e, Placed("gemini", s), IsEvent(e), e.kind # "error", IsWriter(w)
  PROVE  Placed("gemini", s \o S!WriteGemini(e, w).frames)
<1> DEFINE done == S!WriteGemini(e, w)
           held == w.held
           text == S!Frame("text", 0, <<e.n>>)
           finish == S!Frame("finish", 0, <<>>)
           calls == [i \in DOMAIN held |-> [S!Frame("call", i - 1, held[i].ns) EXCEPT !.id = held[i].id]]
           Fine(frames) == IsSeq(frames) /\ \A f \in Of(frames) : f.typ \notin {"args", "done"}
<1>1. /\ e.kind \in {"start", "call", "args"} => \E x : done = S!Wrote(x, <<>>)
      /\ e.kind = "text" => \E x : done = S!Wrote(x, <<text>>)
      /\ e.kind = "end" => \E x : done = S!Wrote(x, calls \o <<finish>>)
  <2>1. e.kind = "start" => \E x : done = S!Wrote(x, <<>>)
    BY Zenon DEF S!WriteGemini
  <2>2. e.kind = "text" => \E x : done = S!Wrote(x, <<text>>)
    BY Zenon DEF S!WriteGemini
  <2>3. e.kind = "call" => \E x : done = S!Wrote(x, <<>>)
    BY Zenon DEF S!WriteGemini
  <2>4. e.kind = "args" => \E x : done = S!Wrote(x, <<>>)
    BY Zenon DEF S!WriteGemini
  <2>5. e.kind = "end" => \E x : done = S!Wrote(x, calls \o <<finish>>)
    BY Zenon DEF S!WriteGemini
  <2> HIDE DEF done, text, calls, finish
  <2> QED
    BY <2>1, <2>2, <2>3, <2>4, <2>5
<1>2. Fine(<<>>)
  BY Short
<1>3. Fine(<<text>>) /\ Fine(<<finish>>)
  <2>1. text.typ = "text" /\ finish.typ = "finish"
    BY FrameFields
  <2> HIDE DEF text, finish
  <2> QED
    BY <2>1, Short
<1>4. Fine(calls)
  <2>1. calls = [i \in DOMAIN held |-> calls[i]]
    OBVIOUS
  <2>2. \A i \in DOMAIN held : calls[i].typ = "call"
    BY FrameFields
  <2>3. IsSeq(held)
    BY DEF IsWriter
  <2> HIDE DEF calls, held
  <2>4. IsSeq(calls) /\ DOMAIN calls = DOMAIN held
    BY <2>1, <2>3, MappedSeq
  <2> QED
    BY <2>2, <2>4 DEF Of
<1> HIDE DEF done, text, finish, calls
<1> DEFINE all == calls \o <<finish>>
<1>5. Fine(all)
  BY <1>3, <1>4, Joined
<1> HIDE DEF all, Fine
<1>6. \A x, fs : S!Wrote(x, fs).frames = fs
  BY DEF S!Wrote
<1>7. Fine(done.frames)
  <2>1. CASE e.kind \in {"start", "call", "args"}
    BY <1>1, <1>2, <1>6, <2>1
  <2>2. CASE e.kind = "text"
    BY <1>1, <1>3, <1>6, <2>2
  <2>3. CASE e.kind = "end"
    <3>1. PICK x : done = S!Wrote(x, all)
      BY <1>1, <2>3 DEF all
    <3> QED
      BY <1>5, <1>6, <3>1
  <2> QED
    BY <2>1, <2>2, <2>3 DEF IsEvent, EventKinds
<1> QED
  BY <1>7, GeminiMore DEF Fine, done

-----------------------------------------------------------------------------
(* The frames of a stream nest *)

\* The client is still there and the handler has not returned.
Live == ~gone /\ reply = "none"
\* The upstream says no more.
Silent == up.phase \notin Active

\* An error is the last event of a stream.
ErrorIsLast ==
  /\ \A c \in Of(wire) : c.bad => Silent
  /\ Has(Flow, "error") => parser.pc # "read" \/ (wire = <<>> /\ Silent)

\* The events in flight open with the start, unless the client has been shown it.
Begun == shown # <<>> \/ Has(Flow, "start")
StartOnce ==
  /\ ~Begun => \A e \in Of(Flow) : e.kind = "error"
  /\ StartFirst(Flow) /\ (shown # <<>> => ~Has(Flow, "start"))
StartIsSent ==
  /\ up.phase = "before" => wire = <<>> /\ ~Begun /\ ~parser.started
  /\ \A c \in Of(wire) : c.start => ~Begun /\ ~parser.started
  /\ backend \in {"openai", "gemini", "bedrock"} => (parser.started <=> Begun)
  /\ backend = "openai" => /\ up.phase = "finished" => Begun \/ \E c \in Of(wire) : Tells(c)
                           /\ \A c \in Of(wire) : Carries(c) /\ ~Tells(c) => Begun
  /\ backend \notin {"openai", "gemini", "bedrock"} =>
       /\ up.phase \in {"talking", "finished"} => Begun \/ \E c \in Of(wire) : c.start
       /\ \A c \in Of(wire) : ~c.start /\ Says(c) => Begun

\* After an end only ends and an error are in flight, and nothing else is said.
EndSent == Has(Flow, "end") \/ Shows(shown, "finish")
EndsLast ==
  /\ EndsTrail(Flow)
  /\ Shows(shown, "finish") => \A e \in Of(Flow) : Over(e)
  /\ EndSent => \A c \in Of(wire) : ~c.start /\ c.text = 0 /\ c.calls = <<>>

\* The calls the client has been told of, and those it will be by what is in flight.
Told == {f.at : f \in {d \in Of(shown) : d.typ = "call"}}
Sent == Told \cup CallsIn(Flow)
CallIsSent ==
  /\ backend = "openai" => Of(parser.blocks) \subseteq Sent
  /\ backend \in {"anthropic", "bedrock"} =>
       /\ \A i \in DOMAIN parser.blocks : i - 1 \in Sent
       /\ up.open = "call" => parser.blocks # <<>> \/ \E c \in Of(wire) : Opening(c)
       /\ \A c \in Of(wire) : Adding(c) => parser.blocks # <<>>
  /\ backend \notin {"openai", "anthropic", "bedrock", "gemini"} =>
       /\ up.open = "call" => \/ up.calls - 1 \in Sent
                              \/ \E c \in Of(wire) : Opening(c) /\ c.calls[1].at = up.calls - 1
       /\ \A c \in Of(wire) : Adding(c) => c.calls[1].at \in Sent

NestInv ==
  /\ client \in {"openai", "anthropic", "gemini"}
  /\ ErrorIsLast
  /\ \A i \in DOMAIN shown : Nested(client, shown, i)
  /\ Live /\ client # "gemini" => StartOnce /\ StartIsSent
  /\ Live /\ client = "anthropic" => EndsLast /\ Tracks(shown, writer)
  /\ Live /\ client = "openai" => ArgsAfter(Flow, Told) /\ CallIsSent

LEMMA ToldIs == \A tool : tool \in Told <=> Called(shown, tool)
BY DEF Told, Called, Of

LEMMA NestInit == S!Init /\ client \in {"openai", "anthropic", "gemini"} => NestInv
<1> SUFFICES ASSUME S!Init, client \in {"openai", "anthropic", "gemini"} PROVE NestInv
  OBVIOUS
<1>1. /\ up.phase = "before" /\ up.open = "none" /\ parser.blocks = <<>> /\ (parser.started <=> FALSE)
      /\ parser.pend = <<>> /\ (writer.started <=> FALSE) /\ writer.next = 0 /\ writer.cur = "none"
  BY DEF S!Init
<1>2. wire = <<>> /\ out = <<>> /\ ch = <<>> /\ shown = <<>>
  BY DEF S!Init
<1>3. /\ Of(wire) = {} /\ DOMAIN shown = {} /\ Len(shown) = 0 /\ DOMAIN parser.blocks = {}
      /\ Of(parser.blocks) = {} /\ Of(shown) = {}
  BY <1>1, <1>2, Short
<1>4. Flow = <<>> /\ Of(Flow) = {} /\ DOMAIN Flow = {}
  BY <1>1, <1>2, Short, Joining DEF Flow
<1>5. ErrorIsLast
  BY <1>3, <1>4 DEF ErrorIsLast, Has
<1>6. StartOnce /\ ~Begun
  BY <1>2, <1>4 DEF StartOnce, Begun, StartFirst, Has
<1>7. StartIsSent
  BY <1>1, <1>2, <1>3, <1>6 DEF StartIsSent
<1>8. EndsLast
  BY <1>3, <1>4 DEF EndsLast, EndSent, EndsTrail, Has, Shows
<1>9. Tracks(shown, writer)
  <2>1. 1..0 = {}
    OBVIOUS
  <2>2. Openings(shown, 0) = {} /\ ~\E at : Shut(shown, 0, at)
    BY <2>1 DEF Openings, Shut
  <2>3. Cardinality({}) = 0
    BY FS_EmptySet
  <2> QED
    BY <1>1, <1>2, <1>3, <2>2, <2>3 DEF Tracks, Shows
<1>10. ArgsAfter(Flow, Told) /\ CallIsSent
  BY <1>1, <1>3, <1>4 DEF ArgsAfter, CallIsSent
<1> QED
  BY <1>3, <1>5, <1>6, <1>7, <1>8, <1>9, <1>10 DEF NestInv

\* What a parser makes of a chunk is in order.
LEMMA BriefOrder ==
  ASSUME NEW s, NEW kind, Brief(s, kind)
  PROVE  /\ IsSeq(s) /\ StartFirst(s) /\ EndsTrail(s)
         /\ \A e \in Of(s) : e.kind = kind
         /\ \A other : Has(s, other) => other = kind /\ s # <<>>
         /\ s # <<>> => Has(s, kind) /\ s[1] \in Of(s) /\ Of(s) = {s[1]}
         /\ kind # "args" => \A tools : ArgsAfter(s, tools)
         /\ \A tools : (s # <<>> => s[1].tool \in tools) => ArgsAfter(s, tools)
<1>1. IsSeq(s) /\ \A e \in Of(s) : e.kind = kind
  BY BriefSeq
<1>2. s = <<>> \/ (DOMAIN s = {1} /\ s = <<s[1]>>)
  <2>1. s = <<>> \/ \E e : s = <<e>>
    BY DEF Brief
  <2> QED
    BY <2>1, Short
<1>3. CASE s = <<>>
  <2>1. DOMAIN s = {} /\ Of(s) = {}
    BY <1>3, Short
  <2> QED
    BY <1>1, <1>3, <2>1 DEF StartFirst, EndsTrail, Has, ArgsAfter
<1>4. CASE s # <<>>
  <2>1. DOMAIN s = {1} /\ Of(s) = {s[1]} /\ s[1].kind = kind
    BY <1>1, <1>2, <1>4 DEF Of
  <2>2. StartFirst(s) /\ EndsTrail(s)
    BY <2>1 DEF StartFirst, EndsTrail
  <2>3. \A other : Has(s, other) <=> other = kind
    BY <2>1 DEF Has
  <2>4. /\ kind # "args" => \A tools : ArgsAfter(s, tools)
        /\ \A tools : s[1].tool \in tools => ArgsAfter(s, tools)
    BY <2>1 DEF ArgsAfter
  <2> QED
    BY <1>1, <1>4, <2>1, <2>2, <2>3, <2>4
<1> QED
  BY <1>3, <1>4

LEMMA NewEvents ==
  ASSUME NEW c, NEW s, NEW t, NEW o, NEW a, NEW e, NEW x, Ordered(c, s, t, o, a, e, x)
  PROVE  LET new == Whole(s, t, o, a, e, x) IN
           /\ IsSeq(new) /\ StartFirst(new) /\ EndsTrail(new)
           /\ Has(new, "start") <=> s # <<>>
           /\ Has(new, "error") => c.bad
           /\ Has(new, "end") => e # <<>>
           /\ CallsIn(new) = CallsIn(o) /\ (o # <<>> => CallsIn(o) = {o[1].tool})
           /\ s = <<>> /\ t = <<>> /\ o \o a = <<>> => \A v \in Of(new) : Over(v)
           /\ s = <<>> /\ t = <<>> /\ o \o a = <<>> /\ e = <<>> => \A v \in Of(new) : v.kind = "error"
           /\ \A tools : (a # <<>> => a[1].tool \in tools \cup CallsIn(o)) => ArgsAfter(new, tools)
<1> DEFINE st == s \o t
           oa == o \o a
           sta == st \o oa
           all == sta \o e
           new == all \o x
<1>1. /\ Brief(s, "start") /\ Brief(t, "text") /\ Brief(o, "call")
      /\ Brief(a, "args") /\ Brief(e, "end") /\ Brief(x, "error") /\ (x # <<>> => c.bad)
  BY DEF Ordered
<1>2. new = Whole(s, t, o, a, e, x)
  BY DEF Whole
<1>3. /\ IsSeq(s) /\ StartFirst(s) /\ EndsTrail(s) /\ (\A v \in Of(s) : v.kind = "start") /\ (s # <<>> => Has(s, "start"))
      /\ \A tools : ArgsAfter(s, tools)
  BY <1>1, BriefOrder
<1>4. /\ IsSeq(t) /\ StartFirst(t) /\ EndsTrail(t) /\ (\A v \in Of(t) : v.kind = "text")
      /\ \A tools : ArgsAfter(t, tools)
  BY <1>1, BriefOrder
<1>5. /\ IsSeq(o) /\ StartFirst(o) /\ EndsTrail(o) /\ (\A v \in Of(o) : v.kind = "call")
      /\ (\A tools : ArgsAfter(o, tools)) /\ (o # <<>> => Of(o) = {o[1]})
  BY <1>1, BriefOrder
<1>6. /\ IsSeq(a) /\ StartFirst(a) /\ EndsTrail(a) /\ (\A v \in Of(a) : v.kind = "args")
      /\ \A tools : (a # <<>> => a[1].tool \in tools) => ArgsAfter(a, tools)
  BY <1>1, BriefOrder
<1>7. /\ IsSeq(e) /\ StartFirst(e) /\ EndsTrail(e) /\ (\A v \in Of(e) : v.kind = "end")
      /\ \A tools : ArgsAfter(e, tools)
  BY <1>1, BriefOrder
<1>8. /\ IsSeq(x) /\ StartFirst(x) /\ EndsTrail(x) /\ (\A v \in Of(x) : v.kind = "error")
      /\ \A tools : ArgsAfter(x, tools)
  BY <1>1, BriefOrder
<1>9. /\ IsSeq(st) /\ Of(st) = Of(s) \cup Of(t) /\ StartFirst(st) /\ EndsTrail(st)
      /\ \A tools : ArgsAfter(st, tools)
  BY <1>3, <1>4, Joined, StartJoin, EndsJoin, ArgsJoin DEF Has
<1>10. /\ IsSeq(oa) /\ Of(oa) = Of(o) \cup Of(a) /\ StartFirst(oa) /\ EndsTrail(oa)
  BY <1>5, <1>6, Joined, StartJoin, EndsJoin DEF Has
<1>11. ASSUME NEW tools, a # <<>> => a[1].tool \in tools \cup CallsIn(o)
       PROVE  ArgsAfter(oa, tools)
  BY <1>5, <1>6, <1>11, ArgsJoin
<1> HIDE DEF st, oa
<1>12. /\ IsSeq(sta) /\ Of(sta) = Of(st) \cup Of(oa) /\ StartFirst(sta) /\ EndsTrail(sta)
  BY <1>3, <1>4, <1>5, <1>6, <1>9, <1>10, Joined, StartJoin, EndsJoin DEF Has
<1>13. ASSUME NEW tools, a # <<>> => a[1].tool \in tools \cup CallsIn(o)
       PROVE  ArgsAfter(sta, tools)
  <2>1. ArgsAfter(oa, tools \cup CallsIn(st))
    BY <1>11, <1>13
  <2> QED
    BY <1>9, <1>10, <2>1, ArgsJoin
<1> HIDE DEF sta
<1>14. /\ IsSeq(all) /\ Of(all) = Of(sta) \cup Of(e) /\ StartFirst(all) /\ EndsTrail(all)
  BY <1>3, <1>4, <1>5, <1>6, <1>7, <1>9, <1>10, <1>12, Joined, StartJoin, EndsJoin DEF Has, Over
<1>15. ASSUME NEW tools, a # <<>> => a[1].tool \in tools \cup CallsIn(o)
       PROVE  ArgsAfter(all, tools)
  BY <1>7, <1>12, <1>13, <1>15, ArgsJoin
<1> HIDE DEF all
<1>16. /\ IsSeq(new) /\ Of(new) = Of(all) \cup Of(x) /\ StartFirst(new) /\ EndsTrail(new)
  BY <1>8, <1>14, Joined, StartJoin, EndsJoin DEF Has, Over
<1>17. ASSUME NEW tools, a # <<>> => a[1].tool \in tools \cup CallsIn(o)
       PROVE  ArgsAfter(new, tools)
  BY <1>8, <1>14, <1>15, <1>17, ArgsJoin
<1> HIDE DEF new
<1>18. Of(new) = Of(s) \cup Of(t) \cup Of(oa) \cup Of(e) \cup Of(x) /\ Of(oa) = Of(o) \cup Of(a)
  BY <1>9, <1>10, <1>12, <1>14, <1>16
<1>19. Of(<<>>) = {}
  BY Short
<1>20. /\ Has(new, "start") <=> s # <<>>
       /\ Has(new, "error") => c.bad
       /\ Has(new, "end") => e # <<>>
  BY <1>1, <1>3, <1>4, <1>5, <1>6, <1>7, <1>8, <1>18, <1>19 DEF Has
<1>21. CallsIn(new) = CallsIn(o) /\ (o # <<>> => CallsIn(o) = {o[1].tool})
  BY <1>3, <1>4, <1>5, <1>6, <1>7, <1>8, <1>18 DEF CallsIn
<1>22. /\ s = <<>> /\ t = <<>> /\ oa = <<>> => \A v \in Of(new) : Over(v)
       /\ s = <<>> /\ t = <<>> /\ oa = <<>> /\ e = <<>> => \A v \in Of(new) : v.kind = "error"
  BY <1>7, <1>8, <1>18, <1>19 DEF Over
<1> QED
  BY <1>2, <1>16, <1>17, <1>20, <1>21, <1>22 DEF oa

\* Steps that leave the events in flight, the upstream and the client's side alone.
LEMMA QuietNests ==
  ASSUME NestInv, Flow' = Flow, UNCHANGED <<backend, client, up, wire, writer, shown>>,
         parser'.started = parser.started, parser'.blocks = parser.blocks,
         parser'.pc # "read" \/ parser'.pc = parser.pc, Live' => Live
  PROVE  NestInv'
<1>1. ErrorIsLast'
  BY DEF NestInv, ErrorIsLast, Silent
<1>2. (StartOnce' <=> StartOnce) /\ (StartIsSent' <=> StartIsSent)
  BY DEF StartOnce, StartIsSent, Begun
<1>3. (EndsLast' <=> EndsLast) /\ (Tracks(shown, writer)' <=> Tracks(shown, writer))
  BY DEF EndsLast, EndSent
<1>4. Told' = Told /\ (CallIsSent' <=> CallIsSent)
  BY DEF Told, CallIsSent, Sent
<1> QED
  BY <1>1, <1>2, <1>3, <1>4 DEF NestInv

LEMMA UpstreamNests == PipeInv /\ NestInv /\ S!Upstream => NestInv'
<1> SUFFICES ASSUME PipeInv, NestInv, S!Upstream PROVE NestInv'
  OBVIOUS
<1>0. DOMAIN up = UpFields /\ up.calls \in Nat
  BY DEF PipeInv, StreamTypes
<1>1. CASE S!HangUp \/ S!Cut
  <2>1. /\ up'.phase \in {"ended", "complete", "cut"} /\ up'.calls = up.calls /\ up'.open = up.open
        /\ UNCHANGED <<backend, client, said, wire, parser, ch, out, closed, writer, shown, gone, reply>>
    BY <1>0, <1>1 DEF S!HangUp, S!Cut, UpFields
  <2>2. Flow' = Flow /\ (Live' <=> Live) /\ Silent' /\ (Begun' <=> Begun) /\ Told' = Told /\ Sent' = Sent
    BY <2>1 DEF Flow, Live, Silent, Active, Begun, Told, Sent
  <2>3. ErrorIsLast'
    BY <2>1, <2>2 DEF NestInv, ErrorIsLast
  <2>4. (StartOnce' <=> StartOnce) /\ (StartIsSent => StartIsSent')
    BY <2>1, <2>2 DEF StartOnce, StartIsSent
  <2>5. (EndsLast' <=> EndsLast) /\ (Tracks(shown, writer)' <=> Tracks(shown, writer))
    BY <2>1, <2>2 DEF EndsLast, EndSent
  <2>6. CallIsSent' <=> CallIsSent
    BY <2>1, <2>2 DEF CallIsSent
  <2> QED
    BY <2>1, <2>2, <2>3, <2>4, <2>5, <2>6 DEF NestInv
<1>2. CASE ~S!HangUp /\ ~S!Cut
  <2>1. PICK c, u, pieces : S!Say(c, u, pieces) /\ SayFits(c, u)
    BY <1>0, <1>2, UpstreamSays
  <2>2. /\ wire = <<>> /\ wire' = <<c>> /\ up' = u
        /\ UNCHANGED <<backend, client, parser, ch, out, closed, writer, shown, gone, reply>>
    BY <2>1 DEF S!Say
  <2>3. Of(wire) = {} /\ Of(wire') = {c}
    BY <2>2, Short
  <2>4. Flow' = Flow /\ (Live' <=> Live) /\ (Begun' <=> Begun) /\ Told' = Told /\ Sent' = Sent
    BY <2>2 DEF Flow, Live, Begun, Told, Sent
  <2>5. ErrorIsLast'
    <3>1. ~Silent /\ (c.bad => Silent')
      BY <2>1, <2>2 DEF Silent, SayFits
    <3> QED
      BY <2>2, <2>3, <2>4, <3>1 DEF NestInv, ErrorIsLast
  <2>6. (StartOnce' <=> StartOnce) /\ (Tracks(shown, writer)' <=> Tracks(shown, writer))
    BY <2>2, <2>4 DEF StartOnce
  <2>7. StartIsSent => StartIsSent'
    <3>1. /\ up'.phase # "before"
          /\ c.start => up.phase = "before"
          /\ backend = "openai" => /\ up'.phase = "finished" => Tells(c) \/ up.phase = "finished"
                                   /\ Carries(c) /\ ~Tells(c) => up.phase = "finished"
          /\ backend \notin {"openai", "gemini", "bedrock"} =>
               /\ up'.phase \in {"talking", "finished"} => c.start \/ up.phase \in {"talking", "finished"}
               /\ ~c.start /\ Says(c) => up.phase \in {"talking", "finished"}
      BY <2>1, <2>2 DEF SayFits
    <3> QED
      BY <2>2, <2>3, <2>4, <3>1 DEF StartIsSent
  <2>8. EndsLast => EndsLast'
    <3>1. EndSent => SaidEnd
      <4>1. Has(Flow, "end") => SaidEnd
        BY DEF PipeInv, EndWasSaid, Has
      <4>2. Shows(shown, "finish") => SaidEnd
        BY DEF PipeInv, EndWasSaid, Shows, Of
      <4> QED
        BY <4>1, <4>2 DEF EndSent
    <3>2. SaidEnd => ~c.start /\ c.text = 0 /\ c.calls = <<>>
      BY <2>1 DEF SayFits, SaidEnd, Finished
    <3>3. EndSent' <=> EndSent
      BY <2>2, <2>4 DEF EndSent
    <3> QED
      BY <2>2, <2>3, <2>4, <3>1, <3>2, <3>3 DEF EndsLast
  <2>9. CallIsSent => CallIsSent'
    <3>1. /\ up'.open = "call" => Opening(c) \/ (up.open = "call" /\ up'.calls = up.calls)
          /\ Adding(c) => up.open = "call"
          /\ backend \notin {"openai", "anthropic", "bedrock", "gemini"} =>
               /\ Opening(c) => c.calls[1].at = up'.calls - 1
               /\ Adding(c) => c.calls[1].at = up.calls - 1
      BY <2>1, <2>2 DEF SayFits
    <3> QED
      BY <2>2, <2>3, <2>4, <3>1 DEF CallIsSent
  <2> QED
    BY <2>2, <2>4, <2>5, <2>6, <2>7, <2>8, <2>9 DEF NestInv
<1> QED
  BY <1>1, <1>2

LEMMA ReadNests == PipeInv /\ NestInv /\ S!Read => NestInv'
<1> SUFFICES ASSUME PipeInv, NestInv, S!Read PROVE NestInv'
  OBVIOUS
<1>1. PICK c, s, t, o, a, e, x : /\ wire = <<c>> /\ IsChunk(c) /\ parser.pend = <<>> /\ parser.pc = "read"
                                 /\ Shape(c, parser, parser', s, t, o, a, e, x)
  BY ReadShape DEF PipeInv
<1>2. wire' = <<>> /\ UNCHANGED <<backend, client, up, said, ch, out, closed, writer, shown, gone, reply>>
  BY DEF S!Read
<1> DEFINE new == parser'.pend
<1>3. /\ new = Whole(s, t, o, a, e, x) /\ parser'.pc = "read" /\ Ordered(c, s, t, o, a, e, x)
      /\ Started(c, parser, parser', s) /\ ForTool(c, parser, parser', o, a)
      /\ c.calls = <<>> => parser'.blocks = parser.blocks
  BY <1>1 DEF Shape
<1>4. /\ IsSeq(new) /\ StartFirst(new) /\ EndsTrail(new)
      /\ Has(new, "start") <=> s # <<>>
      /\ Has(new, "error") => c.bad
      /\ Has(new, "end") => e # <<>>
      /\ CallsIn(new) = CallsIn(o) /\ (o # <<>> => CallsIn(o) = {o[1].tool})
      /\ s = <<>> /\ t = <<>> /\ o \o a = <<>> => \A v \in Of(new) : Over(v)
      /\ s = <<>> /\ t = <<>> /\ o \o a = <<>> /\ e = <<>> => \A v \in Of(new) : v.kind = "error"
      /\ \A tools : (a # <<>> => a[1].tool \in tools \cup CallsIn(o)) => ArgsAfter(new, tools)
  BY <1>3, NewEvents
<1>5. /\ t # <<>> => c.text # 0
      /\ o \o a # <<>> => c.calls # <<>>
      /\ e # <<>> => Carries(c)
  BY <1>3 DEF Ordered, Carries
<1>6. /\ Flow' = Flow \o new /\ Of(Flow') = Of(Flow) \cup Of(new) /\ IsSeq(Flow)
      /\ FlowTypes'
  BY <1>1, <1>2, <1>4, Added, FlowParts DEF PipeInv, StreamTypes
<1>7. Of(wire) = {c} /\ Of(wire') = {}
  BY <1>1, <1>2, Short
<1> HIDE DEF new
<1>8. /\ (Live' <=> Live) /\ Told' = Told /\ (Silent' <=> Silent) /\ Sent' = Sent \cup CallsIn(o)
      /\ Begun' <=> Begun \/ s # <<>>
  <2>1. (Live' <=> Live) /\ Told' = Told /\ (Silent' <=> Silent)
    BY <1>2 DEF Live, Told, Silent
  <2>2. CallsIn(Flow') = CallsIn(Flow) \cup CallsIn(new)
    BY <1>6 DEF CallsIn
  <2>3. Has(Flow', "start") <=> Has(Flow, "start") \/ Has(new, "start")
    BY <1>6 DEF Has
  <2> QED
    BY <1>2, <1>4, <2>1, <2>2, <2>3 DEF Sent, Begun
<1>9. ~Has(Flow, "error")
  BY <1>1 DEF NestInv, ErrorIsLast
<1>10. ErrorIsLast'
  BY <1>2, <1>4, <1>6, <1>7, <1>8, <1>9 DEF NestInv, ErrorIsLast, Has
<1>11. ASSUME Live, client # "gemini"
       PROVE  StartOnce' /\ StartIsSent' /\ (Begun => s = <<>>)
  <2>1. StartOnce /\ StartIsSent
    BY <1>11 DEF NestInv
  <2>2. Begun => s = <<>>
    BY <1>3, <1>7, <2>1 DEF StartIsSent, Started
  <2>3. ~Begun => Of(Flow) = {} /\ Flow = <<>> /\ shown = <<>>
    <3>1. ~Begun => Of(Flow) = {}
      BY <1>9, <2>1 DEF StartOnce, Has
    <3>2. Of(Flow) = {} => Flow = <<>>
      <4>1. PICK any : Flow \in Seq(any)
        BY <1>6 DEF IsSeq
      <4>2. Flow # <<>> => 1 \in DOMAIN Flow
        BY <4>1
      <4> QED
        BY <4>2 DEF Of
    <3> QED
      BY <3>1, <3>2 DEF Begun
  <2>4. ~Begun /\ s = <<>> => \A v \in Of(new) : v.kind = "error"
    <3> SUFFICES ASSUME ~Begun, s = <<>> PROVE \A v \in Of(new) : v.kind = "error"
      OBVIOUS
    <3>1. CASE backend = "openai"
      <4>1. ~Tells(c) /\ ~Carries(c)
        BY <1>3, <1>7, <2>1, <3>1 DEF Started, StartIsSent
      <4> QED
        BY <1>4, <1>5, <4>1 DEF Tells
    <3>2. CASE backend = "gemini"
      BY <1>3, <2>1, <3>2 DEF Started, StartIsSent
    <3>3. CASE backend = "bedrock"
      <4>1. new = <<>>
        BY <1>3, <2>1, <3>3 DEF Started, StartIsSent, new
      <4> QED
        BY <4>1, Short
    <3>4. CASE backend \notin {"openai", "gemini", "bedrock"}
      <4>1. ~c.start /\ ~Says(c)
        BY <1>3, <1>7, <2>1, <3>4 DEF Started, StartIsSent
      <4> QED
        BY <1>4, <1>5, <4>1 DEF Says
    <3> QED
      BY <3>1, <3>2, <3>3, <3>4
  <2>5. StartFirst(Flow')
    <3>1. ~Has(new, "start") \/ Flow = <<>>
      BY <1>4, <2>2, <2>3
    <3> QED
      BY <1>4, <1>6, <2>1, <3>1, StartJoin DEF StartOnce
  <2>6. StartOnce'
    <3>1. ~Begun' => \A v \in Of(Flow') : v.kind = "error"
      BY <1>6, <1>8, <2>3, <2>4
    <3>2. shown' # <<>> => ~Has(Flow', "start")
      <4>1. shown # <<>> => Begun
        BY DEF Begun
      <4> QED
        BY <1>2, <1>4, <1>6, <2>1, <2>2, <4>1 DEF StartOnce, Has
    <3> QED
      BY <2>5, <3>1, <3>2 DEF StartOnce
  <2>7. StartIsSent'
    <3>1. up.phase # "before"
      BY <1>1, <2>1, Short DEF StartIsSent
    <3>2. backend \in {"openai", "gemini", "bedrock"} => (parser'.started <=> Begun')
      <4>1. CASE backend = "openai"
        BY <1>3, <1>8, <2>1, <4>1 DEF Started, StartIsSent
      <4>2. CASE backend = "gemini"
        BY <1>3, <1>8, <2>1, <4>2 DEF Started, StartIsSent
      <4>3. CASE backend = "bedrock"
        <5>1. s # <<>> => new # <<>>
          <6>1. Of(<<>>) = {}
            BY Short
          <6> QED
            BY <1>4, <6>1 DEF Has
        <5> QED
          BY <1>3, <1>8, <2>1, <4>3, <5>1 DEF Started, StartIsSent, new
      <4> QED
        BY <4>1, <4>2, <4>3
    <3>3. backend = "openai" /\ up.phase = "finished" => Begun'
      BY <1>3, <1>7, <1>8, <2>1 DEF Started, StartIsSent
    <3>4. backend \notin {"openai", "gemini", "bedrock"} /\ up.phase \in {"talking", "finished"} => Begun'
      BY <1>3, <1>7, <1>8, <2>1 DEF Started, StartIsSent
    <3> QED
      BY <1>2, <1>7, <3>1, <3>2, <3>3, <3>4 DEF StartIsSent
  <2> QED
    BY <2>2, <2>6, <2>7
<1>12. ASSUME Live, client = "anthropic"
       PROVE  EndsLast' /\ Tracks(shown, writer)'
  <2>1. EndsLast /\ Tracks(shown, writer) /\ StartOnce
    BY <1>12 DEF NestInv
  <2>2. EndSent => \A v \in Of(new) : Over(v)
    <3> SUFFICES ASSUME EndSent PROVE \A v \in Of(new) : Over(v)
      OBVIOUS
    <3>1. c.text = 0 /\ c.calls = <<>>
      BY <1>7, <2>1 DEF EndsLast
    <3>2. Begun
      <4>1. Shows(shown, "finish") => shown # <<>>
        BY Short DEF Shows
      <4>2. Has(Flow, "end") => Begun
        BY <2>1 DEF StartOnce, Has
      <4> QED
        BY <4>1, <4>2 DEF EndSent, Begun
    <3>3. s = <<>>
      BY <1>11, <1>12, <3>2
    <3> QED
      BY <1>4, <1>5, <3>1, <3>3
  <2>3. EndsTrail(Flow')
    BY <1>4, <1>6, <2>1, <2>2, EndsJoin DEF EndsLast, EndSent
  <2>4. Shows(shown, "finish") => \A v \in Of(Flow') : Over(v)
    BY <1>6, <2>1, <2>2 DEF EndsLast, EndSent
  <2> QED
    BY <1>2, <1>7, <2>1, <2>3, <2>4 DEF EndsLast
<1>13. ASSUME Live, client = "openai"
       PROVE  ArgsAfter(Flow, Told)' /\ CallIsSent'
  <2>1. ArgsAfter(Flow, Told) /\ CallIsSent
    BY <1>13 DEF NestInv
  <2> DEFINE k == c.calls[1]
  <2>2. c.calls = <<>> => o = <<>> /\ a = <<>>
    <3>1. IsSeq(o) /\ IsSeq(a)
      BY <1>3, BriefSeq DEF Ordered
    <3>2. o \o a = <<>> => o = <<>> /\ a = <<>>
      <4>1. Parts(o, a, o \o a)
        BY <3>1, InParts
      <4>2. Len(<<>>) = 0 /\ DOMAIN <<>> = {}
        BY Short
      <4>3. \A r : IsSeq(r) /\ r # <<>> => 1 \in DOMAIN r
        BY DEF IsSeq
      <4> QED
        BY <3>1, <4>1, <4>2, <4>3 DEF Parts
    <3> QED
      BY <1>5, <3>2
  <2>3. c.calls # <<>> => (Opening(c) <=> k.opens) /\ (Adding(c) <=> ~k.opens)
    BY DEF Opening, Adding
  <2> HIDE DEF k
  <2>4. a # <<>> => a[1].tool \in Sent \cup CallsIn(o)
    <3> SUFFICES ASSUME a # <<>> PROVE a[1].tool \in Sent \cup CallsIn(o)
      OBVIOUS
    <3>0. c.calls # <<>>
      BY <2>2
    <3>1. CASE backend = "openai"
      BY <1>3, <1>4, <2>1, <3>0, <3>1 DEF ForTool, CallIsSent
    <3>2. CASE backend \in {"anthropic", "bedrock"}
      <4>1. Adding(c) /\ (a[1].tool = 0 \/ \E i \in DOMAIN parser.blocks : a[1].tool = i - 1)
        BY <1>3, <2>3, <3>0, <3>2 DEF ForTool, k
      <4>2. parser.blocks # <<>> /\ \A i \in DOMAIN parser.blocks : i - 1 \in Sent
        BY <1>7, <2>1, <3>2, <4>1 DEF CallIsSent
      <4>3. 1 \in DOMAIN parser.blocks
        <5>1. PICK any : parser.blocks \in Seq(any)
          BY DEF PipeInv, StreamTypes, IsParser, IsSeq
        <5> QED
          BY <4>2, <5>1
      <4>4. 1 - 1 \in Sent
        BY <4>2, <4>3
      <4> QED
        BY <4>1, <4>2, <4>4
    <3>3. CASE backend = "gemini"
      BY <1>3, <1>4, <3>0, <3>3 DEF ForTool
    <3>4. CASE backend \notin {"openai", "anthropic", "bedrock", "gemini"}
      <4>1. a[1].tool = k.at /\ (k.opens => o # <<>> /\ o[1].tool = k.at)
        BY <1>3, <3>0, <3>4 DEF ForTool, k
      <4>2. ~k.opens => k.at \in Sent
        BY <1>7, <2>1, <2>3, <3>0, <3>4 DEF CallIsSent, k
      <4> QED
        BY <1>4, <4>1, <4>2
    <3> QED
      BY <3>1, <3>2, <3>3, <3>4
  <2>5. ArgsAfter(Flow', Told')
    <3>1. ArgsAfter(new, Told \cup CallsIn(Flow))
      BY <1>4, <2>4 DEF Sent
    <3> QED
      BY <1>4, <1>6, <1>8, <2>1, <3>1, ArgsJoin
  <2>6. ASSUME backend = "openai"
        PROVE  CallIsSent'
    <3>1. Of(parser'.blocks) \subseteq Sent'
      <4>1. CASE c.calls = <<>>
        BY <1>3, <1>8, <2>1, <2>6, <4>1 DEF CallIsSent
      <4>2. CASE c.calls # <<>>
        <5> DEFINE old == parser.blocks
                   one == <<k.at>>
        <5>1. IsSeq(old) /\ IsSeq(one) /\ Of(one) = {k.at}
          BY Short DEF PipeInv, StreamTypes, IsParser
        <5>2. /\ parser'.blocks = old \o one
              /\ o # <<>> => o[1].tool = k.at
              /\ o = <<>> => k.at \in Of(old)
          BY <1>3, <2>6, <4>2 DEF ForTool, k
        <5> HIDE DEF old, one
        <5>3. Of(old \o one) = Of(old) \cup Of(one)
          BY <5>1, Joined
        <5>4. Of(old) \subseteq Sent
          BY <2>1, <2>6 DEF CallIsSent, old
        <5> QED
          BY <1>4, <1>8, <5>1, <5>2, <5>3, <5>4
      <4> QED
        BY <4>1, <4>2
    <3> QED
      BY <1>2, <2>6, <3>1 DEF CallIsSent
  <2>7. ASSUME backend \in {"anthropic", "bedrock"}
        PROVE  CallIsSent'
    <3> DEFINE old == parser.blocks
               one == <<k.at>>
               blocks == parser'.blocks
    <3>1. /\ \A i \in DOMAIN old : i - 1 \in Sent
          /\ up.open = "call" => old # <<>> \/ Opening(c)
      BY <1>7, <2>1, <2>7 DEF CallIsSent
    <3>2. IsSeq(old) /\ IsSeq(one) /\ Len(one) = 1 /\ DOMAIN one = {1}
      BY Short DEF PipeInv, StreamTypes, IsParser
    <3>3. CASE c.calls # <<>> /\ k.opens
      <4>1. o # <<>> /\ o[1].tool = Len(old) /\ blocks = old \o one
        BY <1>3, <2>7, <3>3 DEF ForTool, k
      <4> HIDE DEF old, one, blocks
      <4>2. Parts(old, one, old \o one)
        BY <3>2, InParts
      <4>3. \A i \in DOMAIN blocks : i \in DOMAIN old \/ i - 1 = Len(old)
        BY <3>2, <4>1, <4>2 DEF Parts
      <4>4. blocks # <<>>
        <5>1. 1 \in DOMAIN blocks
          BY <3>2, <4>1, <4>2 DEF Parts
        <5> QED
          BY <5>1, Short
      <4>5. \A i \in DOMAIN blocks : i - 1 \in Sent'
        BY <1>4, <1>8, <3>1, <4>1, <4>3
      <4> QED
        BY <1>2, <1>7, <2>7, <4>4, <4>5 DEF CallIsSent, blocks
    <3>4. CASE ~(c.calls # <<>> /\ k.opens)
      <4>1. blocks = old
        BY <1>3, <2>7, <3>4 DEF ForTool, k
      <4>2. ~Opening(c)
        BY <2>3, <3>4 DEF Opening
      <4> QED
        BY <1>2, <1>7, <1>8, <2>7, <3>1, <4>1, <4>2 DEF CallIsSent
    <3> QED
      BY <3>3, <3>4
  <2>8. ASSUME backend \notin {"openai", "anthropic", "bedrock"}
        PROVE  CallIsSent'
    <3>1. CASE backend = "gemini"
      BY <1>2, <3>1 DEF CallIsSent
    <3>2. CASE backend # "gemini"
      <4>1. up.open = "call" => up.calls - 1 \in Sent \/ (Opening(c) /\ k.at = up.calls - 1)
        BY <1>7, <2>1, <2>8, <3>2 DEF CallIsSent, k
      <4>2. Opening(c) => o # <<>> /\ o[1].tool = k.at
        BY <1>3, <2>8, <3>2 DEF ForTool, Opening, k
      <4> QED
        BY <1>2, <1>4, <1>7, <1>8, <2>8, <3>2, <4>1, <4>2 DEF CallIsSent
    <3> QED
      BY <3>1, <3>2
  <2> QED
    BY <2>5, <2>6, <2>7, <2>8
<1> QED
  BY <1>2, <1>8, <1>10, <1>11, <1>12, <1>13 DEF NestInv

LEMMA ReadFailsNests == PipeInv /\ NestInv /\ S!ReadFails => NestInv'
<1> SUFFICES ASSUME PipeInv, NestInv, S!ReadFails PROVE NestInv'
  OBVIOUS
<1> DEFINE failure == S!Event("error")
           new == <<failure>>
<1>1. /\ parser.pend = <<>> /\ parser.pc = "read"
      /\ parser' = [parser EXCEPT !.pc = "last", !.pend = new]
      /\ UNCHANGED <<backend, client, up, said, wire, ch, out, closed, writer, shown, gone, reply>>
  BY DEF S!ReadFails
<1>2. Brief(new, "error")
  BY Events DEF EventKinds
<1>3. /\ IsSeq(new) /\ StartFirst(new) /\ EndsTrail(new) /\ (\A v \in Of(new) : v.kind = "error")
      /\ \A tools : ArgsAfter(new, tools)
  BY <1>2, BriefOrder
<1> HIDE DEF failure, new
<1>4. IsParser(parser) /\ FlowTypes
  BY DEF PipeInv, StreamTypes
<1>5. /\ parser'.pc = "last" /\ parser'.pend = new /\ parser'.started = parser.started
      /\ parser'.blocks = parser.blocks
  BY <1>1, <1>4 DEF IsParser, ParserFields
<1>6. Flow' = Flow \o new /\ Of(Flow') = Of(Flow) \cup Of(new) /\ IsSeq(Flow)
  BY <1>1, <1>3, <1>4, <1>5, Added, FlowParts
<1>7. /\ CallsIn(Flow') = CallsIn(Flow)
      /\ Has(Flow', "start") <=> Has(Flow, "start")
      /\ Has(Flow', "end") <=> Has(Flow, "end")
      /\ ~Has(new, "start")
  BY <1>3, <1>6 DEF CallsIn, Has
<1>8. /\ (Live' <=> Live) /\ Told' = Told /\ Sent' = Sent /\ (Begun' <=> Begun) /\ (EndSent' <=> EndSent)
      /\ Silent' <=> Silent
  BY <1>1, <1>7 DEF Live, Told, Sent, Begun, EndSent, Silent
<1>9. ErrorIsLast'
  BY <1>1, <1>5, <1>8 DEF NestInv, ErrorIsLast
<1>10. StartOnce => StartOnce'
  <2>1. StartFirst(Flow) => StartFirst(Flow')
    BY <1>3, <1>6, <1>7, StartJoin
  <2> QED
    BY <1>1, <1>3, <1>6, <1>7, <1>8, <2>1 DEF StartOnce
<1>11. StartIsSent => StartIsSent'
  BY <1>1, <1>5, <1>8 DEF StartIsSent
<1>12. EndsLast => EndsLast'
  <2>1. EndsTrail(Flow) => EndsTrail(Flow')
    BY <1>3, <1>6, EndsJoin DEF Over
  <2> QED
    BY <1>1, <1>3, <1>6, <1>8, <2>1 DEF EndsLast, Over
<1>13. ArgsAfter(Flow, Told) => ArgsAfter(Flow', Told')
  BY <1>3, <1>6, <1>8, ArgsJoin
<1>14. CallIsSent => CallIsSent'
  BY <1>1, <1>5, <1>8 DEF CallIsSent
<1> QED
  BY <1>1, <1>8, <1>9, <1>10, <1>11, <1>12, <1>13, <1>14 DEF NestInv

LEMMA ReceiveErrorNests == PipeInv /\ NestInv /\ S!ReceiveError => NestInv'
<1> SUFFICES ASSUME PipeInv, NestInv, S!ReceiveError PROVE NestInv'
  OBVIOUS
<1>1. /\ reply = "none" /\ out # <<>> /\ out' = Tail(out) /\ reply' = "error"
      /\ UNCHANGED <<backend, client, up, said, wire, parser, ch, closed, writer, shown, gone>>
  BY DEF S!ReceiveError
<1>2. Of(Flow) = {Head(out)} \cup Of(Flow')
  BY <1>1, Taken DEF PipeInv, StreamTypes
<1>3. ErrorIsLast'
  BY <1>1, <1>2 DEF NestInv, ErrorIsLast, Has, Silent
<1> QED
  BY <1>1, <1>3 DEF NestInv, Live

\* The handler's last frame, when all was read.
LEMMA FinishNests == PipeInv /\ NestInv /\ S!Finish => NestInv'
<1> SUFFICES ASSUME PipeInv, NestInv, S!Finish PROVE NestInv'
  OBVIOUS
<1> DEFINE mark == S!Frame("done", 0, <<>>)
           r == shown \o <<mark>>
<1>1. /\ reply = "none" /\ reply' \in {"ok", "broken"}
      /\ UNCHANGED <<backend, client, up, said, wire, parser, ch, out, closed, writer, gone>>
      /\ shown' \in {shown, shown \o S!WriteDone}
  BY DEF S!Finish
<1>2. IsSeq(shown)
  BY DEF PipeInv, StreamTypes
<1>3. shown' = shown \/ (shown' = r /\ client = "openai")
  BY <1>1, <1>2, Joining DEF S!WriteDone
<1>4. mark.typ = "done"
  BY FrameFields
<1>5. Grown(shown, mark, r)
  BY <1>2, Growing
<1> HIDE DEF mark, r
<1>6. \A i \in DOMAIN shown : Nested(client, shown, i) /\ shown[i].typ # "done"
  BY <1>1 DEF NestInv, PipeInv, StopIsReported, Of
<1>7. \A i \in DOMAIN shown : Nested(client, r, i)
  BY <1>5, <1>6, NestedGrown
<1>8. client = "openai" => Nested(client, r, Len(r))
  BY <1>4, <1>5 DEF Nested, Grown
<1>9. \A i \in DOMAIN shown' : Nested(client, shown', i)
  <2>1. \A i \in DOMAIN r : i \in DOMAIN shown \/ i = Len(r)
    BY <1>5 DEF Grown
  <2> QED
    BY <1>3, <1>6, <1>7, <1>8, <2>1
<1>10. ErrorIsLast'
  BY <1>1 DEF NestInv, ErrorIsLast, Flow, Silent
<1> QED
  BY <1>1, <1>9, <1>10 DEF NestInv, Live

\* An event received and written: the client that is still there has begun to be told.
LEMMA ReceiveNests == PipeInv /\ NestInv /\ S!Receive => NestInv'
<1> SUFFICES ASSUME PipeInv, NestInv, S!Receive PROVE NestInv'
  OBVIOUS
<1> DEFINE e == Head(out)
           done == S!WriteEvent(e, writer)
<1>1. /\ reply = "none" /\ out # <<>> /\ e.kind # "error" /\ out' = Tail(out)
      /\ UNCHANGED <<backend, client, up, said, wire, parser, ch, closed, gone>>
  BY DEF S!Receive
<1>2. \/ writer' = done.w /\ shown' = (IF gone THEN shown ELSE shown \o done.frames) /\ reply' = reply
      \/ gone /\ writer' = writer /\ shown' = shown /\ reply' = "broken"
  BY Zenon DEF S!Receive
<1>3. Flow = <<e>> \o Flow' /\ Of(Flow) = {e} \cup Of(Flow') /\ IsSeq(Flow')
  BY <1>1, Taken DEF PipeInv, StreamTypes
<1>4. IsEvent(e) /\ IsWriter(writer) /\ client' = client
  BY <1>1, <1>3 DEF PipeInv, StreamTypes
<1>5. Placed(client, shown)
  BY <1>1 DEF NestInv, PipeInv, StreamTypes, StopIsReported, Placed, Of
<1>6. ErrorIsLast'
  BY <1>1, <1>3 DEF NestInv, ErrorIsLast, Has, Silent
<1> HIDE DEF e, done
<1>7. CASE gone
  <2>1. shown' = shown /\ ~Live'
    BY <1>1, <1>2, <1>7 DEF Live
  <2> QED
    BY <1>4, <1>6, <2>1 DEF NestInv
<1>8. CASE ~gone
  <2>1. writer' = done.w /\ shown' = shown \o done.frames /\ Live /\ Live'
    BY <1>1, <1>2, <1>8 DEF Live
  <2>2. CASE client = "gemini"
    <3>1. done = S!WriteGemini(e, writer)
      BY <2>2, Zenon DEF S!WriteEvent, done
    <3>2. Placed(client, shown')
      BY <1>1, <1>4, <1>5, <2>1, <2>2, <3>1, GeminiGood
    <3> QED
      BY <1>4, <1>6, <2>2, <3>2 DEF NestInv, Placed
  <2>3. CASE client # "gemini"
    <3>1. StartOnce /\ StartIsSent
      BY <2>1, <2>3 DEF NestInv
    <3>2. Begun
      BY <1>1, <1>3, <3>1 DEF StartOnce
    <3>3. e.kind = "start" <=> shown = <<>>
      <4>1. shown # <<>> => e.kind # "start"
        BY <1>3, <3>1 DEF StartOnce, Has
      <4>2. ASSUME shown = <<>>
            PROVE  e.kind = "start"
        <5>1. PICK i \in DOMAIN Flow : Flow[i].kind = "start"
          BY <3>2, <4>2 DEF Begun, Has, Of
        <5>2. Flow[1].kind = "start"
          BY <3>1, <5>1 DEF StartOnce, StartFirst
        <5>3. Flow[1] = e
          <6> DEFINE s == <<e>>
                     t == Flow'
          <6>1. IsSeq(s) /\ IsSeq(t) /\ DOMAIN s = {1} /\ s[1] = e
            BY <1>3, Short
          <6>2. Flow = s \o t
            BY <1>3
          <6> HIDE DEF s, t
          <6>3. Parts(s, t, s \o t)
            BY <6>1, InParts
          <6> QED
            BY <6>1, <6>2, <6>3 DEF Parts
        <5> QED
          BY <5>2, <5>3
      <4> QED
        BY <4>1, <4>2
    <3>4. /\ ~Has(Flow', "start")
          /\ EndsTrail(Flow) => EndsTrail(Flow') /\ (e.kind = "end" => \A v \in Of(Flow') : Over(v))
          /\ \A tools, more : /\ ArgsAfter(Flow, tools) /\ tools \subseteq more
                              /\ e.kind = "call" => e.tool \in more
                              => ArgsAfter(Flow', more) /\ (e.kind = "args" => e.tool \in tools)
      <4> DEFINE t == Flow'
      <4>1. IsSeq(t) /\ Flow = <<e>> \o t
        BY <1>3
      <4> HIDE DEF t
      <4>2. /\ StartFirst(<<e>> \o t) => ~Has(t, "start")
            /\ EndsTrail(<<e>> \o t) => EndsTrail(t) /\ (e.kind = "end" => \A v \in Of(t) : Over(v))
            /\ \A tools, more : /\ ArgsAfter(<<e>> \o t, tools) /\ tools \subseteq more
                                /\ e.kind = "call" => e.tool \in more
                                => ArgsAfter(t, more) /\ (e.kind = "args" => e.tool \in tools)
        BY <4>1, Rest
      <4>3. /\ StartFirst(Flow) => ~Has(t, "start")
            /\ EndsTrail(Flow) => EndsTrail(t) /\ (e.kind = "end" => \A v \in Of(t) : Over(v))
            /\ \A tools, more : /\ ArgsAfter(Flow, tools) /\ tools \subseteq more
                                /\ e.kind = "call" => e.tool \in more
                                => ArgsAfter(t, more) /\ (e.kind = "args" => e.tool \in tools)
        BY <4>1, <4>2
      <4> QED
        BY <3>1, <4>3 DEF StartOnce, t
    <3>5. ASSUME shown' # <<>>
          PROVE  StartOnce' /\ StartIsSent'
      <4>1. Begun'
        BY <3>5 DEF Begun
      <4>2. StartOnce'
        BY <3>4, <4>1 DEF StartOnce, StartFirst, Has, Of
      <4>3. StartIsSent'
        BY <1>1, <3>1, <3>2, <4>1 DEF StartIsSent
      <4> QED
        BY <4>2, <4>3
    <3>6. CASE client = "anthropic"
      <4>1. done = S!WriteAnthropic(e, writer)
        BY <3>6, Zenon DEF S!WriteEvent, done
      <4>2. EndsLast /\ Good(shown, writer)
        BY <1>5, <2>1, <3>6 DEF NestInv, Good
      <4>3. Shows(shown, "finish") => e.kind = "end"
        BY <1>1, <1>3, <4>2 DEF EndsLast, Over
      <4>4. Good(shown', writer') /\ shown' # <<>>
        BY <1>1, <1>4, <2>1, <3>3, <4>1, <4>2, <4>3, AnthropicGood
      <4>5. Shows(shown', "finish") => Shows(shown, "finish") \/ e.kind = "end"
        <5>1. Written(e, done)
          BY <1>1, <1>4, <4>1, AnthropicWritten
        <5> DEFINE s == shown
                   t == done.frames
        <5>2. IsSeq(s) /\ IsSeq(t) /\ \A f \in Of(t) : f.typ = "finish" => e.kind = "end"
          BY <1>5, <5>1 DEF Placed, Written, Fits, Fitting
        <5> HIDE DEF t
        <5>3. Of(s \o t) = Of(s) \cup Of(t)
          BY <5>2, Joined
        <5>4. \A r : Shows(r, "finish") <=> \E f \in Of(r) : f.typ = "finish"
          BY DEF Shows, Of
        <5> QED
          BY <2>1, <5>2, <5>3, <5>4 DEF t
      <4>6. EndsLast'
        <5>1. EndSent' => EndSent
          BY <1>3, <4>5 DEF EndSent, Has
        <5>2. Shows(shown', "finish") => \A v \in Of(Flow') : Over(v)
          BY <1>3, <3>4, <4>2, <4>5 DEF EndsLast
        <5> QED
          BY <1>1, <3>4, <4>2, <5>1, <5>2 DEF EndsLast
      <4>7. Placed(client, shown') /\ Tracks(shown', writer')
        BY <3>6, <4>4 DEF Good
      <4> QED
        BY <1>4, <1>6, <3>5, <3>6, <4>4, <4>6, <4>7 DEF NestInv, Placed
    <3>7. CASE client = "openai"
      <4>1. done = S!WriteOpenAI(e, writer)
        BY <3>7, Zenon DEF S!WriteEvent, done
      <4>2. ArgsAfter(Flow, Told) /\ CallIsSent
        BY <2>1, <3>7 DEF NestInv
      <4>3. e.kind = "args" => Called(shown, e.tool)
        <5> DEFINE more == Told \cup {e.tool}
        <5>1. Told \subseteq more /\ e.tool \in more
          OBVIOUS
        <5> HIDE DEF more
        <5>2. e.kind = "args" => e.tool \in Told
          BY <3>4, <4>2, <5>1
        <5> QED
          BY <5>2, ToldIs
      <4>4. /\ Placed(client, shown') /\ shown' # <<>>
            /\ e.kind = "call" => Called(shown', e.tool)
            /\ \A tool : Called(shown, tool) => Called(shown', tool)
        BY <1>1, <1>4, <1>5, <2>1, <3>3, <3>7, <4>1, <4>3, OpenAIGood
      <4>5. \A tool : tool \in Told' <=> Called(shown', tool)
        BY DEF Told, Called, Of
      <4>6. Told \subseteq Told' /\ (e.kind = "call" => e.tool \in Told')
        BY <4>4, <4>5, ToldIs
      <4>7. ArgsAfter(Flow', Told')
        BY <3>4, <4>2, <4>6
      <4>8. Sent \subseteq Sent'
        BY <1>3, <4>6 DEF Sent, CallsIn
      <4>9. CallIsSent'
        BY <1>1, <4>2, <4>8 DEF CallIsSent
      <4> QED
        BY <1>4, <1>6, <3>5, <3>7, <4>4, <4>7, <4>9 DEF NestInv, Placed
    <3> QED
      BY <2>3, <3>6, <3>7 DEF NestInv
  <2> QED
    BY <2>2, <2>3
<1> QED
  BY <1>7, <1>8

LEMMA PassingNests ==
  PipeInv /\ NestInv /\ (S!ReadEnd \/ S!ClosesParser \/ S!Push \/ S!Forward \/ S!CloseBody \/ S!Leave)
    => NestInv'
<1> SUFFICES ASSUME PipeInv, NestInv,
                    S!ReadEnd \/ S!ClosesParser \/ S!Push \/ S!Forward \/ S!CloseBody \/ S!Leave
             PROVE  NestInv'
  OBVIOUS
<1>0. IsParser(parser) /\ FlowTypes /\ (~S!Http => ch = <<>>)
  BY DEF PipeInv, StreamTypes
<1>1. UNCHANGED <<backend, client, up, wire, writer, shown, reply>>
  BY DEF S!ReadEnd, S!ClosesParser, S!Push, S!Forward, S!CloseBody, S!Leave
<1>2. Live' => Live
  BY <1>1 DEF Live, S!ReadEnd, S!ClosesParser, S!Push, S!Forward, S!CloseBody, S!Leave
<1>3. /\ Flow' = Flow /\ parser'.started = parser.started /\ parser'.blocks = parser.blocks
      /\ parser'.pc # "read" \/ parser'.pc = parser.pc
  <2>1. CASE S!ReadEnd \/ S!ClosesParser
    <3>1. /\ parser'.pc = "closed" /\ parser'.pend = parser.pend /\ UNCHANGED <<ch, out>>
          /\ parser'.started = parser.started /\ parser'.blocks = parser.blocks
      BY <1>0, <2>1 DEF S!ReadEnd, S!ClosesParser, IsParser, ParserFields
    <3> QED
      BY <3>1 DEF Flow
  <2>2. CASE S!Push
    BY <1>0, <2>2, Pushed DEF IsParser
  <2>3. CASE S!Forward
    BY <1>0, <2>3, Forwarded
  <2>4. CASE S!CloseBody \/ S!Leave
    BY <2>4 DEF S!CloseBody, S!Leave, Flow
  <2> QED
    BY <2>1, <2>2, <2>3, <2>4
<1> QED
  BY <1>1, <1>2, <1>3, QuietNests

LEMMA NestStep == PipeInv /\ NestInv /\ [S!Next]_(S!vars) => NestInv'
<1>1. ASSUME NestInv, UNCHANGED S!vars
      PROVE  NestInv'
  <2>1. UNCHANGED <<backend, client, up, wire, parser, ch, out, writer, shown, gone, reply>>
    BY <1>1 DEF S!vars
  <2>2. Flow' = Flow /\ (Live' => Live)
    BY <2>1 DEF Flow, Live
  <2> QED
    BY <1>1, <2>1, <2>2, QuietNests
<1> QED
  BY <1>1, UpstreamNests, ReadNests, ReadFailsNests, PassingNests, ReceiveNests, ReceiveErrorNests, FinishNests
     DEF S!Next, S!ParserStep, S!ForwardStep, S!HandlerStep

LEMMA NestInvariant == Spec => [](PipeInv /\ NestInv)
<1>1. Init => PipeInv /\ NestInv
  <2>1. S!Init => client \in {"openai", "anthropic", "gemini"}
    BY DialectsAssumption DEF S!Init
  <2> QED
    BY <2>1, PipeInit, NestInit DEF Init
<1>2. PipeInv /\ NestInv /\ [Next]_vars => PipeInv' /\ NestInv'
  <2>1. [Next]_vars => [S!Next]_(S!vars)
    BY DEF Next, vars, stream, S!vars
  <2> QED
    BY <2>1, PipeStep, NestStep
<1> QED
  BY <1>1, <1>2, PTL DEF Spec

\* Whatever the backend's format, the client can follow the stream: it begins with the
\* message, a call's arguments come after the call, and in the Anthropic dialect the
\* writer numbers the blocks as it opens them, closes each before the next and before
\* the end, says nothing outside the open block, and nothing but ends after an end.
THEOREM FramesAlwaysNest == Spec => []FramesNest
<1>1. ASSUME NestInv
      PROVE  FramesNest
  <2>1. ASSUME NEW i \in DOMAIN shown
        PROVE  LET Opened(j) == shown[j].typ = "open" \/ (client = "anthropic" /\ shown[j].typ = "call")
                   ClosedBy(k, at) == \E j \in 1..k : shown[j].typ = "close" /\ shown[j].at = at
                   f == shown[i]
                   opened == {j \in 1..i : Opened(j)}
                   ends == {j \in 1..(i - 1) : shown[j].typ = "finish"}
               IN /\ client # "gemini" /\ f.typ # "done" => (f.typ = "role") = (i = 1)
                  /\ f.typ = "args" => \E j \in 1..i : shown[j].typ = "call" /\ shown[j].at = f.at
                  /\ f.typ = "done" => i = Len(shown)
                  /\ client = "anthropic" =>
                       /\ Opened(i) => f.at = Cardinality(opened) - 1
                       /\ Opened(i) \/ f.typ = "finish" =>
                            \A j \in opened \ {i} : ClosedBy(i, shown[j].at)
                       /\ f.typ \in {"text", "args"} =>
                            f.at = Cardinality(opened) - 1 /\ ~ClosedBy(i, f.at)
                       /\ ends # {} => f.typ \in {"finish", "stop"}
    <3>1. Nested(client, shown, i)
      BY <1>1 DEF NestInv
    <3>2. CASE client # "anthropic"
      BY <3>1, <3>2 DEF Nested
    <3>3. CASE client = "anthropic"
      <4>1. Openings(shown, i) = {j \in 1..i : shown[j].typ = "open" \/ (client = "anthropic" /\ shown[j].typ = "call")}
        BY <3>3 DEF Openings, Opens
      <4>2. Opens(shown, i) <=> shown[i].typ = "open" \/ (client = "anthropic" /\ shown[i].typ = "call")
        BY <3>3 DEF Opens
      <4> QED
        BY <3>1, <3>3, <4>1, <4>2, Zenon DEF Nested, Shut
    <3> QED
      BY <3>2, <3>3
  <2> QED
    BY <2>1, Zenon DEF FramesNest, S!FramesNest, S!Cardinality, Cardinality
<1> QED
  BY <1>1, NestInvariant, PTL

-----------------------------------------------------------------------------
(* Nothing is lost: the pieces and the calls by their numbers *)

\* The number of the piece an event carries, or of the call it opens; 0 for none.
Num(what, e) ==
  IF what = "piece" THEN (IF e.kind \in {"text", "args"} THEN e.n ELSE 0)
  ELSE (IF e.kind = "call" THEN e.tool + 1 ELSE 0)

\* The events number lo + 1..hi, each number once and in this order.
Climbs(what, s, lo, hi) ==
  /\ \A i \in DOMAIN s : Num(what, s[i]) = 0 \/ Num(what, s[i]) \in (lo + 1)..hi
  /\ \A i, j \in DOMAIN s : i < j /\ Num(what, s[i]) # 0 /\ Num(what, s[j]) # 0
                            => Num(what, s[i]) < Num(what, s[j])
  /\ \A n \in (lo + 1)..hi : \E i \in DOMAIN s : Num(what, s[i]) = n

\* A piece is sent in the lane it was said in.
Labelled(e, lanes) == /\ e.kind = "text" => e.n # 0 /\ lanes[e.n] = 0
                      /\ e.kind = "args" => e.n # 0 /\ lanes[e.n] = e.tool + 1
                      /\ e.kind = "call" => e.tool \in Nat

\* The numbers of the pieces in a sequence of frames, its calls, and how many of them
\* are among the first i.
Nums(s) == UNION {Of(s[i].ns) : i \in DOMAIN s}
Calls(s) == {j \in DOMAIN s : s[j].typ = "call"}
Ord(s, i) == Cardinality({j \in 1..i : s[j].typ = "call"})
Rises(ns) == \A x, y \in DOMAIN ns : x < y => ns[x] < ns[y]

\* Every frame's pieces are those of its lane, in order; no two calls share a number.
InLane(s, lanes, i, n) ==
  /\ n \in 1..Len(lanes)
  /\ s[i].typ \in {"text", "args", "call"}
  /\ s[i].typ = "text" => lanes[n] = 0
  /\ s[i].typ = "call" => lanes[n] = Ord(s, i)
  /\ s[i].typ = "args" => \E j \in Calls(s) : s[j].at = s[i].at /\ lanes[n] = Ord(s, j)
Sound(s, lanes) ==
  /\ \A i \in DOMAIN s : Rises(s[i].ns) /\ \A n \in Of(s[i].ns) : InLane(s, lanes, i, n)
  /\ \A i, j \in DOMAIN s : i < j /\ s[i].typ # "call" /\ s[j].typ # "call"
                            => \A n \in Of(s[i].ns), m \in Of(s[j].ns) : n < m
  /\ \A i \in DOMAIN s, j \in Calls(s) : s[i].typ = "args" => Of(s[j].ns) = {}
  /\ \A i, j \in Calls(s) : s[i].at = s[j].at => i = j

\* What was shown is the first r pieces, or as much of them as is text.
UpTo(r, lanes) == {n \in 1..r : lanes[n] = 0}
Shown == Sound(shown, said) /\ \E r \in 0..Len(said) : Nums(shown) \in {1..r, UpTo(r, said)}

\* The first r pieces and c calls have been received, and the writer's locals say where.
AsFrames(s, r, c) == /\ Nums(s) = 1..r /\ Ord(s, Len(s)) = c
                     /\ \A j \in Calls(s) : Of(s[j].ns) = {}
Numbered(s, c) == /\ \A j \in Calls(s) : s[j].at + 1 \in 1..c /\ Ord(s, j) = s[j].at + 1
                  /\ \A k \in 1..c : \E j \in Calls(s) : s[j].at = k - 1
Writing(s, w) == w.cur = "call" => \E j \in Calls(s) : s[j].at = w.at /\ Ord(s, j) = w.tool + 1
Held(held, lanes, r, c) ==
  /\ Len(held) = c
  /\ \A n \in 1..r : lanes[n] \in 0..c
  /\ \A k \in DOMAIN held : /\ DOMAIN held[k] = {"tool", "id", "ns"} /\ held[k].tool = k - 1
                            /\ IsSeq(held[k].ns) /\ Rises(held[k].ns)
                            /\ Of(held[k].ns) = {n \in 1..r : lanes[n] = k}
Holding(s, held, lanes, r, c) ==
  /\ Nums(s) = UpTo(r, lanes) /\ \A i \in DOMAIN s : s[i].typ \notin {"call", "args"}
  /\ Held(held, lanes, r, c)
Flushed(s, held, r, c) == Nums(s) = 1..r /\ Ord(s, Len(s)) = c /\ held = <<>>
Reached(r, c) ==
  /\ client # "gemini" => AsFrames(shown, r, c)
  /\ client = "openai" => Numbered(shown, c)
  /\ client = "anthropic" => Writing(shown, writer)
  /\ client = "gemini" => IF Shows(shown, "finish") THEN Flushed(shown, writer.held, r, c)
                          ELSE Holding(shown, writer.held, said, r, c)

\* The call whose block is open when the first i - 1 events have been written.
Turns(e) == e.kind \in {"text", "call", "end"}
Current(s, w, i, tool) ==
  \/ \E j \in DOMAIN s : /\ j < i /\ s[j].kind = "call" /\ s[j].tool = tool
                         /\ \A k \in DOMAIN s : j < k /\ k < i => ~Turns(s[k])
  \/ /\ w.cur = "call" /\ w.tool = tool
     /\ \A k \in DOMAIN s : k < i => ~Turns(s[k])
Fed(s, w) == \A i \in DOMAIN s : s[i].kind = "args" => Current(s, w, i, s[i].tool)
Attached ==
  /\ Fed(Flow, writer)
  /\ /\ up.open = "call" /\ \A k \in Of(wire) : ~Opening(k)
     /\ up.phase = "talking" \/ \E k \in Of(wire) : Adding(k)
     => Current(Flow, writer, Len(Flow) + 1, up.calls - 1)

\* The chunk on the wire says what comes after the first m pieces and d calls.
ArgsOf(k) == IF k.calls = <<>> THEN 0 ELSE k.calls[1].args
Bit(b) == IF b THEN 1 ELSE 0
Continues(k, m, d) ==
  /\ up.n = m + Bit(k.text # 0) + Bit(ArgsOf(k) # 0) /\ up.calls = d + Bit(Opening(k))
  /\ k.text # 0 => k.text = m + 1 /\ said[m + 1] = 0 /\ (up.open = "call" => Opening(k))
  /\ ArgsOf(k) # 0 => ArgsOf(k) = up.n /\ said[up.n] = up.calls
  /\ k.calls # <<>> => up.open = "call"
  /\ Opening(k) /\ backend \notin {"openai", "gemini"} => ArgsOf(k) = 0
  /\ Adding(k) => backend # "gemini"
  /\ k.calls # <<>> /\ backend \notin {"anthropic", "bedrock", "gemini"} => k.calls[1].at = up.calls - 1
  /\ k.calls # <<>> /\ backend \in {"anthropic", "bedrock"} => k.calls[1].at = up.blocks - 1
  /\ Opening(k) /\ backend \in {"anthropic", "bedrock"} => up.blocks > 0 /\ \A b \in Of(parser.blocks) : b < up.blocks - 1
OnWire(m, d) ==
  /\ wire = <<>> => m = up.n /\ d = up.calls
  /\ \A k \in Of(wire) : Continues(k, m, d)

\* The parser has counted d calls.
Counted(d) ==
  /\ backend = "openai" => Of(parser.blocks) = 0..(d - 1)
  /\ backend = "gemini" => parser.calls = d
  /\ backend \in {"anthropic", "bedrock"} =>
       /\ Len(parser.blocks) = d
       /\ \A i, j \in DOMAIN parser.blocks : i < j => parser.blocks[i] < parser.blocks[j]
       /\ \A b \in Of(parser.blocks) : b \in 0..(up.blocks - 1)
       /\ up.open = "call" /\ (\A k \in Of(wire) : ~Opening(k)) =>
            d > 0 /\ parser.blocks[d] = up.blocks - 1
InFlight(r, m, c, d) ==
  /\ r <= m /\ m <= up.n /\ c <= d /\ d <= up.calls
  /\ Climbs("piece", Flow, r, m) /\ Climbs("call", Flow, c, d)
  /\ \A e \in Of(Flow) : Labelled(e, said)
  /\ ArgsAfter(Flow, 0..(c - 1))
  /\ OnWire(m, d) /\ Counted(d)
  /\ client = "anthropic" => Attached

SaidTypes ==
  /\ up.n \in Nat /\ up.blocks \in Nat /\ IsSeq(said) /\ Len(said) = up.n
  /\ \A n \in 1..up.n : said[n] \in 0..up.calls
  /\ up.open = "call" => up.calls > 0 /\ up.phase # "before"
\* Nothing the client would have to be shown comes after an end.
Speaks(e) == e.kind \in {"text", "call", "args"}
Quiet(s) == \A i, j \in DOMAIN s : i < j /\ s[i].kind = "end" => ~Speaks(s[j])
EndsQuietly ==
  /\ Quiet(Flow)
  /\ Shows(shown, "finish") => \A e \in Of(Flow) : ~Speaks(e)
  /\ EndSent => \A k \in Of(wire) : k.text = 0 /\ k.calls = <<>>
Drained == parser.pc # "read" => wire = <<>> /\ Silent
EndIsSent == up.phase \in {"finished", "complete"} => EndSent \/ \E k \in Of(wire) : k.fin # "none"
AllShown == Nums(shown) = 1..up.n /\ Ord(shown, Len(shown)) = up.calls
Upheld == EndsQuietly /\ EndIsSent /\ Drained
          /\ \E r, m \in 0..up.n, c, d \in 0..up.calls : Reached(r, c) /\ InFlight(r, m, c, d)
LossInv ==
  /\ SaidTypes /\ Shown
  /\ reply = "ok" /\ ~gone /\ up.phase = "complete" => AllShown
  /\ Live => Upheld

LEMMA NumIsNat ==
  ASSUME NEW e, IsEvent(e), e.n \in Nat, e.tool \in Nat
  PROVE  \A what : Num(what, e) \in Nat
BY DEF Num

LEMMA ClimbsNone == \A what : \A lo \in Nat : Climbs(what, <<>>, lo, lo)
<1>1. DOMAIN <<>> = {} /\ \A lo \in Nat : (lo + 1)..lo = {}
  BY Short
<1> QED
  BY <1>1 DEF Climbs

LEMMA ClimbsJoin ==
  ASSUME NEW what, NEW s, NEW t, NEW lo \in Nat, NEW mid \in Nat, NEW hi \in Nat, lo <= mid, mid <= hi,
         IsSeq(s), IsSeq(t), Climbs(what, s, lo, mid), Climbs(what, t, mid, hi)
  PROVE  Climbs(what, s \o t, lo, hi)
<1> DEFINE u == s \o t
           m == Len(s)
           N(e) == Num(what, e)
<1>1. Parts(s, t, u)
  BY InParts
<1> HIDE DEF u
<1>2. /\ m \in Nat /\ \A i \in DOMAIN s : i \in 1..m /\ i \in DOMAIN u /\ u[i] = s[i]
      /\ \A i \in DOMAIN t : i \in Nat /\ m + i \in DOMAIN u /\ u[m + i] = t[i]
      /\ \A i \in DOMAIN u : i \in Nat /\ (i \in DOMAIN s \/ (i - m \in DOMAIN t /\ u[i] = t[i - m] /\ i > m))
  BY <1>1 DEF Parts
<1>3. /\ \A i \in DOMAIN s : N(s[i]) = 0 \/ N(s[i]) \in (lo + 1)..mid
      /\ \A i, j \in DOMAIN s : i < j /\ N(s[i]) # 0 /\ N(s[j]) # 0 => N(s[i]) < N(s[j])
      /\ \A n \in (lo + 1)..mid : \E i \in DOMAIN s : N(s[i]) = n
  BY DEF Climbs
<1>4. /\ \A i \in DOMAIN t : N(t[i]) = 0 \/ N(t[i]) \in (mid + 1)..hi
      /\ \A i, j \in DOMAIN t : i < j /\ N(t[i]) # 0 /\ N(t[j]) # 0 => N(t[i]) < N(t[j])
      /\ \A n \in (mid + 1)..hi : \E i \in DOMAIN t : N(t[i]) = n
  BY DEF Climbs
<1> HIDE DEF N, m
<1>5. \A i \in DOMAIN u : N(u[i]) = 0 \/ N(u[i]) \in (lo + 1)..hi
  BY <1>2, <1>3, <1>4
<1>6. ASSUME NEW i \in DOMAIN u, NEW j \in DOMAIN u, i < j, N(u[i]) # 0, N(u[j]) # 0
      PROVE  N(u[i]) < N(u[j])
  <2>1. CASE j \in DOMAIN s
    <3>1. i \in DOMAIN s
      BY <1>2, <1>6, <2>1
    <3> QED
      BY <1>2, <1>3, <1>6, <2>1, <3>1
  <2>2. CASE j \notin DOMAIN s /\ i \in DOMAIN s
    <3>1. j - m \in DOMAIN t /\ u[j] = t[j - m] /\ u[i] = s[i]
      BY <1>2, <2>2
    <3>2. N(u[i]) \in (lo + 1)..mid /\ N(u[j]) \in (mid + 1)..hi
      BY <1>3, <1>4, <1>6, <2>2, <3>1
    <3> QED
      BY <3>2
  <2>3. CASE j \notin DOMAIN s /\ i \notin DOMAIN s
    <3>1. j - m \in DOMAIN t /\ u[j] = t[j - m] /\ i - m \in DOMAIN t /\ u[i] = t[i - m] /\ i - m < j - m
      BY <1>2, <1>6, <2>3
    <3> QED
      BY <1>4, <1>6, <3>1
  <2> QED
    BY <2>1, <2>2, <2>3
<1>7. ASSUME NEW n \in (lo + 1)..hi
      PROVE  \E i \in DOMAIN u : N(u[i]) = n
  <2>1. n \in (lo + 1)..mid \/ n \in (mid + 1)..hi
    OBVIOUS
  <2>2. CASE n \in (lo + 1)..mid
    BY <1>2, <1>3, <2>2
  <2>3. CASE n \in (mid + 1)..hi
    BY <1>2, <1>4, <2>3
  <2> QED
    BY <2>1, <2>2, <2>3
<1> QED
  BY <1>5, <1>6, <1>7 DEF Climbs, N, u

\* What is left when the first event is taken.
LEMMA ClimbsRest ==
  ASSUME NEW what, NEW h, NEW t, NEW lo \in Nat, NEW hi \in Nat, IsSeq(t), Climbs(what, <<h>> \o t, lo, hi)
  PROVE  \/ Num(what, h) = 0 /\ Climbs(what, t, lo, hi)
         \/ Num(what, h) = lo + 1 /\ lo < hi /\ Climbs(what, t, lo + 1, hi)
<1> DEFINE s == <<h>>
           u == s \o t
           N(e) == Num(what, e)
<1>1. Parts(s, t, u) /\ Len(s) = 1 /\ s[1] = h
  BY InParts, Short
<1>2. /\ \A i \in DOMAIN u : N(u[i]) = 0 \/ N(u[i]) \in (lo + 1)..hi
      /\ \A i, j \in DOMAIN u : i < j /\ N(u[i]) # 0 /\ N(u[j]) # 0 => N(u[i]) < N(u[j])
      /\ \A n \in (lo + 1)..hi : \E i \in DOMAIN u : N(u[i]) = n
  BY DEF Climbs
<1> HIDE DEF s, u
<1>3. u[1] = h /\ 1 \in DOMAIN u /\ \A i \in DOMAIN t : i \in Nat \ {0} /\ u[i + 1] = t[i] /\ i + 1 \in DOMAIN u
  BY <1>1 DEF Parts
<1>4. \A i \in DOMAIN u : i \in Nat \ {0} /\ (i = 1 \/ (i - 1 \in DOMAIN t /\ u[i] = t[i - 1]))
  BY <1>1 DEF Parts
<1> HIDE DEF N
<1>5. \A i, j \in DOMAIN t : i < j /\ N(t[i]) # 0 /\ N(t[j]) # 0 => N(t[i]) < N(t[j])
  BY <1>2, <1>3
<1>6. CASE N(h) = 0
  <2>1. \A i \in DOMAIN t : N(t[i]) = 0 \/ N(t[i]) \in (lo + 1)..hi
    BY <1>2, <1>3
  <2>2. \A n \in (lo + 1)..hi : \E i \in DOMAIN t : N(t[i]) = n
    <3> TAKE n \in (lo + 1)..hi
    <3>1. PICK i \in DOMAIN u : N(u[i]) = n
      BY <1>2
    <3>2. i # 1
      BY <1>3, <1>6, <3>1
    <3> QED
      BY <1>4, <3>1, <3>2
  <2> QED
    BY <1>5, <1>6, <2>1, <2>2 DEF Climbs, N
<1>7. CASE N(h) # 0
  <2>1. N(h) \in (lo + 1)..hi
    BY <1>2, <1>3, <1>7
  <2>2. PICK k \in DOMAIN u : N(u[k]) = lo + 1
    <3>1. lo + 1 \in (lo + 1)..hi
      BY <2>1
    <3> QED
      BY <1>2, <3>1
  <2>3. k = 1
    <3>1. ASSUME k # 1 PROVE FALSE
      <4>1. 1 < k
        BY <1>4, <3>1
      <4>2. N(u[1]) < N(u[k])
        BY <1>2, <1>3, <1>7, <2>2, <4>1
      <4> QED
        BY <1>3, <2>1, <2>2, <4>2
    <3> QED
      BY <3>1
  <2>4. N(h) = lo + 1
    BY <1>3, <2>2, <2>3
  <2>5. ASSUME NEW i \in DOMAIN t
        PROVE  N(t[i]) = 0 \/ N(t[i]) \in (lo + 1 + 1)..hi
    <3>1. N(t[i]) # 0 => N(t[i]) \in (lo + 1)..hi /\ lo + 1 < N(t[i])
      BY <1>2, <1>3, <1>7, <2>4
    <3> QED
      BY <3>1
  <2>6. \A n \in (lo + 1 + 1)..hi : \E i \in DOMAIN t : N(t[i]) = n
    <3> TAKE n \in (lo + 1 + 1)..hi
    <3>1. PICK i \in DOMAIN u : N(u[i]) = n
      BY <1>2
    <3>2. i # 1
      BY <1>3, <2>4, <3>1
    <3> QED
      BY <1>4, <3>1, <3>2
  <2> QED
    BY <1>5, <2>1, <2>4, <2>5, <2>6 DEF Climbs, N
<1> QED
  BY <1>6, <1>7 DEF N

LEMMA ClimbsOne ==
  ASSUME NEW what, NEW e, NEW lo \in Nat
  PROVE  /\ Num(what, e) = 0 => Climbs(what, <<e>>, lo, lo)
         /\ Num(what, e) = lo + 1 => Climbs(what, <<e>>, lo, lo + 1)
<1>1. DOMAIN <<e>> = {1} /\ <<e>>[1] = e
  BY Short
<1> DEFINE s == <<e>>
<1> HIDE DEF s
<1>2. DOMAIN s = {1} /\ s[1] = e /\ (lo + 1)..lo = {} /\ (lo + 1)..(lo + 1) = {lo + 1}
  BY <1>1 DEF s
<1> QED
  BY <1>2 DEF Climbs, s

\* The events one call or piece of a chunk gives.
LEMMA PieceBrief ==
  ASSUME NEW s, NEW kind, NEW lo \in Nat, NEW hi \in Nat, Brief(s, kind),
         IF kind \in {"text", "args"} /\ s # <<>> THEN s[1].n = lo + 1 /\ hi = lo + 1 ELSE hi = lo
  PROVE  Climbs("piece", s, lo, hi)
<1>1. CASE s = <<>>
  BY <1>1, ClimbsNone
<1>2. CASE s # <<>>
  <2>1. PICK e : s = <<e>> /\ e.kind = kind
    BY <1>2 DEF Brief
  <2>2. s[1] = e
    BY <2>1, Short
  <2>3. Num("piece", e) = IF kind \in {"text", "args"} THEN e.n ELSE 0
    BY <2>1 DEF Num
  <2> QED
    BY <1>2, <2>1, <2>2, <2>3, ClimbsOne
<1> QED
  BY <1>1, <1>2

LEMMA CallBrief ==
  ASSUME NEW s, NEW kind, NEW lo \in Nat, NEW hi \in Nat, Brief(s, kind),
         IF kind = "call" /\ s # <<>> THEN s[1].tool = lo /\ hi = lo + 1 ELSE hi = lo
  PROVE  Climbs("call", s, lo, hi)
<1>1. CASE s = <<>>
  BY <1>1, ClimbsNone
<1>2. CASE s # <<>>
  <2>1. PICK e : s = <<e>> /\ e.kind = kind
    BY <1>2 DEF Brief
  <2>2. s[1] = e
    BY <2>1, Short
  <2>3. Num("call", e) = IF kind = "call" THEN e.tool + 1 ELSE 0
    BY <2>1 DEF Num
  <2> QED
    BY <1>2, <2>1, <2>2, <2>3, ClimbsOne
<1> QED
  BY <1>1, <1>2

\* What a parser makes of a chunk is numbered on.
LEMMA NewNumbers ==
  ASSUME NEW c, NEW s, NEW t, NEW o, NEW a, NEW e, NEW x, Ordered(c, s, t, o, a, e, x),
         NEW m \in Nat, NEW d \in Nat,
         t # <<>> => t[1].n = m + 1,
         a # <<>> => a[1].n = m + Bit(t # <<>>) + 1,
         o # <<>> => o[1].tool = d
  PROVE  /\ Climbs("piece", Whole(s, t, o, a, e, x), m, m + Bit(t # <<>>) + Bit(a # <<>>))
         /\ Climbs("call", Whole(s, t, o, a, e, x), d, d + Bit(o # <<>>))
<1> DEFINE st == s \o t
           oa == o \o a
           sta == st \o oa
           all == sta \o e
           m1 == m + Bit(t # <<>>)
           m2 == m1 + Bit(a # <<>>)
           d1 == d + Bit(o # <<>>)
<1>1. /\ Brief(s, "start") /\ Brief(t, "text") /\ Brief(o, "call")
      /\ Brief(a, "args") /\ Brief(e, "end") /\ Brief(x, "error")
  BY DEF Ordered
<1>2. /\ IsSeq(s) /\ IsSeq(t) /\ IsSeq(o) /\ IsSeq(a) /\ IsSeq(e) /\ IsSeq(x) /\ IsSeq(oa)
      /\ IsSeq(st) /\ IsSeq(sta) /\ IsSeq(all)
  BY WholeSeq
<1>3. /\ m1 \in Nat /\ m2 \in Nat /\ d1 \in Nat /\ m <= m1 /\ m1 <= m2 /\ d <= d1
      /\ (t = <<>> => m1 = m) /\ (t # <<>> => m1 = m + 1)
      /\ (a = <<>> => m2 = m1) /\ (a # <<>> => m2 = m1 + 1)
      /\ (o = <<>> => d1 = d) /\ (o # <<>> => d1 = d + 1)
  BY DEF Bit
<1>4. a # <<>> => a[1].n = m1 + 1
  OBVIOUS
<1> HIDE DEF m1, m2, d1
<1>5. Climbs("piece", s, m, m) /\ Climbs("call", s, d, d)
  <2>1. Brief(s, "start")
    BY <1>1
  <2>2. Climbs("piece", s, m, m)
    BY <1>3, <1>4, <2>1, PieceBrief
  <2>3. Climbs("call", s, d, d)
    BY <1>3, <2>1, CallBrief
  <2> QED
    BY <2>2, <2>3
<1>6. Climbs("piece", t, m, m1) /\ Climbs("call", t, d, d)
  <2>1. Brief(t, "text")
    BY <1>1
  <2>2. Climbs("piece", t, m, m1)
    BY <1>3, <1>4, <2>1, PieceBrief
  <2>3. Climbs("call", t, d, d)
    BY <1>3, <2>1, CallBrief
  <2> QED
    BY <2>2, <2>3
<1>7. Climbs("piece", o, m1, m1) /\ Climbs("call", o, d, d1)
  <2>1. Brief(o, "call")
    BY <1>1
  <2>2. Climbs("piece", o, m1, m1)
    BY <1>3, <1>4, <2>1, PieceBrief
  <2>3. Climbs("call", o, d, d1)
    BY <1>3, <2>1, CallBrief
  <2> QED
    BY <2>2, <2>3
<1>8. Climbs("piece", a, m1, m2) /\ Climbs("call", a, d1, d1)
  <2>1. Brief(a, "args")
    BY <1>1
  <2>2. Climbs("piece", a, m1, m2)
    BY <1>3, <1>4, <2>1, PieceBrief
  <2>3. Climbs("call", a, d1, d1)
    BY <1>3, <2>1, CallBrief
  <2> QED
    BY <2>2, <2>3
<1>9. Climbs("piece", e, m2, m2) /\ Climbs("call", e, d1, d1)
  <2>1. Brief(e, "end")
    BY <1>1
  <2>2. Climbs("piece", e, m2, m2)
    BY <1>3, <1>4, <2>1, PieceBrief
  <2>3. Climbs("call", e, d1, d1)
    BY <1>3, <2>1, CallBrief
  <2> QED
    BY <2>2, <2>3
<1>10. Climbs("piece", x, m2, m2) /\ Climbs("call", x, d1, d1)
  <2>1. Brief(x, "error")
    BY <1>1
  <2>2. Climbs("piece", x, m2, m2)
    BY <1>3, <1>4, <2>1, PieceBrief
  <2>3. Climbs("call", x, d1, d1)
    BY <1>3, <2>1, CallBrief
  <2> QED
    BY <2>2, <2>3
<1>11. Climbs("piece", st, m, m1) /\ Climbs("call", st, d, d)
  BY <1>2, <1>3, <1>5, <1>6, ClimbsJoin
<1>12. Climbs("piece", oa, m1, m2) /\ Climbs("call", oa, d, d1)
  BY <1>2, <1>3, <1>7, <1>8, ClimbsJoin
<1> HIDE DEF st, oa
<1>13. Climbs("piece", sta, m, m2) /\ Climbs("call", sta, d, d1)
  BY <1>2, <1>3, <1>11, <1>12, ClimbsJoin
<1> HIDE DEF sta
<1>14. Climbs("piece", all, m, m2) /\ Climbs("call", all, d, d1)
  BY <1>2, <1>3, <1>9, <1>13, ClimbsJoin
<1> HIDE DEF all
<1>15. Climbs("piece", all \o x, m, m2) /\ Climbs("call", all \o x, d, d1)
  BY <1>2, <1>3, <1>10, <1>14, ClimbsJoin
<1>16. Whole(s, t, o, a, e, x) = all \o x
  BY DEF Whole, all, sta, oa, st
<1> QED
  BY <1>15, <1>16 DEF m2, m1, d1

LEMMA NewLabels ==
  ASSUME NEW c, NEW s, NEW t, NEW o, NEW a, NEW e, NEW x, Ordered(c, s, t, o, a, e, x), NEW lanes,
         t # <<>> => t[1].n # 0 /\ lanes[t[1].n] = 0,
         a # <<>> => a[1].n # 0 /\ lanes[a[1].n] = a[1].tool + 1,
         o # <<>> => o[1].tool \in Nat
  PROVE  \A v \in Of(Whole(s, t, o, a, e, x)) : Labelled(v, lanes)
<1>1. Of(Whole(s, t, o, a, e, x)) = Of(s) \cup Of(t) \cup Of(o) \cup Of(a) \cup Of(e) \cup Of(x)
  BY WholeSeq
<1>2. /\ Brief(s, "start") /\ Brief(t, "text") /\ Brief(o, "call")
      /\ Brief(a, "args") /\ Brief(e, "end") /\ Brief(x, "error")
  BY DEF Ordered
<1>3. /\ \A v \in Of(s) : v.kind = "start"
      /\ \A v \in Of(e) : v.kind = "end"
      /\ \A v \in Of(x) : v.kind = "error"
  BY <1>2, BriefSeq
<1>4. \A v \in Of(t) : v.kind = "text" /\ t # <<>> /\ v = t[1]
  BY <1>2, BriefOrder, Short
<1>5. \A v \in Of(a) : v.kind = "args" /\ a # <<>> /\ v = a[1]
  BY <1>2, BriefOrder, Short
<1>6. \A v \in Of(o) : v.kind = "call" /\ o # <<>> /\ v = o[1]
  BY <1>2, BriefOrder, Short
<1> QED
  BY <1>1, <1>3, <1>4, <1>5, <1>6 DEF Labelled

\* The block a call's arguments are written in, when events of one kind are added.
FedOn(u, w, p, kind) ==
  /\ IsSeq(u \o p) /\ Fed(u \o p, w)
  /\ kind \notin {"text", "call", "end"} \/ p = <<>> =>
       \A tool : Current(u, w, Len(u) + 1, tool) => Current(u \o p, w, Len(u \o p) + 1, tool)
  /\ kind = "call" /\ p # <<>> => Current(u \o p, w, Len(u \o p) + 1, p[1].tool)

LEMMA FedMore ==
  ASSUME NEW u, NEW w, NEW p, NEW kind, IsSeq(u), Brief(p, kind), Fed(u, w),
         kind = "args" /\ p # <<>> => Current(u, w, Len(u) + 1, p[1].tool)
  PROVE  FedOn(u, w, p, kind)
<1>1. CASE p = <<>>
  <2>1. u \o p = u
    BY <1>1, Joining
  <2> QED
    BY <1>1, <2>1 DEF FedOn
<1>2. CASE p # <<>>
  <2>1. PICK f : p = <<f>> /\ f.kind = kind
    BY <1>2 DEF Brief
  <2> DEFINE r == u \o <<f>>
             n == Len(u)
  <2>2. Grown(u, f, r) /\ IsSeq(r) /\ p[1] = f
    BY <2>1, Growing, Short
  <2> HIDE DEF r, n
  <2>3. /\ n \in Nat /\ DOMAIN u = 1..n /\ DOMAIN r = 1..(n + 1) /\ Len(r) = n + 1
        /\ \A i \in 1..n : r[i] = u[i]
        /\ r[n + 1] = f
    BY <2>2 DEF Grown, n
  <2>4. ASSUME NEW i \in 1..(n + 1), NEW tool, Current(u, w, i, tool)
        PROVE  Current(r, w, i, tool)
    <3>1. \A k \in DOMAIN r : k < i => k \in DOMAIN u /\ r[k] = u[k]
      BY <2>3
    <3>2. \A k \in DOMAIN u : k \in DOMAIN r /\ r[k] = u[k]
      BY <2>3
    <3> QED
      BY <2>4, <3>1, <3>2 DEF Current
  <2>5. Fed(r, w)
    <3> SUFFICES ASSUME NEW i \in DOMAIN r, r[i].kind = "args"
                 PROVE  Current(r, w, i, r[i].tool)
      BY DEF Fed
    <3>1. CASE i \in DOMAIN u
      <4>1. Current(u, w, i, u[i].tool) /\ r[i] = u[i] /\ i \in 1..(n + 1)
        BY <2>3, <3>1 DEF Fed
      <4> QED
        BY <2>4, <4>1
    <3>2. CASE i \notin DOMAIN u
      <4>1. i = n + 1 /\ r[i] = f /\ n + 1 \in 1..(n + 1)
        BY <2>3, <3>2
      <4>2. Current(u, w, n + 1, f.tool)
        BY <1>2, <2>1, <2>2, <4>1 DEF n
      <4> QED
        BY <2>4, <4>1, <4>2
    <3> QED
      BY <3>1, <3>2
  <2>6. ASSUME kind \notin {"text", "call", "end"}, NEW tool, Current(u, w, n + 1, tool)
        PROVE  Current(r, w, n + 2, tool)
    <3>1. ~Turns(r[n + 1])
      BY <2>1, <2>3, <2>6 DEF Turns
    <3>2. \A k \in DOMAIN r : k = n + 1 \/ (k \in DOMAIN u /\ k < n + 1 /\ r[k] = u[k])
      BY <2>3
    <3>3. \A k \in DOMAIN u : k \in DOMAIN r /\ r[k] = u[k] /\ k < n + 1 /\ k < n + 2
      BY <2>3
    <3> QED
      BY <2>6, <3>1, <3>2, <3>3 DEF Current
  <2>7. ASSUME kind = "call"
        PROVE  Current(r, w, n + 2, f.tool)
    <3>1. n + 1 \in DOMAIN r /\ n + 1 < n + 2 /\ r[n + 1].kind = "call" /\ r[n + 1].tool = f.tool
      BY <2>1, <2>3, <2>7
    <3>2. \A k \in DOMAIN r : ~(n + 1 < k /\ k < n + 2)
      BY <2>3
    <3> QED
      BY <3>1, <3>2 DEF Current
  <2>8. u \o p = r /\ Len(r) + 1 = n + 2
    BY <2>1, <2>3 DEF r
  <2> QED
    BY <1>2, <2>2, <2>5, <2>6, <2>7, <2>8 DEF n, FedOn
<1> QED
  BY <1>1, <1>2

\* What is left when the first event is written.
LEMMA FedRest ==
  ASSUME NEW h, NEW t, NEW w, NEW v, IsSeq(t),
         ~Turns(h) => v.cur = w.cur /\ v.tool = w.tool,
         h.kind = "call" => v.cur = "call" /\ v.tool = h.tool
  PROVE  /\ Fed(<<h>> \o t, w) => Fed(t, v) /\ (h.kind = "args" => w.cur = "call" /\ w.tool = h.tool)
         /\ \A tool : Current(<<h>> \o t, w, Len(<<h>> \o t) + 1, tool) => Current(t, v, Len(t) + 1, tool)
<1> DEFINE s == <<h>>
           u == s \o t
<1>1. Parts(s, t, u) /\ Len(s) = 1 /\ s[1] = h /\ Len(u) = 1 + Len(t)
  BY InParts, Short, Joined
<1> HIDE DEF s, u
<1>2. u[1] = h /\ 1 \in DOMAIN u /\ \A i \in DOMAIN t : i \in Nat \ {0} /\ u[i + 1] = t[i] /\ i + 1 \in DOMAIN u
  BY <1>1 DEF Parts
<1>3. \A i \in DOMAIN u : i \in Nat \ {0} /\ (i = 1 \/ (i - 1 \in DOMAIN t /\ u[i] = t[i - 1]))
  BY <1>1 DEF Parts
<1>4. Len(t) \in Nat
  BY <1>1 DEF Parts
<1>5. ASSUME NEW i \in Nat \ {0}, NEW tool, Current(u, w, i + 1, tool)
      PROVE  Current(t, v, i, tool)
  <2>1. ASSUME NEW j \in DOMAIN u, j < i + 1, u[j].kind = "call", u[j].tool = tool,
               \A k \in DOMAIN u : j < k /\ k < i + 1 => ~Turns(u[k])
        PROVE  Current(t, v, i, tool)
    <3>1. \A k \in DOMAIN t : j < k + 1 /\ k < i => ~Turns(t[k])
      BY <1>2, <2>1
    <3>2. CASE j = 1
      <4>1. \A k \in DOMAIN t : k < i => ~Turns(t[k])
        BY <1>2, <3>1, <3>2
      <4>2. v.cur = "call" /\ v.tool = tool
        BY <1>2, <2>1, <3>2
      <4> QED
        BY <4>1, <4>2 DEF Current
    <3>3. CASE j # 1
      <4>1. j - 1 \in DOMAIN t /\ u[j] = t[j - 1] /\ j - 1 < i
        BY <1>3, <2>1, <3>3
      <4>2. \A k \in DOMAIN t : j - 1 < k /\ k < i => ~Turns(t[k])
        BY <1>2, <1>3, <3>1
      <4> QED
        BY <2>1, <4>1, <4>2 DEF Current
    <3> QED
      BY <3>2, <3>3
  <2>2. ASSUME w.cur = "call", w.tool = tool, \A k \in DOMAIN u : k < i + 1 => ~Turns(u[k])
        PROVE  Current(t, v, i, tool)
    <3>1. ~Turns(h)
      BY <1>2, <2>2
    <3>2. \A k \in DOMAIN t : k < i => ~Turns(t[k])
      BY <1>2, <2>2
    <3> QED
      BY <2>2, <3>1, <3>2 DEF Current
  <2> QED
    BY <1>5, <2>1, <2>2 DEF Current
<1>6. ASSUME Fed(u, w)
      PROVE  Fed(t, v)
  <2> SUFFICES ASSUME NEW i \in DOMAIN t, t[i].kind = "args"
               PROVE  Current(t, v, i, t[i].tool)
    BY DEF Fed
  <2>1. Current(u, w, i + 1, t[i].tool)
    BY <1>2, <1>6 DEF Fed
  <2> QED
    BY <1>2, <1>5, <2>1
<1>7. ASSUME Fed(u, w), h.kind = "args"
      PROVE  w.cur = "call" /\ w.tool = h.tool
  <2>1. Current(u, w, 1, h.tool)
    BY <1>2, <1>7 DEF Fed
  <2>2. \A j \in DOMAIN u : ~(j < 1)
    BY <1>3
  <2> QED
    BY <2>1, <2>2 DEF Current
<1>8. ASSUME NEW tool, Current(u, w, Len(u) + 1, tool)
      PROVE  Current(t, v, Len(t) + 1, tool)
  <2>1. Len(u) + 1 = (Len(t) + 1) + 1 /\ Len(t) + 1 \in Nat \ {0}
    BY <1>1, <1>4
  <2> QED
    BY <1>5, <1>8, <2>1
<1> QED
  BY <1>6, <1>7, <1>8 DEF u, s

\* What a parser makes of a chunk is written in its blocks.
LEMMA NewFed ==
  ASSUME NEW c, NEW s, NEW t, NEW o, NEW a, NEW e, NEW x, Ordered(c, s, t, o, a, e, x),
         NEW u, NEW w, IsSeq(u), Fed(u, w),
         a # <<>> => \/ o # <<>> /\ a[1].tool = o[1].tool
                     \/ t = <<>> /\ o = <<>> /\ Current(u, w, Len(u) + 1, a[1].tool)
  PROVE  LET r == u \o Whole(s, t, o, a, e, x) IN
           /\ Fed(r, w)
           /\ o # <<>> /\ e = <<>> => Current(r, w, Len(r) + 1, o[1].tool)
           /\ t = <<>> /\ o = <<>> /\ e = <<>> =>
                \A tool : Current(u, w, Len(u) + 1, tool) => Current(r, w, Len(r) + 1, tool)
<1> DEFINE At(r, tool) == Current(r, w, Len(r) + 1, tool)
           r1 == u \o s
           r2 == r1 \o t
           r3 == r2 \o o
           r4 == r3 \o a
           r5 == r4 \o e
           r6 == r5 \o x
<1>1. /\ Brief(s, "start") /\ Brief(t, "text") /\ Brief(o, "call")
      /\ Brief(a, "args") /\ Brief(e, "end") /\ Brief(x, "error")
  BY DEF Ordered
<1>2. IsSeq(r1) /\ Fed(r1, w) /\ \A tool : At(u, tool) => At(r1, tool)
  <2>1. Brief(s, "start") /\ IsSeq(u) /\ Fed(u, w)
    BY <1>1
  <2>2. FedOn(u, w, s, "start")
    BY <2>1, FedMore
  <2> QED
    BY <2>2 DEF FedOn
<1> HIDE DEF r1
<1>3. IsSeq(r2) /\ Fed(r2, w) /\ (t = <<>> => \A tool : At(r1, tool) => At(r2, tool))
  <2>1. Brief(t, "text") /\ IsSeq(r1) /\ Fed(r1, w)
    BY <1>1, <1>2
  <2>2. FedOn(r1, w, t, "text")
    BY <2>1, FedMore
  <2> QED
    BY <2>2 DEF FedOn
<1> HIDE DEF r2
<1>4. /\ IsSeq(r3) /\ Fed(r3, w) /\ (o = <<>> => \A tool : At(r2, tool) => At(r3, tool))
      /\ o # <<>> => At(r3, o[1].tool)
  <2>1. Brief(o, "call") /\ IsSeq(r2) /\ Fed(r2, w)
    BY <1>1, <1>3
  <2>2. FedOn(r2, w, o, "call")
    BY <2>1, FedMore
  <2> QED
    BY <2>2 DEF FedOn
<1> HIDE DEF r3
<1>5. a # <<>> => At(r3, a[1].tool)
  BY <1>2, <1>3, <1>4
<1>6. IsSeq(r4) /\ Fed(r4, w) /\ \A tool : At(r3, tool) => At(r4, tool)
  <2>1. Brief(a, "args") /\ IsSeq(r3) /\ Fed(r3, w)
    BY <1>1, <1>4
  <2>2. a # <<>> => Current(r3, w, Len(r3) + 1, a[1].tool)
    BY <1>5
  <2>3. FedOn(r3, w, a, "args")
    BY <2>1, <2>2, FedMore
  <2> QED
    BY <2>3 DEF FedOn
<1> HIDE DEF r4
<1>7. IsSeq(r5) /\ Fed(r5, w) /\ (e = <<>> => \A tool : At(r4, tool) => At(r5, tool))
  <2>1. Brief(e, "end") /\ IsSeq(r4) /\ Fed(r4, w)
    BY <1>1, <1>6
  <2>2. FedOn(r4, w, e, "end")
    BY <2>1, FedMore
  <2> QED
    BY <2>2 DEF FedOn
<1> HIDE DEF r5
<1>8. IsSeq(r6) /\ Fed(r6, w) /\ \A tool : At(r5, tool) => At(r6, tool)
  <2>1. Brief(x, "error") /\ IsSeq(r5) /\ Fed(r5, w)
    BY <1>1, <1>7
  <2>2. FedOn(r5, w, x, "error")
    BY <2>1, FedMore
  <2> QED
    BY <2>2 DEF FedOn
<1>9. u \o Whole(s, t, o, a, e, x) = r6
  <2> DEFINE st == s \o t
             oa == o \o a
             sta == st \o oa
             all == sta \o e
  <2>1. /\ IsSeq(s) /\ IsSeq(t) /\ IsSeq(o) /\ IsSeq(a) /\ IsSeq(e) /\ IsSeq(x) /\ IsSeq(oa)
        /\ IsSeq(st) /\ IsSeq(sta) /\ IsSeq(all)
    BY WholeSeq
  <2>2. Regroup(u, s, t) /\ Regroup(r2, o, a)
    BY <1>3, <2>1, Regrouped
  <2>3. u \o st = r2 /\ r2 \o oa = r4
    BY <2>2 DEF Regroup, r1, r2, r3, r4
  <2> HIDE DEF st, oa
  <2>4. Regroup(u, st, oa)
    BY <2>1, Regrouped
  <2>5. u \o sta = r4
    BY <2>3, <2>4 DEF Regroup
  <2> HIDE DEF sta
  <2>6. Regroup(u, sta, e)
    BY <2>1, Regrouped
  <2>7. u \o all = r5
    BY <2>5, <2>6 DEF Regroup, r5
  <2> HIDE DEF all
  <2>8. Regroup(u, all, x)
    BY <2>1, Regrouped
  <2>9. Whole(s, t, o, a, e, x) = all \o x
    BY DEF Whole, all, sta, oa, st
  <2> QED
    BY <2>7, <2>8, <2>9 DEF Regroup
<1> HIDE DEF r6
<1>10. o # <<>> /\ e = <<>> => At(r6, o[1].tool)
  BY <1>4, <1>6, <1>7, <1>8
<1>11. t = <<>> /\ o = <<>> /\ e = <<>> => \A tool : At(u, tool) => At(r6, tool)
  BY <1>2, <1>3, <1>4, <1>6, <1>7, <1>8
<1> QED
  BY <1>8, <1>9, <1>10, <1>11

\* Frames that carry no piece and make no call.
Plain(t) == IsSeq(t) /\ \A f \in Of(t) : f.ns = <<>> /\ f.typ \notin {"text", "args", "call"}

\* What such frames leave as it is.
Same(s, r) ==
  /\ IsSeq(r) /\ Nums(r) = Nums(s) /\ Calls(r) = Calls(s) /\ Ord(r, Len(r)) = Ord(s, Len(s))
  /\ \A j \in Calls(s) : r[j] = s[j] /\ Ord(r, j) = Ord(s, j)
  /\ \A lanes : Sound(s, lanes) => Sound(r, lanes)
  /\ (\A i \in DOMAIN s : s[i].typ \notin {"call", "args"}) => \A i \in DOMAIN r : r[i].typ \notin {"call", "args"}

LEMMA SameFrames ==
  ASSUME NEW s, NEW t, IsSeq(s), Plain(t)
  PROVE  Same(s, s \o t)
<1> DEFINE r == s \o t
           n == Len(s)
<1>1. Parts(s, t, r) /\ IsSeq(r)
  BY InParts, Joined DEF Plain
<1>2. \A i \in DOMAIN t : t[i].ns = <<>> /\ t[i].typ \notin {"text", "args", "call"} /\ Of(t[i].ns) = {}
  BY Short DEF Plain, Of
<1>3. Len(r) = n + Len(t)
  BY Joined DEF Plain
<1> HIDE DEF r
<1>4. /\ n \in Nat /\ DOMAIN s = 1..n /\ n <= Len(r) /\ Len(r) \in Nat /\ DOMAIN r = 1..Len(r)
      /\ \A i \in DOMAIN s : r[i] = s[i] /\ i \in DOMAIN r
      /\ \A i \in DOMAIN r : i \in DOMAIN s \/ (/\ i > n /\ r[i].ns = <<>> /\ Of(r[i].ns) = {}
                                                /\ r[i].typ \notin {"text", "args", "call"})
  <2>1. /\ n \in Nat /\ DOMAIN s = 1..n /\ n <= Len(r) /\ Len(r) \in Nat /\ DOMAIN r = 1..Len(r)
        /\ \A i \in DOMAIN s : r[i] = s[i] /\ i \in DOMAIN r
    BY <1>1, <1>3 DEF Parts
  <2>2. \A i \in DOMAIN r : i \in DOMAIN s \/ (i - n \in DOMAIN t /\ r[i] = t[i - n] /\ i > n)
    BY <1>1, <2>1 DEF Parts
  <2> QED
    BY <1>2, <2>1, <2>2
<1> HIDE DEF n
<1>5. Nums(r) = Nums(s)
  <2>1. \A x : x \in Nums(r) <=> \E i \in DOMAIN r : x \in Of(r[i].ns)
    BY DEF Nums
  <2>2. \A x : x \in Nums(s) <=> \E i \in DOMAIN s : x \in Of(s[i].ns)
    BY DEF Nums
  <2>3. \A x : x \in Nums(r) <=> x \in Nums(s)
    BY <1>4, <2>1, <2>2
  <2> QED
    BY <2>3
<1>6. Calls(r) = Calls(s)
  BY <1>4 DEF Calls
<1>7. \A i \in 1..n : Ord(r, i) = Ord(s, i)
  <2> TAKE i \in 1..n
  <2>1. {j \in 1..i : r[j].typ = "call"} = {j \in 1..i : s[j].typ = "call"}
    BY <1>4
  <2> QED
    BY <2>1 DEF Ord
<1>8. Ord(r, Len(r)) = Ord(s, n)
  <2>1. {j \in 1..Len(r) : r[j].typ = "call"} = {j \in 1..n : s[j].typ = "call"}
    BY <1>4
  <2> QED
    BY <2>1 DEF Ord
<1>9. ASSUME NEW lanes, Sound(s, lanes)
      PROVE  Sound(r, lanes)
  <2>1. ASSUME NEW i \in DOMAIN r
        PROVE  Rises(r[i].ns) /\ \A x \in Of(r[i].ns) : InLane(r, lanes, i, x)
    <3>1. CASE i \in DOMAIN s
      <4>1. Rises(s[i].ns) /\ \A x \in Of(s[i].ns) : InLane(s, lanes, i, x)
        BY <1>9, <3>1 DEF Sound
      <4>2. Ord(r, i) = Ord(s, i) /\ \A j \in Calls(s) : r[j] = s[j] /\ Ord(r, j) = Ord(s, j)
        BY <1>4, <1>7, <3>1 DEF Calls
      <4>3. ASSUME NEW x \in Of(r[i].ns)
            PROVE  InLane(r, lanes, i, x)
        <5>1. InLane(s, lanes, i, x) /\ r[i] = s[i]
          BY <1>4, <3>1, <4>1, <4>3
        <5> QED
          BY <1>6, <4>2, <5>1 DEF InLane
      <4> QED
        BY <1>4, <3>1, <4>1, <4>3
    <3>2. CASE i \notin DOMAIN s
      <4>1. r[i].ns = <<>> /\ Of(r[i].ns) = {} /\ Rises(<<>>)
        BY <1>4, <3>2, Short DEF Rises
      <4> QED
        BY <4>1
    <3> QED
      BY <3>1, <3>2
  <2>2. \A i, j \in DOMAIN r : i < j /\ r[i].typ # "call" /\ r[j].typ # "call"
                               => \A x \in Of(r[i].ns), y \in Of(r[j].ns) : x < y
    BY <1>4, <1>9 DEF Sound
  <2>3. \A i \in DOMAIN r, j \in Calls(r) : r[i].typ = "args" => Of(r[j].ns) = {}
    <3>1. \A i \in DOMAIN s, j \in Calls(s) : s[i].typ = "args" => Of(s[j].ns) = {}
      BY <1>9 DEF Sound
    <3> QED
      BY <1>4, <1>6, <3>1 DEF Calls
  <2>4. \A i, j \in Calls(r) : r[i].at = r[j].at => i = j
    <3>1. \A i, j \in Calls(s) : s[i].at = s[j].at => i = j
      BY <1>9 DEF Sound
    <3> QED
      BY <1>4, <1>6, <3>1 DEF Calls
  <2> QED
    BY <2>1, <2>2, <2>3, <2>4 DEF Sound
<1>10. \A j \in Calls(s) : r[j] = s[j] /\ Ord(r, j) = Ord(s, j)
  BY <1>4, <1>7 DEF Calls
<1>11. (\A i \in DOMAIN s : s[i].typ \notin {"call", "args"}) => \A i \in DOMAIN r : r[i].typ \notin {"call", "args"}
  BY <1>4
<1>12. Same(s, r)
  BY <1>1, <1>5, <1>6, <1>8, <1>9, <1>10, <1>11 DEF Same, n
<1> QED
  BY <1>12 DEF r

\* One frame more that may carry pieces or make a call.
OrdAfter(s, f, r) ==
  /\ \A i \in 1..Len(s) : Ord(r, i) = Ord(s, i)
  /\ Ord(s, Len(s)) \in Nat /\ Ord(r, Len(r)) = Ord(s, Len(s)) + Bit(f.typ = "call")
  /\ Calls(r) = Calls(s) \cup (IF f.typ = "call" THEN {Len(r)} ELSE {})
  /\ Calls(s) \subseteq 1..Len(s) /\ Nums(r) = Nums(s) \cup Of(f.ns)

LEMMA OrdGrown ==
  ASSUME NEW s, NEW f, NEW r, Grown(s, f, r)
  PROVE  OrdAfter(s, f, r)
<1> DEFINE n == Len(s)
           was == {j \in 1..n : s[j].typ = "call"}
           is == {j \in 1..(n + 1) : r[j].typ = "call"}
<1>1. /\ n \in Nat /\ DOMAIN s = 1..n /\ Len(r) = n + 1 /\ DOMAIN r = 1..(n + 1)
      /\ \A i \in 1..n : r[i] = s[i]
      /\ r[n + 1] = f
  BY DEF Grown
<1> HIDE DEF n
<1>2. IsFiniteSet(was) /\ n + 1 \notin was
  <2>1. IsFiniteSet(1..n)
    <3>1. 1 \in Int /\ n \in Int
      BY <1>1
    <3> QED
      BY <3>1, FS_Interval, Zenon
  <2>2. was \subseteq 1..n
    OBVIOUS
  <2> HIDE DEF was
  <2>3. IsFiniteSet(was)
    BY <2>1, <2>2, FS_Subset
  <2> QED
    BY <1>1, <2>2, <2>3
<1>3. is = IF f.typ = "call" THEN was \cup {n + 1} ELSE was
  BY <1>1
<1> HIDE DEF was, is
<1>4. Cardinality(was) \in Nat /\ Cardinality(was \cup {n + 1}) = Cardinality(was) + 1
  BY <1>2, FS_CardinalityType, FS_AddElement
<1>5. Cardinality(is) = Cardinality(was) + Bit(f.typ = "call")
  BY <1>3, <1>4 DEF Bit
<1>6. Ord(s, n) = Cardinality(was) /\ Ord(r, n + 1) = Cardinality(is)
  BY DEF Ord, was, is
<1>7. \A i \in 1..n : Ord(r, i) = Ord(s, i)
  <2> TAKE i \in 1..n
  <2>1. {j \in 1..i : r[j].typ = "call"} = {j \in 1..i : s[j].typ = "call"}
    BY <1>1
  <2> QED
    BY <2>1 DEF Ord
<1>8. Calls(r) = Calls(s) \cup (IF f.typ = "call" THEN {n + 1} ELSE {}) /\ Calls(s) \subseteq 1..n
  BY <1>1 DEF Calls
<1>9. Nums(r) = Nums(s) \cup Of(f.ns)
  <2>1. \A x : x \in Nums(r) <=> \E i \in 1..(n + 1) : x \in Of(r[i].ns)
    BY <1>1 DEF Nums
  <2>2. \A x : x \in Nums(s) <=> \E i \in 1..n : x \in Of(s[i].ns)
    BY <1>1 DEF Nums
  <2>3. \A i \in 1..(n + 1) : i \in 1..n \/ i = n + 1
    BY <1>1
  <2>4. \A i \in 1..n : i \in 1..(n + 1)
    BY <1>1
  <2>5. n + 1 \in 1..(n + 1)
    BY <1>1
  <2>6. \A x : x \in Nums(r) <=> x \in Nums(s) \/ x \in Of(f.ns)
    BY <1>1, <2>1, <2>2, <2>3, <2>4, <2>5
  <2> QED
    BY <2>6
<1> QED
  BY <1>1, <1>4, <1>5, <1>6, <1>7, <1>8, <1>9 DEF OrdAfter, n

\* A frame that carries what is next.
Adds(s, lanes, f) ==
  /\ Rises(f.ns) /\ f.typ \in {"text", "args", "call"}
  /\ \A n \in Of(f.ns) : /\ n \in 1..Len(lanes)
                         /\ f.typ = "text" => lanes[n] = 0
                         /\ f.typ = "call" => lanes[n] = Ord(s, Len(s)) + 1
                         /\ f.typ = "args" => \E j \in Calls(s) : s[j].at = f.at /\ lanes[n] = Ord(s, j)
  /\ f.typ # "call" => \A m \in Nums(s), n \in Of(f.ns) : m < n
  /\ f.typ = "args" => \A j \in Calls(s) : Of(s[j].ns) = {}
  /\ f.typ = "call" => /\ \A i \in DOMAIN s : s[i].typ = "args" => Of(f.ns) = {}
                       /\ \A j \in Calls(s) : s[j].at # f.at

LEMMA SoundGrown ==
  ASSUME NEW s, NEW f, NEW r, NEW lanes, Grown(s, f, r), Sound(s, lanes), Adds(s, lanes, f)
  PROVE  Sound(r, lanes)
<1> DEFINE n == Len(s)
           l == n + 1
<1>1. /\ n \in Nat /\ DOMAIN s = 1..n /\ Len(r) = l /\ DOMAIN r = 1..l
      /\ \A i \in 1..n : r[i] = s[i]
      /\ r[l] = f
  BY DEF Grown
<1>2. OrdAfter(s, f, r)
  BY OrdGrown
<1>3. /\ \A i \in 1..n : Ord(r, i) = Ord(s, i)
      /\ Ord(s, n) \in Nat /\ Ord(r, l) = Ord(s, n) + Bit(f.typ = "call")
      /\ Calls(r) = Calls(s) \cup (IF f.typ = "call" THEN {l} ELSE {})
      /\ Calls(s) \subseteq 1..n
  BY <1>1, <1>2 DEF OrdAfter
<1>4. \A i \in DOMAIN r : i \in 1..n \/ (i = l /\ i \notin 1..n)
  BY <1>1
<1>5. \A i \in DOMAIN s : \A x \in Of(s[i].ns) : x \in Nums(s)
  BY DEF Nums
<1>6. \A i \in 1..n : i < l
  BY <1>1
<1> HIDE DEF n, l
<1>7. ASSUME NEW i \in DOMAIN r
      PROVE  Rises(r[i].ns) /\ \A x \in Of(r[i].ns) : InLane(r, lanes, i, x)
  <2>1. CASE i \in 1..n
    <3>1. Rises(s[i].ns) /\ \A x \in Of(s[i].ns) : InLane(s, lanes, i, x)
      BY <1>1, <2>1 DEF Sound
    <3>2. Ord(r, i) = Ord(s, i) /\ \A j \in Calls(s) : r[j] = s[j] /\ Ord(r, j) = Ord(s, j) /\ j \in Calls(r)
      BY <1>1, <1>3, <2>1
    <3>3. ASSUME NEW x \in Of(r[i].ns)
          PROVE  InLane(r, lanes, i, x)
      <4>1. InLane(s, lanes, i, x) /\ r[i] = s[i]
        BY <1>1, <2>1, <3>1, <3>3
      <4> QED
        BY <3>2, <4>1 DEF InLane
    <3> QED
      BY <1>1, <2>1, <3>1, <3>3
  <2>2. CASE i = l
    <3>1. r[i] = f /\ Rises(f.ns)
      BY <1>1, <2>2 DEF Adds
    <3>2. ASSUME NEW x \in Of(f.ns)
          PROVE  InLane(r, lanes, i, x)
      <4>1. /\ x \in 1..Len(lanes) /\ f.typ \in {"text", "args", "call"}
            /\ f.typ = "text" => lanes[x] = 0
            /\ f.typ = "call" => lanes[x] = Ord(s, n) + 1
            /\ f.typ = "args" => \E j \in Calls(s) : s[j].at = f.at /\ lanes[x] = Ord(s, j)
        BY <3>2 DEF Adds, n
      <4>2. f.typ = "call" => lanes[x] = Ord(r, i)
        BY <1>3, <2>2, <4>1 DEF Bit
      <4>3. f.typ = "args" => \E j \in Calls(r) : r[j].at = f.at /\ lanes[x] = Ord(r, j)
        <5>1. \A j \in Calls(s) : r[j] = s[j] /\ Ord(r, j) = Ord(s, j) /\ j \in Calls(r)
          BY <1>1, <1>3
        <5> QED
          BY <4>1, <5>1
      <4> QED
        BY <3>1, <4>1, <4>2, <4>3 DEF InLane
    <3> QED
      BY <3>1, <3>2
  <2> QED
    BY <1>4, <2>1, <2>2
<1>8. ASSUME NEW i \in DOMAIN r, NEW j \in DOMAIN r, i < j, r[i].typ # "call", r[j].typ # "call",
             NEW x \in Of(r[i].ns), NEW y \in Of(r[j].ns)
      PROVE  x < y
  <2>1. CASE j \in 1..n
    <3>1. i \in 1..n
      BY <1>1, <1>4, <1>6, <1>8, <2>1
    <3> QED
      BY <1>1, <1>8, <2>1, <3>1 DEF Sound
  <2>2. CASE j = l
    <3>1. i \in 1..n
      BY <1>1, <1>4, <1>6, <1>8, <2>2
    <3>2. r[i] = s[i] /\ r[j] = f
      BY <1>1, <2>2, <3>1
    <3>3. x \in Nums(s) /\ y \in Of(f.ns) /\ f.typ # "call"
      BY <1>1, <1>5, <1>8, <3>1, <3>2
    <3> QED
      BY <3>3 DEF Adds
  <2> QED
    BY <1>4, <2>1, <2>2
<1>9. ASSUME NEW i \in DOMAIN r, NEW j \in Calls(r), r[i].typ = "args"
      PROVE  Of(r[j].ns) = {}
  <2>1. CASE j \in Calls(s) /\ i \in 1..n
    BY <1>1, <1>3, <1>9, <2>1 DEF Sound
  <2>2. CASE j \in Calls(s) /\ i = l
    BY <1>1, <1>3, <1>9, <2>2 DEF Adds
  <2>3. CASE j \notin Calls(s)
    <3>1. f.typ = "call" /\ j = l /\ r[j] = f
      BY <1>1, <1>3, <1>9, <2>3
    <3>2. i \in 1..n
      BY <1>1, <1>4, <1>9, <3>1
    <3> QED
      BY <1>1, <1>9, <3>1, <3>2 DEF Adds
  <2> QED
    BY <1>4, <2>1, <2>2, <2>3
<1>10. ASSUME NEW i \in Calls(r), NEW j \in Calls(r), r[i].at = r[j].at
       PROVE  i = j
  <2>1. \A k, q \in Calls(s) : s[k].at = s[q].at => k = q
    BY DEF Sound
  <2>2. f.typ = "call" => \A k \in Calls(s) : s[k].at # f.at
    BY DEF Adds
  <2>3. \A k \in Calls(s) : r[k] = s[k]
    BY <1>1, <1>3
  <2>4. \A k \in Calls(r) : k \in Calls(s) \/ (k = l /\ f.typ = "call")
    BY <1>3
  <2> QED
    BY <1>1, <1>10, <2>1, <2>2, <2>3, <2>4
<1> QED
  BY <1>7, <1>8, <1>9, <1>10 DEF Sound

\* A frame with one piece, and one that makes a call.
PieceShown(s, r, n, lanes) ==
  /\ IsSeq(r) /\ Sound(r, lanes) /\ Nums(r) = Nums(s) \cup {n}
  /\ Calls(r) = Calls(s) /\ Ord(r, Len(r)) = Ord(s, Len(s))
  /\ \A j \in Calls(s) : r[j] = s[j] /\ Ord(r, j) = Ord(s, j)
  /\ ((\A i \in DOMAIN s : s[i].typ \notin {"call", "args"}) /\ lanes[n] = 0)
       => \A i \in DOMAIN r : r[i].typ \notin {"call", "args"}
CallShown(s, r, f, lanes) ==
  /\ IsSeq(r) /\ Sound(r, lanes) /\ Nums(r) = Nums(s)
  /\ Calls(r) = Calls(s) \cup {Len(r)} /\ r[Len(r)] = f /\ Ord(r, Len(r)) = Ord(s, Len(s)) + 1
  /\ \A j \in Calls(s) : r[j] = s[j] /\ Ord(r, j) = Ord(s, j)

LEMMA RisesOne == \A n : Rises(<<n>>) /\ Of(<<n>>) = {n} /\ Rises(<<>>) /\ Of(<<>>) = {}
<1> TAKE n
<1>1. DOMAIN <<n>> = {1} /\ DOMAIN <<>> = {} /\ Of(<<n>>) = {n} /\ Of(<<>>) = {}
  BY Short
<1> QED
  BY <1>1 DEF Rises

LEMMA PieceFrame ==
  ASSUME NEW s, NEW f, NEW n, NEW lanes, IsSeq(s), Sound(s, lanes), f.ns = <<n>>, n \in 1..Len(lanes),
         \A m \in Nums(s) : m < n,
         \/ f.typ = "text" /\ lanes[n] = 0
         \/ /\ f.typ = "args" /\ lanes[n] # 0 /\ \E j \in Calls(s) : s[j].at = f.at /\ lanes[n] = Ord(s, j)
            /\ \A j \in Calls(s) : Of(s[j].ns) = {}
  PROVE  PieceShown(s, s \o <<f>>, n, lanes)
<1> DEFINE r == s \o <<f>>
<1>1. Grown(s, f, r) /\ IsSeq(r)
  BY Growing
<1>2. Rises(f.ns) /\ Of(f.ns) = {n}
  BY RisesOne
<1> HIDE DEF r
<1>3. Adds(s, lanes, f)
  BY <1>2 DEF Adds
<1>4. Sound(r, lanes)
  BY <1>1, <1>3, SoundGrown
<1>5. OrdAfter(s, f, r)
  BY <1>1, OrdGrown
<1>6. Calls(r) = Calls(s) /\ Ord(r, Len(r)) = Ord(s, Len(s)) /\ Nums(r) = Nums(s) \cup {n}
  <2>1. f.typ # "call"
    OBVIOUS
  <2> QED
    BY <1>2, <1>5, <2>1 DEF OrdAfter, Bit
<1>7. \A j \in Calls(s) : r[j] = s[j] /\ Ord(r, j) = Ord(s, j)
  BY <1>1, <1>5 DEF OrdAfter, Grown
<1>8. ((\A i \in DOMAIN s : s[i].typ \notin {"call", "args"}) /\ lanes[n] = 0)
        => \A i \in DOMAIN r : r[i].typ \notin {"call", "args"}
  <2>1. \A i \in DOMAIN r : (i \in DOMAIN s /\ r[i] = s[i]) \/ r[i] = f
    BY <1>1 DEF Grown
  <2> QED
    BY <2>1
<1>9. PieceShown(s, r, n, lanes)
  BY <1>1, <1>4, <1>6, <1>7, <1>8 DEF PieceShown
<1> QED
  BY <1>9 DEF r

LEMMA CallFrame ==
  ASSUME NEW s, NEW f, NEW lanes, IsSeq(s), Sound(s, lanes), f.ns = <<>>, f.typ = "call",
         \A j \in Calls(s) : s[j].at # f.at
  PROVE  CallShown(s, s \o <<f>>, f, lanes)
<1> DEFINE r == s \o <<f>>
<1>1. Grown(s, f, r) /\ IsSeq(r)
  BY Growing
<1>2. Rises(f.ns) /\ Of(f.ns) = {}
  BY RisesOne
<1> HIDE DEF r
<1>3. Adds(s, lanes, f)
  BY <1>2 DEF Adds
<1>4. Sound(r, lanes)
  BY <1>1, <1>3, SoundGrown
<1>5. OrdAfter(s, f, r)
  BY <1>1, OrdGrown
<1>6. Calls(r) = Calls(s) \cup {Len(r)} /\ Ord(r, Len(r)) = Ord(s, Len(s)) + 1 /\ Nums(r) = Nums(s) /\ r[Len(r)] = f
  BY <1>1, <1>2, <1>5 DEF OrdAfter, Bit, Grown
<1>7. \A j \in Calls(s) : r[j] = s[j] /\ Ord(r, j) = Ord(s, j)
  BY <1>1, <1>5 DEF OrdAfter, Grown
<1>9. CallShown(s, r, f, lanes)
  BY <1>1, <1>4, <1>6, <1>7 DEF CallShown
<1> QED
  BY <1>9 DEF r

\* The frames of a dialect that sends events as they come, and its writer's locals.
Aligned(d, s, w, lanes, r, c) ==
  /\ IsSeq(s) /\ Sound(s, lanes) /\ AsFrames(s, r, c)
  /\ d = "openai" => Numbered(s, c)
  /\ d = "anthropic" => Writing(s, w)

\* The event that comes after r pieces and c calls.
Piece(e) == e.kind \in {"text", "args"}
NextUp(e, lanes, r, c) ==
  /\ IsEvent(e) /\ e.kind # "error" /\ Labelled(e, lanes)
  /\ Piece(e) => e.n = r + 1 /\ r + 1 \in 1..Len(lanes)
  /\ e.kind = "call" => e.tool = c
  /\ e.kind = "args" => e.tool \in 0..(c - 1)

Goes(w, v) == v.cur = "call" => w.cur = "call" /\ v.at = w.at /\ v.tool = w.tool

LEMMA AlignedSame ==
  ASSUME NEW d, NEW s, NEW w, NEW lanes, NEW r, NEW c, NEW t, NEW v,
         Aligned(d, s, w, lanes, r, c), Same(s, t), Goes(w, v)
  PROVE  Aligned(d, t, v, lanes, r, c)
<1>1. IsSeq(t) /\ Sound(t, lanes)
  BY DEF Aligned, Same
<1>2. /\ Nums(t) = Nums(s) /\ Calls(t) = Calls(s) /\ Ord(t, Len(t)) = Ord(s, Len(s))
      /\ \A j \in Calls(s) : t[j] = s[j] /\ Ord(t, j) = Ord(s, j)
  BY DEF Same
<1>3. AsFrames(t, r, c)
  BY <1>2 DEF Aligned, AsFrames
<1>4. d = "openai" => Numbered(t, c)
  BY <1>2 DEF Aligned, Numbered
<1>5. d = "anthropic" => Writing(t, v)
  BY <1>2 DEF Aligned, Writing, Goes
<1> QED
  BY <1>1, <1>3, <1>4, <1>5 DEF Aligned

LEMMA AlignedPiece ==
  ASSUME NEW d, NEW s, NEW w, NEW lanes, NEW r \in Nat, NEW c, NEW t, NEW v,
         Aligned(d, s, w, lanes, r, c), PieceShown(s, t, r + 1, lanes), Goes(w, v)
  PROVE  Aligned(d, t, v, lanes, r + 1, c)
<1>1. IsSeq(t) /\ Sound(t, lanes)
  BY DEF PieceShown
<1>2. /\ Nums(t) = Nums(s) \cup {r + 1} /\ Calls(t) = Calls(s) /\ Ord(t, Len(t)) = Ord(s, Len(s))
      /\ \A j \in Calls(s) : t[j] = s[j] /\ Ord(t, j) = Ord(s, j)
  BY DEF PieceShown
<1>3. AsFrames(t, r + 1, c)
  <2>1. 1..(r + 1) = (1..r) \cup {r + 1}
    OBVIOUS
  <2> QED
    BY <1>2, <2>1 DEF Aligned, AsFrames
<1>4. d = "openai" => Numbered(t, c)
  BY <1>2 DEF Aligned, Numbered
<1>5. d = "anthropic" => Writing(t, v)
  BY <1>2 DEF Aligned, Writing, Goes
<1> QED
  BY <1>1, <1>3, <1>4, <1>5 DEF Aligned

LEMMA AlignedCall ==
  ASSUME NEW d, NEW s, NEW w, NEW lanes, NEW r, NEW c \in Nat, NEW t, NEW v, NEW f,
         Aligned(d, s, w, lanes, r, c), CallShown(s, t, f, lanes), f.ns = <<>>,
         d = "openai" => f.at = c, d = "anthropic" => v.at = f.at /\ v.tool = c
  PROVE  Aligned(d, t, v, lanes, r, c + 1)
<1> DEFINE l == Len(t)
<1>1. IsSeq(t) /\ Sound(t, lanes)
  BY DEF CallShown
<1>2. /\ Nums(t) = Nums(s) /\ Calls(t) = Calls(s) \cup {l} /\ t[l] = f /\ Ord(t, l) = Ord(s, Len(s)) + 1
      /\ \A j \in Calls(s) : t[j] = s[j] /\ Ord(t, j) = Ord(s, j)
  BY DEF CallShown
<1>3. /\ Nums(s) = 1..r /\ Ord(s, Len(s)) = c
      /\ \A j \in Calls(s) : Of(s[j].ns) = {}
  BY DEF Aligned, AsFrames
<1>4. Of(f.ns) = {}
  BY Short
<1> HIDE DEF l
<1>5. AsFrames(t, r, c + 1)
  BY <1>2, <1>3, <1>4 DEF AsFrames, l
<1>6. d = "openai" => Numbered(t, c + 1)
  <2> HAVE d = "openai"
  <2>1. /\ \A j \in Calls(s) : s[j].at + 1 \in 1..c /\ Ord(s, j) = s[j].at + 1
        /\ \A k \in 1..c : \E j \in Calls(s) : s[j].at = k - 1
    BY DEF Aligned, Numbered
  <2>2. f.at = c /\ Ord(t, l) = c + 1
    BY <1>2, <1>3
  <2>3. \A j \in Calls(t) : t[j].at + 1 \in 1..(c + 1) /\ Ord(t, j) = t[j].at + 1
    BY <1>2, <2>1, <2>2
  <2>4. \A k \in 1..(c + 1) : \E j \in Calls(t) : t[j].at = k - 1
    <3> TAKE k \in 1..(c + 1)
    <3>1. CASE k \in 1..c
      BY <1>2, <2>1, <3>1
    <3>2. CASE k = c + 1
      BY <1>2, <2>2, <3>2
    <3> QED
      BY <3>1, <3>2
  <2> QED
    BY <2>3, <2>4 DEF Numbered
<1>7. d = "anthropic" => Writing(t, v)
  BY <1>2, <1>3 DEF Writing
<1> QED
  BY <1>1, <1>5, <1>6, <1>7 DEF Aligned

LEMMA FrameNumbers ==
  ASSUME NEW typ, NEW at, NEW ns, NEW id
  PROVE  /\ S!Frame(typ, at, ns).ns = ns /\ [S!Frame(typ, at, ns) EXCEPT !.id = id].ns = ns
         /\ ns = <<>> /\ typ \notin {"text", "args", "call"} => Plain(<<S!Frame(typ, at, ns)>>)
<1> DEFINE f == S!Frame(typ, at, ns)
<1>1. f.ns = ns /\ f.typ = typ /\ [f EXCEPT !.id = id].ns = ns
  BY DEF S!Frame
<1> HIDE DEF f
<1>2. ns = <<>> /\ typ \notin {"text", "args", "call"} => Plain(<<f>>)
  BY <1>1, Short DEF Plain
<1> QED
  BY <1>1, <1>2 DEF f

LEMMA PlainJoin ==
  /\ Plain(<<>>)
  /\ \A s, t : Plain(s) /\ Plain(t) => Plain(s \o t)
<1>1. Plain(<<>>)
  BY Short DEF Plain
<1>2. ASSUME NEW s, NEW t, Plain(s), Plain(t)
      PROVE  Plain(s \o t)
  <2>1. IsSeq(s) /\ IsSeq(t)
    BY <1>2 DEF Plain
  <2>2. IsSeq(s \o t) /\ Of(s \o t) = Of(s) \cup Of(t)
    BY <2>1, Joined
  <2> QED
    BY <1>2, <2>2 DEF Plain
<1> QED
  BY <1>1, <1>2

\* The frames of a piece: text, or the arguments of a call that was shown.
LEMMA PieceNext ==
  ASSUME NEW d, NEW s, NEW w, NEW lanes, NEW r \in Nat, NEW c \in Nat, NEW e, NEW f, NEW v,
         Aligned(d, s, w, lanes, r, c), NextUp(e, lanes, r, c), Piece(e), f.typ = e.kind, f.ns = <<e.n>>,
         e.kind = "args" => \E j \in Calls(s) : s[j].at = f.at /\ Ord(s, j) = e.tool + 1,
         Goes(w, v)
  PROVE  Aligned(d, s \o <<f>>, v, lanes, r + 1, c)
<1> DEFINE n == r + 1
<1>1. e.n = n /\ n \in 1..Len(lanes) /\ Labelled(e, lanes) /\ f.ns = <<n>>
  BY DEF NextUp
<1>2. IsSeq(s) /\ Sound(s, lanes) /\ Nums(s) = 1..r /\ \A j \in Calls(s) : Of(s[j].ns) = {}
  BY DEF Aligned, AsFrames
<1>3. \A m \in Nums(s) : m < n
  BY <1>2
<1>4. \/ f.typ = "text" /\ lanes[n] = 0
      \/ /\ f.typ = "args" /\ lanes[n] # 0 /\ \E j \in Calls(s) : s[j].at = f.at /\ lanes[n] = Ord(s, j)
         /\ \A j \in Calls(s) : Of(s[j].ns) = {}
  <2>1. e.kind = "text" => lanes[n] = 0
    BY <1>1 DEF Labelled
  <2>2. e.kind = "args" => lanes[n] = e.tool + 1 /\ e.tool \in 0..(c - 1)
    BY <1>1 DEF Labelled, NextUp
  <2>3. e.kind = "text" \/ e.kind = "args"
    BY DEF Piece
  <2>4. CASE e.kind = "text"
    BY <2>1, <2>4
  <2>5. CASE e.kind = "args"
    <3>1. PICK j \in Calls(s) : s[j].at = f.at /\ Ord(s, j) = e.tool + 1
      BY <2>5
    <3>2. e.tool \in Int /\ e.tool >= 0 /\ lanes[n] = e.tool + 1
      BY <2>2, <2>5
    <3>3. lanes[n] # 0 /\ lanes[n] = Ord(s, j)
      BY <3>1, <3>2
    <3> QED
      BY <1>2, <2>5, <3>1, <3>3
  <2> HIDE DEF n
  <2> QED
    BY <2>3, <2>4, <2>5
<1> HIDE DEF n
<1>5. PieceShown(s, s \o <<f>>, n, lanes)
  BY <1>1, <1>2, <1>3, <1>4, PieceFrame
<1>6. PieceShown(s, s \o <<f>>, r + 1, lanes)
  BY <1>5 DEF n
<1> QED
  BY <1>6, AlignedPiece

LEMMA OpenAIAligned ==
  ASSUME NEW s, NEW w, NEW lanes, NEW r \in Nat, NEW c \in Nat, NEW e,
         Aligned("openai", s, w, lanes, r, c), NextUp(e, lanes, r, c)
  PROVE  LET done == S!WriteOpenAI(e, w) IN
           Aligned("openai", s \o done.frames, done.w, lanes, r + Bit(Piece(e)), c + Bit(e.kind = "call"))
<1> DEFINE done == S!WriteOpenAI(e, w)
           role == S!Frame("role", 0, <<>>)
           text == S!Frame("text", 0, <<e.n>>)
           call == [S!Frame("call", e.tool, <<>>) EXCEPT !.id = e.id]
           args == S!Frame("args", e.tool, <<e.n>>)
           finish == S!Frame("finish", 0, <<>>)
           usage == S!Frame("usage", 0, <<>>)
           last == IF e.use > 0 THEN <<usage>> ELSE <<>>
           sum == S!Sum(w, e.use)
           To(m, k) == Aligned("openai", s \o done.frames, done.w, lanes, m, k)
<1>1. /\ e.kind = "start" => done = S!Wrote(w, <<role>>)
      /\ e.kind = "text" => done = S!Wrote(w, <<text>>)
      /\ e.kind = "call" => done = S!Wrote(w, <<call>>)
      /\ e.kind = "args" => done = S!Wrote(w, <<args>>)
  BY DEF S!WriteOpenAI
<1>2. e.kind = "end" => done = S!Wrote(sum, <<finish>> \o last)
  <2>1. e.kind = "end" => e.kind # "start" /\ e.kind # "text" /\ e.kind # "call" /\ e.kind # "args"
    OBVIOUS
  <2> QED
    BY <2>1, Zenon DEF S!WriteOpenAI
<1>3. \A x, fs : S!Wrote(x, fs).frames = fs /\ S!Wrote(x, fs).w = x
  BY DEF S!Wrote
<1>4. /\ text.typ = "text" /\ text.ns = <<e.n>> /\ args.typ = "args" /\ args.at = e.tool /\ args.ns = <<e.n>>
      /\ call.typ = "call" /\ call.at = e.tool /\ call.ns = <<>>
  BY DEF S!Frame
<1>5. Plain(<<role>>) /\ Plain(<<finish>> \o last)
  <2>1. Plain(<<role>>) /\ Plain(<<finish>>) /\ Plain(<<usage>>)
    BY FrameNumbers
  <2> HIDE DEF usage, finish, role
  <2>2. Plain(last)
    BY <2>1, PlainJoin
  <2> HIDE DEF last
  <2> QED
    BY <2>1, <2>2, PlainJoin
<1>6. IsSeq(s) /\ Sound(s, lanes) /\ AsFrames(s, r, c) /\ Numbered(s, c)
  BY DEF Aligned
<1>7. \A v : Goes(w, v) <=> (v.cur = "call" => w.cur = "call" /\ v.at = w.at /\ v.tool = w.tool)
  BY DEF Goes
<1> HIDE DEF done, role, text, call, args, finish, usage, last, sum
<1>8. CASE e.kind \in {"start", "end"}
  <2>1. PICK t, v : done = S!Wrote(v, t) /\ Plain(t)
    BY <1>1, <1>2, <1>5, <1>8
  <2>2. Same(s, s \o t)
    BY <1>6, <2>1, SameFrames
  <2>3. Aligned("openai", s \o t, v, lanes, r, c)
    <3>1. AsFrames(s \o t, r, c) /\ Numbered(s \o t, c) /\ Sound(s \o t, lanes) /\ IsSeq(s \o t)
      BY <1>6, <2>2 DEF Same, AsFrames, Numbered
    <3> QED
      BY <3>1 DEF Aligned
  <2>4. Bit(Piece(e)) = 0 /\ Bit(e.kind = "call") = 0
    BY <1>8 DEF Bit, Piece
  <2>5. To(r, c)
    BY <1>3, <2>1, <2>3
  <2> QED
    BY <2>4, <2>5 DEF done
<1>9. CASE Piece(e)
  <2> DEFINE f == IF e.kind = "text" THEN text ELSE args
  <2>1. done = S!Wrote(w, <<f>>) /\ f.typ = e.kind /\ f.ns = <<e.n>> /\ (e.kind = "args" => f.at = e.tool)
    BY <1>1, <1>4, <1>9 DEF Piece
  <2>2. e.kind = "args" => \E j \in Calls(s) : s[j].at = f.at /\ Ord(s, j) = e.tool + 1
    <3> HAVE e.kind = "args"
    <3> DEFINE k == e.tool + 1
    <3>1. k \in 1..c /\ k - 1 = e.tool /\ f.at = e.tool
      BY <2>1 DEF NextUp
    <3> HIDE DEF k
    <3>2. PICK j \in Calls(s) : s[j].at = e.tool
      BY <1>6, <3>1 DEF Numbered
    <3>3. Ord(s, j) = s[j].at + 1
      BY <1>6 DEF Numbered
    <3> QED
      BY <3>1, <3>2, <3>3
  <2> HIDE DEF f
  <2>3. Goes(w, w)
    BY <1>7
  <2>4. Aligned("openai", s \o <<f>>, w, lanes, r + 1, c)
    BY <1>9, <2>1, <2>2, <2>3, PieceNext
  <2>5. Bit(Piece(e)) = 1 /\ Bit(e.kind = "call") = 0
    BY <1>9 DEF Bit, Piece
  <2>6. To(r + 1, c)
    BY <1>3, <2>1, <2>4
  <2> QED
    BY <2>5, <2>6 DEF done
<1>10. CASE e.kind = "call"
  <2>1. done = S!Wrote(w, <<call>>) /\ call.at = c
    BY <1>1, <1>4, <1>10 DEF NextUp
  <2>2. \A j \in Calls(s) : s[j].at # call.at
    BY <1>6, <2>1 DEF Numbered
  <2>3. CallShown(s, s \o <<call>>, call, lanes)
    BY <1>4, <1>6, <2>2, CallFrame
  <2>4. Aligned("openai", s \o <<call>>, w, lanes, r, c + 1)
    BY <1>4, <2>1, <2>3, AlignedCall
  <2>5. Bit(Piece(e)) = 0 /\ Bit(e.kind = "call") = 1
    BY <1>10 DEF Bit, Piece
  <2>6. To(r, c + 1)
    BY <1>3, <2>1, <2>4
  <2> QED
    BY <2>5, <2>6 DEF done
<1>11. e.kind \in {"start", "end", "call"} \/ Piece(e)
  BY DEF NextUp, IsEvent, EventKinds, Piece
<1> QED
  BY <1>8, <1>9, <1>10, <1>11

LEMMA AnthropicAligned ==
  ASSUME NEW s, NEW w, NEW lanes, NEW r \in Nat, NEW c \in Nat, NEW e, IsWriter(w),
         Aligned("anthropic", s, w, lanes, r, c), NextUp(e, lanes, r, c), Tracks(s, w),
         e.kind = "args" => w.cur = "call" /\ w.tool = e.tool
  PROVE  LET done == S!WriteAnthropic(e, w) IN
           Aligned("anthropic", s \o done.frames, done.w, lanes, r + Bit(Piece(e)), c + Bit(e.kind = "call"))
<1> DEFINE done == S!WriteAnthropic(e, w)
           begun == [w EXCEPT !.started = TRUE]
           fresh == S!Block(w, IF e.kind = "text" THEN "text" ELSE "call", e.tool)
           idle == [S!Sum(w, e.use) EXCEPT !.cur = "none"]
           start == S!EnsureStarted(w)
           close == S!CloseCur(w)
           role == S!Frame("role", 0, <<>>)
           shuts == S!Frame("close", w.at, <<>>)
           text == S!Frame("text", w.at, <<e.n>>)
           open == S!Frame("open", w.next, <<>>)
           first == S!Frame("text", w.next, <<e.n>>)
           call == [S!Frame("call", w.next, <<>>) EXCEPT !.id = e.id]
           args == S!Frame("args", w.at, <<e.n>>)
           finish == S!Frame("finish", 0, <<>>)
           stop == S!Frame("stop", 0, <<>>)
           given == IF w.cur = "call" /\ w.tool = e.tool THEN <<args>> ELSE <<>>
           before == start \o close
           opened == before \o <<open>>
           over == <<finish>> \o <<stop>>
           To(m, k) == Aligned("anthropic", s \o done.frames, done.w, lanes, m, k)
<1>1. /\ e.kind = "start" => done = S!Wrote(begun, start)
      /\ e.kind = "text" /\ w.cur = "text" => done = S!Wrote(begun, start \o <<text>>)
      /\ e.kind = "text" /\ w.cur # "text" => done = S!Wrote(fresh, before \o <<open, first>>)
      /\ e.kind = "call" => done = S!Wrote(fresh, before \o <<call>>)
      /\ e.kind = "args" => done = S!Wrote(w, given)
      /\ e.kind = "end" => done = S!Wrote(idle, close \o <<finish, stop>>)
  BY Zenon DEF S!WriteAnthropic
<1>2. /\ begun.cur = w.cur /\ begun.at = w.at /\ begun.tool = w.tool
      /\ fresh.at = w.next /\ fresh.tool = e.tool /\ fresh.cur = (IF e.kind = "text" THEN "text" ELSE "call")
      /\ idle.cur = "none"
  BY DEF IsWriter, WriterFields, S!Block, S!Sum
<1>3. \A x, fs : S!Wrote(x, fs).frames = fs /\ S!Wrote(x, fs).w = x
  BY DEF S!Wrote
<1>4. /\ text.typ = "text" /\ text.ns = <<e.n>> /\ first.typ = "text" /\ first.ns = <<e.n>>
      /\ args.typ = "args" /\ args.at = w.at /\ args.ns = <<e.n>>
      /\ call.typ = "call" /\ call.at = w.next /\ call.ns = <<>>
  BY DEF S!Frame
<1>5. Plain(start) /\ Plain(close) /\ Plain(<<open>>) /\ Plain(<<finish>>) /\ Plain(<<stop>>)
  <2>1. Plain(<<role>>) /\ Plain(<<shuts>>) /\ Plain(<<open>>) /\ Plain(<<finish>>) /\ Plain(<<stop>>)
    BY FrameNumbers
  <2>2. start = (IF w.started THEN <<>> ELSE <<role>>) /\ close = (IF w.cur = "none" THEN <<>> ELSE <<shuts>>)
    BY DEF S!EnsureStarted, S!CloseCur
  <2> HIDE DEF role, shuts, start, close, open, finish, stop
  <2> QED
    BY <2>1, <2>2, PlainJoin
<1>6. IsSeq(s) /\ Sound(s, lanes) /\ AsFrames(s, r, c) /\ Writing(s, w)
  BY DEF Aligned
<1>7. Goes(w, begun) /\ Goes(w, w) /\ Goes(w, idle) /\ (e.kind = "text" => Goes(w, fresh))
  BY <1>2 DEF Goes
<1>8. \A j \in Calls(s) : s[j].at < w.next
  <2>1. \A j \in Openings(s, Len(s)) : s[j].at \in 0..(w.next - 1)
    BY DEF Tracks
  <2>2. Calls(s) \subseteq Openings(s, Len(s))
    <3>1. DOMAIN s = 1..Len(s)
      BY <1>6 DEF IsSeq
    <3> QED
      BY <3>1 DEF Calls, Openings, Opens
  <2>3. w.next \in Nat
    <3>1. Openings(s, Len(s)) \subseteq 1..Len(s) /\ Len(s) \in Nat
      BY <1>6 DEF Openings, IsSeq
    <3>2. 1 \in Int /\ Len(s) \in Int
      BY <3>1
    <3>3. IsFiniteSet(1..Len(s))
      BY <3>2, FS_Interval, Zenon
    <3>4. IsFiniteSet(Openings(s, Len(s)))
      BY <3>1, <3>3, FS_Subset
    <3>5. Cardinality(Openings(s, Len(s))) \in Nat
      BY <3>4, FS_CardinalityType
    <3> QED
      BY <3>5 DEF Tracks
  <2> QED
    BY <2>1, <2>2, <2>3
<1> DEFINE pair == <<open, first>>
           rest == <<finish, stop>>
<1>9. pair = <<open>> \o <<first>> /\ rest = over
  BY Pair
<1> HIDE DEF done, begun, fresh, idle, start, close, role, shuts, text, open, first, call, args, finish, stop, pair, rest
<1>10. Plain(before) /\ Plain(opened) /\ Plain(over) /\ IsSeq(<<first>>) /\ IsSeq(<<open>>)
  <2>1. Plain(before) /\ Plain(over)
    BY <1>5, PlainJoin
  <2> HIDE DEF before, over
  <2>2. Plain(opened)
    BY <1>5, <2>1, PlainJoin
  <2> QED
    BY <2>1, <2>2, Short
<1> HIDE DEF before, opened, over
<1>11. Plain(close \o over)
  BY <1>5, <1>10, PlainJoin
<1>12. \A t, v : Plain(t) /\ Goes(w, v) => Aligned("anthropic", s \o t, v, lanes, r, c)
  <2> TAKE t, v
  <2> HAVE Plain(t) /\ Goes(w, v)
  <2>1. Same(s, s \o t)
    BY <1>6, SameFrames
  <2> QED
    BY <2>1, AlignedSame
<1>13. \A t, f : Plain(t) => s \o (t \o <<f>>) = (s \o t) \o <<f>>
  <2> TAKE t, f
  <2> HAVE Plain(t)
  <2>1. IsSeq(t) /\ IsSeq(<<f>>)
    BY Short DEF Plain
  <2>2. Regroup(s, t, <<f>>)
    BY <1>6, <2>1, Regrouped
  <2> QED
    BY <2>2 DEF Regroup
<1>14. CASE e.kind \in {"start", "end"}
  <2>1. PICK t, v : done = S!Wrote(v, t) /\ Plain(t) /\ Goes(w, v)
    <3>1. CASE e.kind = "start"
      BY <1>1, <1>5, <1>7, <3>1
    <3>2. CASE e.kind = "end"
      <4>1. done = S!Wrote(idle, close \o over)
        BY <1>1, <1>9, <3>2 DEF rest
      <4> QED
        BY <1>7, <1>11, <4>1
    <3> QED
      BY <1>14, <3>1, <3>2
  <2>2. Bit(Piece(e)) = 0 /\ Bit(e.kind = "call") = 0
    BY <1>14 DEF Bit, Piece
  <2>3. To(r, c)
    BY <1>3, <1>12, <2>1
  <2> QED
    BY <2>2, <2>3 DEF done
<1>15. CASE e.kind = "text"
  <2>1. PICK t, f, v : /\ done = S!Wrote(v, t \o <<f>>) /\ Plain(t) /\ Goes(w, v)
                       /\ f.typ = "text" /\ f.ns = <<e.n>>
    <3>1. CASE w.cur = "text"
      BY <1>1, <1>4, <1>5, <1>7, <1>15, <3>1
    <3>2. CASE w.cur # "text"
      <4>1. done = S!Wrote(fresh, before \o pair)
        BY <1>1, <1>15, <3>2 DEF pair
      <4>2. IsSeq(before)
        BY <1>10 DEF Plain
      <4>3. Regroup(before, <<open>>, <<first>>)
        BY <1>10, <4>2, Regrouped
      <4>4. before \o pair = opened \o <<first>>
        BY <1>9, <4>3 DEF Regroup, opened
      <4> QED
        BY <1>4, <1>7, <1>10, <1>15, <4>1, <4>4
    <3> QED
      BY <3>1, <3>2
  <2>2. Aligned("anthropic", s \o t, v, lanes, r, c) /\ Goes(v, v)
    BY <1>12, <2>1 DEF Goes
  <2>3. Piece(e) /\ f.typ = e.kind /\ e.kind # "args"
    BY <1>15, <2>1 DEF Piece
  <2>6. Bit(Piece(e)) = 1 /\ Bit(e.kind = "call") = 0
    BY <1>15 DEF Bit, Piece
  <2> DEFINE u == s \o t
  <2> HIDE DEF u
  <2>4. Aligned("anthropic", u \o <<f>>, v, lanes, r + 1, c)
    <3>1. Aligned("anthropic", u, v, lanes, r, c)
      BY <2>2 DEF u
    <3> QED
      BY <2>1, <2>2, <2>3, <3>1, PieceNext
  <2>7. s \o (t \o <<f>>) = u \o <<f>>
    BY <1>13, <2>1 DEF u
  <2> DEFINE all == t \o <<f>>
  <2>8. done = S!Wrote(v, all) /\ s \o all = u \o <<f>>
    BY <2>1, <2>7
  <2> HIDE DEF all
  <2>9. done.frames = all /\ done.w = v
    BY <1>3, <2>8
  <2>5. To(r + 1, c)
    BY <2>4, <2>8, <2>9
  <2> QED
    BY <2>5, <2>6 DEF done
<1>16. CASE e.kind = "call"
  <2>1. done = S!Wrote(fresh, before \o <<call>>)
    BY <1>1, <1>16
  <2> DEFINE u == s \o before
  <2>2. Same(s, u)
    BY <1>6, <1>10, SameFrames
  <2> DEFINE still == [cur |-> "none"]
  <2>3. Aligned("anthropic", u, still, lanes, r, c)
    <3>1. Goes(w, still)
      BY DEF Goes
    <3> QED
      BY <1>10, <1>12, <3>1
  <2> HIDE DEF u, still
  <2>4. IsSeq(u) /\ Sound(u, lanes) /\ \A j \in Calls(u) : u[j].at # call.at
    <3>1. Calls(u) = Calls(s) /\ \A j \in Calls(s) : u[j] = s[j]
      BY <2>2 DEF Same
    <3>2. \A j \in Calls(s) : s[j].at # w.next
      <4>1. \A j \in Openings(s, Len(s)) : s[j].at \in 0..(w.next - 1)
        BY DEF Tracks
      <4>2. \A j \in Calls(s) : s[j].at \in Int /\ s[j].at < w.next
        <5>1. Calls(s) \subseteq Openings(s, Len(s))
          <6>1. DOMAIN s = 1..Len(s)
            BY <1>6 DEF IsSeq
          <6> QED
            BY <6>1 DEF Calls, Openings, Opens
        <5> QED
          BY <1>8, <4>1, <5>1
      <4> TAKE j \in Calls(s)
      <4>3. CASE s[j].at = w.next
        BY <4>2, <4>3
      <4> QED
        BY <4>3
    <3> QED
      BY <1>4, <2>3, <3>1, <3>2 DEF Aligned
  <2>5. CallShown(u, u \o <<call>>, call, lanes)
    BY <1>4, <2>4, CallFrame
  <2>6. fresh.at = call.at /\ fresh.tool = c
    BY <1>2, <1>4, <1>16 DEF NextUp
  <2>7. Aligned("anthropic", u \o <<call>>, fresh, lanes, r, c + 1)
    BY <1>4, <2>3, <2>5, <2>6, AlignedCall
  <2>8. Bit(Piece(e)) = 0 /\ Bit(e.kind = "call") = 1
    BY <1>16 DEF Bit, Piece
  <2>10. s \o (before \o <<call>>) = u \o <<call>>
    BY <1>10, <1>13 DEF u
  <2> DEFINE all == before \o <<call>>
  <2>11. done = S!Wrote(fresh, all) /\ s \o all = u \o <<call>>
    BY <2>1, <2>10
  <2> HIDE DEF all
  <2>12. done.frames = all /\ done.w = fresh
    BY <1>3, <2>11
  <2>9. To(r, c + 1)
    BY <2>7, <2>11, <2>12
  <2> QED
    BY <2>8, <2>9 DEF done
<1>17. CASE e.kind = "args"
  <2>1. done = S!Wrote(w, <<args>>)
    BY <1>1, <1>17
  <2>2. Piece(e)
    BY <1>17 DEF Piece
  <2>6. Bit(Piece(e)) = 1 /\ Bit(e.kind = "call") = 0
    BY <1>17 DEF Bit, Piece
  <2>3. \E j \in Calls(s) : s[j].at = args.at /\ Ord(s, j) = e.tool + 1
    BY <1>4, <1>6, <1>17 DEF Writing
  <2>4. Aligned("anthropic", s \o <<args>>, w, lanes, r + 1, c)
    BY <1>4, <1>7, <1>17, <2>2, <2>3, PieceNext
  <2>5. To(r + 1, c)
    BY <1>3, <2>1, <2>4
  <2> QED
    BY <2>5, <2>6 DEF done
<1> QED
  BY <1>14, <1>15, <1>16, <1>17 DEF NextUp, IsEvent, EventKinds

\* The calls the Gemini dialect holds back, when a piece of text, a call or arguments come.
LEMMA HeldText ==
  ASSUME NEW held, NEW lanes, NEW r \in Nat, NEW c \in Nat, IsSeq(held), Held(held, lanes, r, c), lanes[r + 1] = 0
  PROVE  Held(held, lanes, r + 1, c)
<1>1. \A n \in 1..(r + 1) : n \in 1..r \/ n = r + 1
  OBVIOUS
<1>2. \A k \in DOMAIN held : k # 0
  BY DEF IsSeq
<1>3. \A k \in DOMAIN held : {n \in 1..(r + 1) : lanes[n] = k} = {n \in 1..r : lanes[n] = k}
  BY <1>1, <1>2
<1>4. \A n \in 1..(r + 1) : lanes[n] \in 0..c
  BY <1>1 DEF Held
<1> QED
  BY <1>3, <1>4 DEF Held

LEMMA HeldCall ==
  ASSUME NEW held, NEW lanes, NEW r \in Nat, NEW c \in Nat, NEW call, IsSeq(held), Held(held, lanes, r, c),
         DOMAIN call = {"tool", "id", "ns"}, call.tool = c, call.ns = <<>>
  PROVE  Held(Append(held, call), lanes, r, c + 1) /\ IsSeq(Append(held, call))
<1> DEFINE more == held \o <<call>>
<1>1. Grown(held, call, more) /\ IsSeq(more) /\ Append(held, call) = more
  BY Growing, Longer
<1> HIDE DEF more
<1>2. /\ Len(held) = c /\ Len(more) = c + 1 /\ DOMAIN held = 1..c /\ DOMAIN more = 1..(c + 1)
      /\ \A k \in 1..c : more[k] = held[k]
      /\ more[c + 1] = call
  BY <1>1 DEF Grown, Held
<1>3. \A n \in 1..r : lanes[n] \in 0..c /\ lanes[n] \in 0..(c + 1) /\ lanes[n] # c + 1
  <2>1. \A n \in 1..r : lanes[n] \in 0..c
    BY DEF Held
  <2> QED
    BY <2>1
<1>4. IsSeq(<<>>) /\ Rises(<<>>) /\ Of(<<>>) = {}
  BY Short, RisesOne
<1>5. {n \in 1..r : lanes[n] = c + 1} = {}
  BY <1>3
<1>6. ASSUME NEW k \in DOMAIN more
      PROVE  /\ DOMAIN more[k] = {"tool", "id", "ns"} /\ more[k].tool = k - 1 /\ IsSeq(more[k].ns) /\ Rises(more[k].ns)
             /\ Of(more[k].ns) = {n \in 1..r : lanes[n] = k}
  <2>1. CASE k \in 1..c
    BY <1>2, <2>1 DEF Held
  <2>2. CASE k = c + 1
    BY <1>2, <1>4, <1>5, <2>2
  <2> QED
    BY <1>2, <2>1, <2>2
<1>7. Held(more, lanes, r, c + 1)
  BY <1>2, <1>3, <1>6 DEF Held
<1> QED
  BY <1>1, <1>7

LEMMA HeldArgs ==
  ASSUME NEW held, NEW lanes, NEW r \in Nat, NEW c \in Nat, NEW more, IsSeq(held), Held(held, lanes, r, c),
         NEW tool \in 0..(c - 1), lanes[r + 1] = tool + 1, more = [i \in DOMAIN held |-> more[i]],
         \A i \in DOMAIN held : /\ DOMAIN more[i] = DOMAIN held[i] /\ more[i].tool = held[i].tool
                                /\ more[i].ns = IF held[i].tool = tool THEN Append(held[i].ns, r + 1) ELSE held[i].ns
  PROVE  Held(more, lanes, r + 1, c) /\ IsSeq(more)
<1>1. IsSeq(more) /\ Len(more) = Len(held) /\ DOMAIN more = DOMAIN held
  BY MappedSeq
<1>2. /\ Len(held) = c
      /\ \A n \in 1..r : lanes[n] \in 0..c
      /\ \A k \in DOMAIN held : /\ DOMAIN held[k] = {"tool", "id", "ns"} /\ held[k].tool = k - 1
                                /\ IsSeq(held[k].ns) /\ Rises(held[k].ns)
                                /\ Of(held[k].ns) = {n \in 1..r : lanes[n] = k}
  BY DEF Held
<1>3. \A k \in DOMAIN held : k \in Nat
  BY DEF IsSeq
<1>4. \A n \in 1..(r + 1) : n \in 1..r \/ n = r + 1
  OBVIOUS
<1>5. \A n \in 1..(r + 1) : lanes[n] \in 0..c
  BY <1>2, <1>4
<1>6. ASSUME NEW k \in DOMAIN held
      PROVE  /\ DOMAIN more[k] = {"tool", "id", "ns"} /\ more[k].tool = k - 1 /\ IsSeq(more[k].ns) /\ Rises(more[k].ns)
             /\ Of(more[k].ns) = {n \in 1..(r + 1) : lanes[n] = k}
  <2>1. CASE k # tool + 1
    <3>1. more[k].ns = held[k].ns /\ lanes[r + 1] # k
      BY <1>2, <1>3, <2>1
    <3>2. {n \in 1..(r + 1) : lanes[n] = k} = {n \in 1..r : lanes[n] = k}
      BY <1>4, <3>1
    <3> QED
      BY <1>2, <3>1, <3>2
  <2>2. CASE k = tool + 1
    <3> DEFINE ns == held[k].ns
               l == r + 1
               longer == ns \o <<l>>
    <3>1. more[k].ns = Append(ns, l) /\ lanes[l] = k /\ more[k].tool = k - 1
      <4>1. held[k].tool = k - 1 /\ k - 1 = tool
        BY <1>2, <2>2
      <4>2. more[k].tool = k - 1 /\ more[k].ns = Append(held[k].ns, r + 1)
        BY <4>1
      <4> QED
        BY <2>2, <4>2
    <3>2. IsSeq(ns) /\ Rises(ns) /\ Of(ns) = {n \in 1..r : lanes[n] = k}
      BY <1>2
    <3> HIDE DEF ns
    <3>3. Grown(ns, l, longer) /\ IsSeq(longer) /\ Append(ns, l) = longer
      BY <3>2, Growing, Longer
    <3>4. IsSeq(<<l>>) /\ Of(<<l>>) = {l}
      BY Short
    <3>5. Of(longer) = Of(ns) \cup {l}
      BY <3>2, <3>4, Joined
    <3> HIDE DEF longer
    <3>6. {n \in 1..l : lanes[n] = k} = {n \in 1..r : lanes[n] = k} \cup {l}
      BY <1>4, <3>1
    <3>7. \A x \in DOMAIN ns : ns[x] < l
      <4>1. \A x \in DOMAIN ns : ns[x] \in Of(ns)
        BY DEF Of
      <4> QED
        BY <3>2, <4>1
    <3>8. Rises(longer)
      <4>1. /\ Len(ns) \in Nat /\ DOMAIN ns = 1..Len(ns) /\ DOMAIN longer = 1..(Len(ns) + 1)
            /\ \A i \in 1..Len(ns) : longer[i] = ns[i]
            /\ longer[Len(ns) + 1] = l
        BY <3>3 DEF Grown
      <4>2. \A x, y \in DOMAIN longer : x < y => x \in DOMAIN ns /\ (y \in DOMAIN ns \/ y = Len(ns) + 1)
        BY <4>1
      <4> QED
        BY <3>2, <3>7, <4>1, <4>2 DEF Rises
    <3> QED
      BY <1>2, <3>1, <3>2, <3>3, <3>5, <3>6, <3>8
  <2> QED
    BY <2>1, <2>2
<1> QED
  BY <1>1, <1>2, <1>5, <1>6 DEF Held

\* All of them are sent when the message ends.
AllSent(s, t, lanes, r, c) ==
  LET u == s \o t IN IsSeq(u) /\ Sound(u, lanes) /\ Nums(u) = 1..r /\ Ord(u, Len(u)) = c

LEMMA GeminiFlush ==
  ASSUME NEW s, NEW held, NEW lanes, NEW r \in Nat, NEW c \in Nat, NEW t, IsSeq(s), Sound(s, lanes),
         IsSeq(lanes), r <= Len(lanes), Holding(s, held, lanes, r, c), IsSeq(t), DOMAIN t = DOMAIN held, Len(t) = Len(held),
         \A i \in DOMAIN t : t[i].typ = "call" /\ t[i].at = i - 1 /\ t[i].ns = held[i].ns
  PROVE  AllSent(s, t, lanes, r, c)
<1> DEFINE u == s \o t
           n == Len(s)
<1>1. Parts(s, t, u) /\ IsSeq(u) /\ Len(u) = n + Len(t)
  BY InParts, Joined
<1>2. Nums(s) = UpTo(r, lanes) /\ (\A i \in DOMAIN s : s[i].typ \notin {"call", "args"}) /\ Held(held, lanes, r, c)
  BY DEF Holding
<1>3. /\ Len(t) = c
      /\ \A x \in 1..r : lanes[x] \in 0..c
      /\ \A k \in DOMAIN t : /\ Rises(t[k].ns) /\ Of(t[k].ns) = {x \in 1..r : lanes[x] = k}
  BY <1>2 DEF Held
<1> HIDE DEF u
<1>4. /\ n \in Nat /\ DOMAIN s = 1..n /\ DOMAIN t = 1..c /\ DOMAIN u = 1..(n + c) /\ Len(u) = n + c
      /\ \A i \in 1..n : u[i] = s[i] /\ u[i].typ \notin {"call", "args"} /\ i \in DOMAIN u
      /\ \A k \in 1..c : u[n + k] = t[k] /\ u[n + k].typ = "call" /\ n + k \in DOMAIN u
      /\ \A i \in DOMAIN u : i \in 1..n \/ (i - n \in 1..c /\ u[i] = t[i - n] /\ i = n + (i - n))
  <2>1. /\ n \in Nat /\ DOMAIN s = 1..n /\ DOMAIN t = 1..c /\ DOMAIN u = 1..(n + c) /\ Len(u) = n + c
    BY <1>1, <1>3 DEF Parts
  <2>2. \A i \in 1..n : u[i] = s[i] /\ i \in DOMAIN u
    BY <1>1, <2>1 DEF Parts
  <2>3. \A k \in 1..c : u[n + k] = t[k] /\ n + k \in DOMAIN u
    BY <1>1, <2>1 DEF Parts
  <2>4. \A i \in DOMAIN u : i \in 1..n \/ (i - n \in 1..c /\ u[i] = t[i - n] /\ i = n + (i - n))
    BY <1>1, <2>1 DEF Parts
  <2>5. \A i \in 1..n : u[i].typ \notin {"call", "args"}
    BY <1>2, <2>1, <2>2
  <2>6. \A k \in 1..c : u[n + k].typ = "call"
    BY <2>1, <2>3
  <2> HIDE DEF n
  <2> QED
    BY <2>1, <2>2, <2>3, <2>4, <2>5, <2>6
<1> HIDE DEF n
<1>5. ASSUME NEW k \in 0..c
      PROVE  Ord(u, n + k) = k
  <2>1. {j \in 1..(n + k) : u[j].typ = "call"} = (n + 1)..(n + k)
    <3>1. \A j \in 1..(n + k) : j \in 1..n => u[j].typ # "call"
      BY <1>4
    <3>2. \A j \in 1..(n + k) : j \notin 1..n => u[j].typ = "call" /\ j \in (n + 1)..(n + k)
      <4> TAKE j \in 1..(n + k)
      <4> HAVE j \notin 1..n
      <4>1. j - n \in 1..c /\ j = n + (j - n) /\ j \in (n + 1)..(n + k)
        BY <1>4
      <4> QED
        BY <1>4, <4>1
    <3>3. \A j \in (n + 1)..(n + k) : j \in 1..(n + k) /\ j \notin 1..n
      BY <1>4
    <3> QED
      BY <3>1, <3>2, <3>3
  <2>2. n + 1 \in Int /\ n + k \in Int
    BY <1>4
  <2>3. Cardinality((n + 1)..(n + k)) = IF n + 1 > n + k THEN 0 ELSE (n + k) - (n + 1) + 1
    BY <2>2, FS_Interval, Zenon
  <2>4. (IF n + 1 > n + k THEN 0 ELSE (n + k) - (n + 1) + 1) = k
    BY <1>4
  <2> QED
    BY <2>1, <2>3, <2>4 DEF Ord
<1>6. Nums(u) = 1..r
  <2>1. \A x : x \in Nums(u) <=> \E i \in DOMAIN u : x \in Of(u[i].ns)
    BY DEF Nums
  <2>2. \A x : x \in Nums(s) <=> \E i \in 1..n : x \in Of(s[i].ns)
    BY <1>4 DEF Nums
  <2>3. ASSUME NEW x \in Nums(u)
        PROVE  x \in 1..r
    <3>1. PICK i \in DOMAIN u : x \in Of(u[i].ns)
      BY <2>1
    <3>2. CASE i \in 1..n
      <4>1. x \in Nums(s)
        BY <1>4, <2>2, <3>1, <3>2
      <4> QED
        BY <1>2, <4>1 DEF UpTo
    <3>3. CASE i \notin 1..n
      BY <1>3, <1>4, <3>1, <3>3
    <3> QED
      BY <3>2, <3>3
  <2>4. ASSUME NEW x \in 1..r
        PROVE  x \in Nums(u)
    <3>1. CASE lanes[x] = 0
      <4>1. x \in Nums(s)
        BY <1>2, <3>1 DEF UpTo
      <4> QED
        BY <1>4, <2>1, <2>2, <4>1
    <3>2. CASE lanes[x] # 0
      <4>1. lanes[x] \in 1..c
        BY <1>3, <3>2
      <4>2. x \in Of(t[lanes[x]].ns)
        BY <1>3, <1>4, <4>1
      <4> QED
        BY <1>4, <2>1, <4>1, <4>2
    <3> QED
      BY <3>1, <3>2
  <2> QED
    BY <2>3, <2>4
<1>7. ASSUME NEW i \in DOMAIN u
      PROVE  Rises(u[i].ns) /\ \A x \in Of(u[i].ns) : InLane(u, lanes, i, x)
  <2>1. CASE i \in 1..n
    <3>1. Rises(s[i].ns) /\ \A x \in Of(s[i].ns) : InLane(s, lanes, i, x)
      BY <1>4, <2>1 DEF Sound
    <3>2. ASSUME NEW x \in Of(u[i].ns)
          PROVE  InLane(u, lanes, i, x)
      <4>1. InLane(s, lanes, i, x) /\ u[i] = s[i] /\ u[i].typ \notin {"call", "args"}
        BY <1>4, <2>1, <3>1, <3>2
      <4> QED
        BY <4>1 DEF InLane
    <3> QED
      BY <1>4, <2>1, <3>1, <3>2
  <2>2. CASE i \notin 1..n
    <3> DEFINE k == i - n
    <3>1. k \in 1..c /\ u[i] = t[k] /\ i = n + k /\ u[i].typ = "call"
      BY <1>4, <2>2
    <3> HIDE DEF k
    <3>2. Ord(u, i) = k
      BY <1>5, <3>1
    <3>3. Rises(u[i].ns) /\ Of(u[i].ns) = {x \in 1..r : lanes[x] = k}
      <4>1. Rises(t[k].ns) /\ Of(t[k].ns) = {x \in 1..r : lanes[x] = k}
        BY <1>3, <1>4, <3>1
      <4> QED
        BY <3>1, <4>1
    <3>4. \A x \in 1..r : x \in 1..Len(lanes)
      <4>1. Len(lanes) \in Int
        BY DEF IsSeq
      <4> QED
        BY <4>1
    <3> QED
      BY <3>1, <3>2, <3>3, <3>4 DEF InLane
  <2> QED
    BY <2>1, <2>2
<1>8. \A i, j \in DOMAIN u : i < j /\ u[i].typ # "call" /\ u[j].typ # "call"
                             => \A x \in Of(u[i].ns), y \in Of(u[j].ns) : x < y
  <2>1. \A i \in DOMAIN u : u[i].typ # "call" => i \in DOMAIN s /\ u[i] = s[i]
    BY <1>4
  <2> QED
    BY <2>1 DEF Sound
<1>9. \A i \in DOMAIN u : u[i].typ # "args"
  BY <1>4
<1>10. ASSUME NEW i \in Calls(u), NEW j \in Calls(u), u[i].at = u[j].at
       PROVE  i = j
  <2>1. \A q \in Calls(u) : q - n \in 1..c /\ u[q] = t[q - n] /\ q \in Int
    BY <1>4 DEF Calls
  <2>2. \A q \in Calls(u) : u[q].at = (q - n) - 1
    BY <1>4, <2>1
  <2> QED
    BY <1>4, <1>10, <2>1, <2>2
<1>11. Sound(u, lanes)
  BY <1>7, <1>8, <1>9, <1>10 DEF Sound
<1>12. Ord(u, Len(u)) = c
  BY <1>4, <1>5
<1> QED
  BY <1>1, <1>6, <1>11, <1>12 DEF AllSent, u

GeminiAt(s, w, lanes, r, c) ==
  /\ IsSeq(s) /\ Sound(s, lanes)
  /\ IF Shows(s, "finish") THEN Flushed(s, w.held, r, c) ELSE Holding(s, w.held, lanes, r, c)

LEMMA GeminiAligned ==
  ASSUME NEW s, NEW w, NEW lanes, NEW r \in Nat, NEW c \in Nat, NEW e, IsWriter(w), IsSeq(lanes), r <= Len(lanes),
         GeminiAt(s, w, lanes, r, c), NextUp(e, lanes, r, c), Shows(s, "finish") => ~Speaks(e)
  PROVE  LET done == S!WriteGemini(e, w) IN
           GeminiAt(s \o done.frames, done.w, lanes, r + Bit(Piece(e)), c + Bit(e.kind = "call"))
<1> DEFINE done == S!WriteGemini(e, w)
           held == w.held
           call == [tool |-> e.tool, id |-> e.id, ns |-> <<>>]
           added == [w EXCEPT !.held = Append(w.held, call)]
           Filled(k) == IF k.tool = e.tool THEN [k EXCEPT !.ns = Append(@, e.n)] ELSE k
           more == [i \in DOMAIN held |-> Filled(held[i])]
           filled == [w EXCEPT !.held = more]
           idle == [S!Sum(w, e.use) EXCEPT !.held = <<>>]
           text == S!Frame("text", 0, <<e.n>>)
           finish == S!Frame("finish", 0, <<>>)
           calls == [i \in DOMAIN held |-> [S!Frame("call", i - 1, held[i].ns) EXCEPT !.id = held[i].id]]
           all == calls \o <<finish>>
           holds == \E i \in DOMAIN w.held : w.held[i].tool = e.tool
           To(m, k) == GeminiAt(s \o done.frames, done.w, lanes, m, k)
<1>1. e.kind = "start" => done = S!Wrote(w, <<>>)
  BY Zenon DEF S!WriteGemini
<1>2. e.kind = "text" => done = S!Wrote(w, <<text>>)
  BY Zenon DEF S!WriteGemini
<1>3. e.kind = "call" /\ ~holds => done = S!Wrote(added, <<>>)
  BY Zenon DEF S!WriteGemini
<1>4. e.kind = "args" => done = S!Wrote(filled, <<>>)
  BY Zenon DEF S!WriteGemini
<1>5. e.kind = "end" => done = S!Wrote(idle, all)
  BY Zenon DEF S!WriteGemini
<1>6. \A x, fs : S!Wrote(x, fs).frames = fs /\ S!Wrote(x, fs).w = x
  BY DEF S!Wrote
<1>7. added.held = Append(held, call) /\ filled.held = more /\ idle.held = <<>> /\ call.tool = e.tool /\ call.ns = <<>>
      /\ DOMAIN call = {"tool", "id", "ns"}
  BY DEF IsWriter, WriterFields, S!Sum
<1>8. text.typ = "text" /\ text.ns = <<e.n>> /\ finish.typ = "finish" /\ Plain(<<finish>>)
  <2>1. text.typ = "text" /\ text.ns = <<e.n>> /\ finish.typ = "finish"
    BY DEF S!Frame
  <2>2. Plain(<<finish>>)
    BY FrameNumbers
  <2> QED
    BY <2>1, <2>2
<1>9. IsSeq(s) /\ Sound(s, lanes) /\ IsSeq(held)
  BY DEF GeminiAt, IsWriter
<1>10. ~Shows(s, "finish") => /\ Nums(s) = UpTo(r, lanes) /\ Held(held, lanes, r, c)
                              /\ \A i \in DOMAIN s : s[i].typ \notin {"call", "args"}
  BY DEF GeminiAt, Holding
<1>11. s \o <<>> = s
  BY <1>9, Joining
<1>12. more = [i \in DOMAIN held |-> more[i]]
  OBVIOUS
<1>13. \A i \in DOMAIN calls : calls[i].typ = "call" /\ calls[i].at = i - 1 /\ calls[i].ns = held[i].ns
  BY DEF S!Frame
<1>14. IsSeq(calls) /\ Len(calls) = Len(held) /\ DOMAIN calls = DOMAIN held
  <2>1. calls = [i \in DOMAIN held |-> calls[i]]
    OBVIOUS
  <2> HIDE DEF calls, held
  <2> QED
    BY <1>9, <2>1, MappedSeq
<1> HIDE DEF done, call, added, filled, idle, text, finish, calls, held
<1>15. CASE e.kind = "start"
  <2>1. done.frames = <<>> /\ done.w = w
    BY <1>1, <1>6, <1>15
  <2>2. To(r, c)
    BY <1>11, <2>1
  <2>3. Bit(Piece(e)) = 0 /\ Bit(e.kind = "call") = 0
    BY <1>15 DEF Bit, Piece
  <2> QED
    BY <2>2, <2>3 DEF done
<1>16. e.kind \in {"text", "call", "args"} => ~Shows(s, "finish")
  BY DEF Speaks
<1>17. CASE e.kind = "text"
  <2> DEFINE n == r + 1
             u == s \o <<text>>
  <2>1. e.n = n /\ n \in 1..Len(lanes) /\ lanes[n] = 0 /\ text.ns = <<n>>
    BY <1>8, <1>17 DEF NextUp, Labelled, Piece
  <2>2. ~Shows(s, "finish")
    BY <1>16, <1>17
  <2>3. \A m \in Nums(s) : m < n
    BY <1>10, <2>2 DEF UpTo
  <2> HIDE DEF n
  <2>4. PieceShown(s, u, n, lanes)
    BY <1>8, <1>9, <2>1, <2>3, PieceFrame
  <2>5. Grown(s, text, u)
    BY <1>9, Growing
  <2> HIDE DEF u
  <2>6. ~Shows(u, "finish")
    <3>1. \A i \in DOMAIN u : (i \in DOMAIN s /\ u[i] = s[i]) \/ u[i] = text
      BY <2>5 DEF Grown
    <3> QED
      BY <1>8, <2>2, <3>1 DEF Shows
  <2>7. Nums(u) = UpTo(n, lanes)
    <3>1. \A m \in 1..n : m \in 1..r \/ m = n
      BY DEF n
    <3>2. \A m \in 1..r : m \in 1..n
      BY DEF n
    <3>4. n \in 1..n
      BY DEF n
    <3>5. \A m : m \in UpTo(n, lanes) <=> m \in UpTo(r, lanes) \/ m = n
      BY <2>1, <3>1, <3>2, <3>4 DEF UpTo
    <3>3. UpTo(n, lanes) = UpTo(r, lanes) \cup {n}
      BY <3>5
    <3> QED
      BY <1>10, <2>2, <2>4, <3>3 DEF PieceShown
  <2>8. Held(held, lanes, n, c)
    BY <1>9, <1>10, <2>1, <2>2, HeldText DEF n
  <2>9. GeminiAt(u, w, lanes, n, c)
    BY <1>10, <2>1, <2>2, <2>4, <2>6, <2>7, <2>8 DEF GeminiAt, Holding, PieceShown, held
  <2>10. done.frames = <<text>> /\ done.w = w
    BY <1>2, <1>6, <1>17
  <2>11. To(r + 1, c)
    BY <2>9, <2>10 DEF u, n
  <2>12. Bit(Piece(e)) = 1 /\ Bit(e.kind = "call") = 0
    BY <1>17 DEF Bit, Piece
  <2> QED
    BY <2>11, <2>12 DEF done
<1>18. CASE e.kind = "call"
  <2>1. e.tool = c /\ ~Shows(s, "finish")
    BY <1>16, <1>18 DEF NextUp
  <2>2. ~holds
    <3>1. \A k \in DOMAIN held : k \in 1..c /\ held[k].tool = k - 1
      <4>1. DOMAIN held = 1..Len(held)
        BY <1>9 DEF IsSeq
      <4> QED
        BY <1>10, <2>1, <4>1 DEF Held
    <3>2. \A k \in DOMAIN held : held[k].tool # e.tool
      BY <2>1, <3>1
    <3> QED
      BY <3>2 DEF held
  <2>3. Held(Append(held, call), lanes, r, c + 1)
    BY <1>7, <1>9, <1>10, <2>1, HeldCall
  <2>4. done.frames = <<>> /\ done.w = added
    BY <1>3, <1>6, <1>18, <2>2
  <2>5. GeminiAt(s, added, lanes, r, c + 1)
    BY <1>7, <1>9, <1>10, <2>1, <2>3 DEF GeminiAt, Holding
  <2>6. To(r, c + 1)
    BY <1>11, <2>4, <2>5
  <2>7. Bit(Piece(e)) = 0 /\ Bit(e.kind = "call") = 1
    BY <1>18 DEF Bit, Piece
  <2> QED
    BY <2>6, <2>7 DEF done
<1>19. CASE e.kind = "args"
  <2> DEFINE n == r + 1
             tool == e.tool
  <2>1. e.n = n /\ n \in 1..Len(lanes) /\ lanes[n] = tool + 1 /\ tool \in 0..(c - 1) /\ ~Shows(s, "finish")
    BY <1>16, <1>19 DEF NextUp, Labelled, Piece
  <2>2. \A i \in DOMAIN held : /\ DOMAIN more[i] = DOMAIN held[i] /\ more[i].tool = held[i].tool
                               /\ more[i].ns = IF held[i].tool = tool THEN Append(held[i].ns, n) ELSE held[i].ns
    <3> TAKE i \in DOMAIN held
    <3>1. DOMAIN held[i] = {"tool", "id", "ns"} /\ Held(held, lanes, r, c)
      BY <1>10, <2>1 DEF Held
    <3>2. more[i] = IF held[i].tool = tool THEN [held[i] EXCEPT !.ns = Append(@, n)] ELSE held[i]
      BY <2>1
    <3> HIDE DEF more, tool, n
    <3> QED
      BY <3>1, <3>2
  <2> HIDE DEF more, tool, n
  <2>9. more = [i \in DOMAIN held |-> more[i]]
    BY <1>12
  <2>3. Held(more, lanes, r + 1, c)
    BY <1>9, <1>10, <2>1, <2>2, <2>9, HeldArgs DEF n
  <2>4. UpTo(n, lanes) = UpTo(r, lanes)
    <3>1. \A m \in 1..n : m \in 1..r \/ m = n
      BY DEF n
    <3>2. \A m \in 1..r : m \in 1..n
      BY DEF n
    <3>3. lanes[n] # 0
      BY <2>1
    <3> QED
      BY <3>1, <3>2, <3>3 DEF UpTo
  <2>5. GeminiAt(s, filled, lanes, r + 1, c)
    BY <1>7, <1>9, <1>10, <2>1, <2>3, <2>4 DEF GeminiAt, Holding, n
  <2>6. done.frames = <<>> /\ done.w = filled
    BY <1>4, <1>6, <1>19
  <2>7. To(r + 1, c)
    BY <1>11, <2>5, <2>6
  <2>8. Bit(Piece(e)) = 1 /\ Bit(e.kind = "call") = 0
    BY <1>19 DEF Bit, Piece
  <2> QED
    BY <2>7, <2>8 DEF done
<1>20. CASE e.kind = "end"
  <2>1. done.frames = all /\ done.w = idle
    BY <1>5, <1>6, <1>20
  <2> DEFINE u == s \o calls
             v == u \o <<finish>>
  <2>2. s \o all = v
    <3>1. IsSeq(<<finish>>)
      BY Short
    <3>2. Regroup(s, calls, <<finish>>)
      BY <1>9, <1>14, <3>1, Regrouped
    <3> QED
      BY <3>2 DEF Regroup
  <2>3. IsSeq(u) /\ Sound(u, lanes) /\ Nums(u) = 1..r /\ Ord(u, Len(u)) = c
    <3>1. CASE Shows(s, "finish")
      <4>1. Flushed(s, held, r, c)
        BY <3>1 DEF GeminiAt, held
      <4>2. calls = <<>>
        <5>1. DOMAIN calls = {}
          BY <1>14, <4>1, Short DEF Flushed
        <5>2. Len(calls) = 0
          BY <1>14, <4>1, Short DEF Flushed
        <5> QED
          BY <1>14, <5>2 DEF IsSeq
      <4>3. u = s
        BY <1>11, <4>2
      <4> QED
        BY <1>9, <4>1, <4>3 DEF Flushed
    <3>2. CASE ~Shows(s, "finish")
      <4>1. Holding(s, held, lanes, r, c)
        BY <1>10, <3>2 DEF Holding
      <4>2. DOMAIN calls = DOMAIN held /\ Len(calls) = Len(held) /\ IsSeq(calls)
        BY <1>14
      <4>3. AllSent(s, calls, lanes, r, c)
        BY <1>9, <1>13, <4>1, <4>2, GeminiFlush
      <4> QED
        BY <4>3 DEF AllSent
    <3> QED
      BY <3>1, <3>2
  <2> HIDE DEF u
  <2>4. Same(u, v)
    BY <1>8, <2>3, SameFrames
  <2>5. Shows(v, "finish")
    <3>1. Grown(u, finish, v)
      BY <2>3, Growing
    <3>2. v[Len(v)] = finish /\ Len(v) \in DOMAIN v
      BY <3>1 DEF Grown
    <3> QED
      BY <1>8, <3>2 DEF Shows
  <2> HIDE DEF v
  <2>6. GeminiAt(v, idle, lanes, r, c)
    BY <1>7, <2>3, <2>4, <2>5 DEF GeminiAt, Flushed, Same
  <2>7. To(r, c)
    BY <2>1, <2>2, <2>6
  <2>8. Bit(Piece(e)) = 0 /\ Bit(e.kind = "call") = 0
    BY <1>20 DEF Bit, Piece
  <2> QED
    BY <2>7, <2>8 DEF done
<1> QED
  BY <1>15, <1>17, <1>18, <1>19, <1>20 DEF NextUp, IsEvent, EventKinds

-----------------------------------------------------------------------------
(* What the upstream says, by its numbers *)

SaysOn(k, u, pieces) ==
  /\ IsSeq(pieces) /\ Len(pieces) = Bit(k.text # 0) + Bit(ArgsOf(k) # 0)
  /\ u.n = up.n + Len(pieces) /\ u.calls = up.calls + Bit(Opening(k))
  /\ u.blocks \in Nat /\ up.blocks <= u.blocks
  /\ \A i \in DOMAIN pieces : pieces[i] \in 0..u.calls
  /\ k.text # 0 => k.text = up.n + 1 /\ pieces[1] = 0 /\ (u.open = "call" => Opening(k))
  /\ ArgsOf(k) # 0 => ArgsOf(k) = u.n /\ pieces[Len(pieces)] = u.calls
  /\ k.calls # <<>> => u.open = "call"
  /\ Opening(k) /\ backend \notin {"openai", "gemini"} => ArgsOf(k) = 0
  /\ Adding(k) => backend # "gemini"
  /\ k.calls # <<>> /\ backend \notin {"anthropic", "bedrock", "gemini"} => k.calls[1].at = u.calls - 1
  /\ k.calls # <<>> /\ backend \in {"anthropic", "bedrock"} => k.calls[1].at = u.blocks - 1
  /\ Opening(k) /\ backend \in {"anthropic", "bedrock"} => u.blocks = up.blocks + 1
  /\ u.open = "call" => Opening(k) \/ (up.open = "call" /\ u.blocks = up.blocks)
  /\ u.open = "call" => u.calls > 0 /\ u.phase # "before"
  /\ u.open = "call" /\ ~Opening(k) /\ (u.phase = "talking" \/ Adding(k)) => up.phase = "talking"
  /\ u.phase = "finished" => k.fin # "none" \/ up.phase = "finished"
  /\ u.phase # "complete"

\* A chunk without a call, with one piece of text or none; and one with a call.
LEMMA SaysPlain ==
  ASSUME NEW k, NEW u, NEW pieces, up.n \in Nat, up.blocks \in Nat, up.calls \in Nat,
         up.open = "call" => up.calls > 0 /\ up.phase # "before",
         k.calls = <<>>, u.calls = up.calls, u.phase \notin {"before", "complete"},
         \/ /\ k.text = 0 /\ pieces = <<>> /\ u.n = up.n /\ u.blocks = up.blocks /\ u.open = up.open
            /\ u.phase = "talking" => up.phase = "before"
            /\ u.phase = "finished" => k.fin # "none" \/ up.phase = "finished"
         \/ /\ k.text = up.n + 1 /\ pieces = << 0 >> /\ u.n = up.n + 1 /\ u.open = "text"
            /\ u.blocks \in Nat /\ up.blocks <= u.blocks /\ u.phase = "talking"
  PROVE  SaysOn(k, u, pieces)
<1>1. ~Opening(k) /\ ~Adding(k) /\ ArgsOf(k) = 0
  BY DEF Opening, Adding, ArgsOf
<1>2. Bit(Opening(k)) = 0
  BY <1>1 DEF Bit
<1>3. Bit(ArgsOf(k) # 0) = 0
  BY <1>1 DEF Bit
<1>4. CASE k.text = 0 /\ pieces = <<>> /\ u.n = up.n /\ u.blocks = up.blocks /\ u.open = up.open
  <2>1. IsSeq(pieces) /\ Len(pieces) = 0 /\ DOMAIN pieces = {}
    BY <1>4, Short
  <2>2. Bit(k.text # 0) = 0
    BY <1>4 DEF Bit
  <2>3. /\ u.phase = "talking" => up.phase = "before"
        /\ u.phase = "finished" => k.fin # "none" \/ up.phase = "finished"
    BY <1>4
  <2> HIDE DEF Bit
  <2> QED
    BY <1>1, <1>2, <1>3, <1>4, <2>1, <2>2, <2>3 DEF SaysOn
<1>5. CASE /\ k.text = up.n + 1 /\ pieces = << 0 >> /\ u.n = up.n + 1 /\ u.open = "text"
           /\ u.blocks \in Nat /\ up.blocks <= u.blocks /\ u.phase = "talking"
  <2>1. IsSeq(pieces) /\ Len(pieces) = 1 /\ DOMAIN pieces = {1} /\ pieces[1] = 0
    BY <1>5, Short
  <2>2. Bit(k.text # 0) = 1
    BY <1>5 DEF Bit
  <2> QED
    BY <1>1, <1>2, <1>3, <1>5, <2>1, <2>2 DEF SaysOn
<1> QED
  BY <1>4, <1>5

LEMMA SaysCall ==
  ASSUME NEW k, NEW u, NEW pieces, NEW one, up.n \in Nat, up.blocks \in Nat, up.calls \in Nat,
         k.calls = <<one>>, one.opens \in BOOLEAN, u.open = "call", u.phase = "talking", u.calls > 0,
         u.n = up.n + Len(pieces), u.calls = up.calls + Bit(one.opens),
         u.blocks \in Nat, up.blocks <= u.blocks,
         ~one.opens => backend # "gemini" /\ up.phase = "talking" /\ up.open = "call" /\ u.blocks = up.blocks /\ k.text = 0,
         one.opens /\ backend \in {"anthropic", "bedrock"} => u.blocks = up.blocks + 1,
         one.opens /\ backend \notin {"openai", "gemini"} => one.args = 0,
         backend \notin {"anthropic", "bedrock", "gemini"} => one.at = u.calls - 1,
         backend \in {"anthropic", "bedrock"} => one.at = u.blocks - 1,
         \/ k.text = 0 /\ one.args = 0 /\ pieces = <<>>
         \/ k.text = 0 /\ one.args = up.n + 1 /\ pieces = <<u.calls>>
         \/ k.text = up.n + 1 /\ one.args = up.n + 2 /\ pieces = <<0, u.calls>>
  PROVE  SaysOn(k, u, pieces)
<1>1. k.calls # <<>> /\ k.calls[1] = one
  BY Short
<1>2. (Opening(k) <=> one.opens) /\ (Adding(k) <=> ~one.opens) /\ ArgsOf(k) = one.args
  BY <1>1 DEF Opening, Adding, ArgsOf
<1>3. Bit(Opening(k)) = Bit(one.opens)
  BY <1>2 DEF Bit
<1>4. u.calls \in Nat
  BY DEF Bit
<1>5. /\ IsSeq(pieces) /\ Len(pieces) = Bit(k.text # 0) + Bit(ArgsOf(k) # 0)
      /\ \A i \in DOMAIN pieces : pieces[i] \in 0..u.calls
      /\ k.text # 0 => k.text = up.n + 1 /\ pieces[1] = 0 /\ one.opens
      /\ ArgsOf(k) # 0 => ArgsOf(k) = u.n /\ pieces[Len(pieces)] = u.calls
  <2>1. CASE k.text = 0 /\ one.args = 0 /\ pieces = <<>>
    <3>1. IsSeq(pieces) /\ Len(pieces) = 0 /\ DOMAIN pieces = {}
      BY <2>1, Short
    <3>2. Bit(k.text # 0) = 0
      BY <2>1 DEF Bit
    <3>3. Bit(ArgsOf(k) # 0) = 0
      BY <1>2, <2>1 DEF Bit
    <3> QED
      BY <1>2, <2>1, <3>1, <3>2, <3>3
  <2>2. CASE k.text = 0 /\ one.args = up.n + 1 /\ pieces = <<u.calls>>
    <3>1. IsSeq(pieces) /\ Len(pieces) = 1 /\ DOMAIN pieces = {1} /\ pieces[1] = u.calls
      BY <2>2, Short
    <3>2. Bit(k.text # 0) = 0
      BY <2>2 DEF Bit
    <3>3. Bit(ArgsOf(k) # 0) = 1
      BY <1>2, <2>2 DEF Bit
    <3> QED
      BY <1>2, <1>4, <2>2, <3>1, <3>2, <3>3
  <2>3. CASE k.text = up.n + 1 /\ one.args = up.n + 2 /\ pieces = <<0, u.calls>>
    <3>1. IsSeq(pieces) /\ Len(pieces) = 2 /\ DOMAIN pieces = {1, 2} /\ pieces[1] = 0 /\ pieces[2] = u.calls
      <4>1. pieces = << 0 >> \o <<u.calls>>
        BY <2>3, Pair
      <4>2. IsSeq(<< 0 >>) /\ IsSeq(<<u.calls>>) /\ Len(<< 0 >>) = 1 /\ Len(<<u.calls>>) = 1
        BY Short
      <4>3. IsSeq(pieces) /\ Len(pieces) = 2
        BY <4>1, <4>2, Joined
      <4>4. DOMAIN pieces = 1..2 /\ pieces[1] = 0 /\ pieces[2] = u.calls
        BY <2>3
      <4> QED
        BY <4>3, <4>4
    <3>2. Bit(k.text # 0) = 1
      BY <2>3 DEF Bit
    <3>3. Bit(ArgsOf(k) # 0) = 1
      BY <1>2, <2>3 DEF Bit
    <3>4. one.opens
      BY <2>3
    <3>5. Len(pieces) = Bit(k.text # 0) + Bit(ArgsOf(k) # 0) /\ u.n = up.n + 2
      BY <3>1, <3>2, <3>3
    <3>6. \A i \in DOMAIN pieces : pieces[i] \in 0..u.calls
      BY <1>4, <3>1
    <3> QED
      BY <1>2, <2>3, <3>1, <3>4, <3>5, <3>6
  <2> QED
    BY <2>1, <2>2, <2>3
<1> QED
  BY <1>1, <1>2, <1>3, <1>4, <1>5 DEF SaysOn

LEMMA UpstreamCounts ==
  ASSUME DOMAIN up = UpFields, up.calls \in Nat, up.n \in Nat, up.blocks \in Nat,
         up.open = "call" => up.calls > 0 /\ up.phase # "before", S!Upstream, ~S!HangUp, ~S!Cut
  PROVE  \E k, u, pieces : S!Say(k, u, pieces) /\ SaysOn(k, u, pieces)
<1>1. CASE S!SayStart
  <2> DEFINE chunk == [S!Chunk EXCEPT !.start = TRUE]
             u == [up EXCEPT !.phase = "talking"]
  <2>1. S!Say(chunk, u, <<>>) /\ up.phase = "before"
    BY <1>1, Zenon DEF S!SayStart
  <2>2. /\ u.phase = "talking" /\ u.open = up.open /\ u.calls = up.calls
        /\ u.n = up.n /\ u.blocks = up.blocks
    BY DEF UpFields
  <2>3. chunk.text = 0 /\ chunk.calls = <<>>
    BY DEF S!Chunk
  <2> HIDE DEF chunk, u
  <2>4. SaysOn(chunk, u, <<>>)
    BY <2>1, <2>2, <2>3, SaysPlain
  <2> QED
    BY <2>1, <2>4
<1>2. CASE S!SayText
  <2> DEFINE chunk == [S!Chunk EXCEPT !.text = up.n + 1]
             u == [up EXCEPT !.phase = "talking", !.n = @ + 1, !.open = "text",
                             !.blocks = IF up.open = "text" THEN @ ELSE @ + 1]
             pieces == << 0 >>
  <2>1. S!Say(chunk, u, pieces)
    BY <1>2, Zenon DEF S!SayText
  <2>2. /\ u.phase = "talking" /\ u.open = "text" /\ u.calls = up.calls
        /\ u.n = up.n + 1 /\ u.blocks \in Nat /\ up.blocks <= u.blocks
    BY DEF UpFields
  <2>3. chunk.text = up.n + 1 /\ chunk.calls = <<>>
    BY DEF S!Chunk
  <2>4. pieces = << 0 >>
    OBVIOUS
  <2> HIDE DEF chunk, u, pieces
  <2>5. SaysOn(chunk, u, pieces)
    BY <2>2, <2>3, <2>4, SaysPlain
  <2> QED
    BY <2>1, <2>5
<1>3. CASE S!SayCall
  <2>1. PICK whole \in BOOLEAN :
          /\ backend # "openai" => whole = (backend = "gemini")
          /\ S!Say([S!Chunk EXCEPT !.calls =
                   <<[at |-> S!WireIndex(1), opens |-> TRUE, id |-> <<"own", up.calls>>,
                      args |-> IF whole THEN up.n + 1 ELSE 0]>>],
                [up EXCEPT !.phase = "talking", !.open = "call", !.blocks = @ + 1, !.calls = @ + 1,
                           !.n = IF whole THEN @ + 1 ELSE @],
                IF whole THEN <<up.calls + 1>> ELSE <<>>)
    BY <1>3, Zenon DEF S!SayCall
  <2> DEFINE k == [at |-> S!WireIndex(1), opens |-> TRUE, id |-> <<"own", up.calls>>,
                   args |-> IF whole THEN up.n + 1 ELSE 0]
             chunk == [S!Chunk EXCEPT !.calls = <<k>>]
             u == [up EXCEPT !.phase = "talking", !.open = "call", !.blocks = @ + 1, !.calls = @ + 1,
                             !.n = IF whole THEN @ + 1 ELSE @]
             pieces == IF whole THEN <<up.calls + 1>> ELSE <<>>
  <2>2. S!Say(chunk, u, pieces)
    BY <2>1
  <2>3. /\ u.phase = "talking" /\ u.open = "call" /\ u.calls = up.calls + 1
        /\ u.blocks = up.blocks + 1 /\ u.n = IF whole THEN up.n + 1 ELSE up.n
    BY DEF UpFields
  <2>4. (k.opens <=> TRUE) /\ k.opens \in BOOLEAN /\ k.at = S!WireIndex(1)
        /\ k.args = IF whole THEN up.n + 1 ELSE 0
    OBVIOUS
  <2>5. pieces = IF whole THEN <<u.calls>> ELSE <<>>
    BY <2>3
  <2>6. Len(pieces) = IF whole THEN 1 ELSE 0
    OBVIOUS
  <2> HIDE DEF k, u, pieces
  <2>7. chunk.text = 0 /\ chunk.calls = <<k>>
    BY DEF S!Chunk
  <2> HIDE DEF chunk
  <2>8. S!WireIndex(1) = IF backend \in {"anthropic", "bedrock"} THEN up.blocks ELSE up.calls
    BY DEF S!WireIndex
  <2>9. Bit(k.opens) = 1
    BY <2>4 DEF Bit
  <2>10. /\ u.n = up.n + Len(pieces) /\ u.calls = up.calls + Bit(k.opens) /\ u.calls > 0
         /\ u.blocks \in Nat /\ up.blocks <= u.blocks
    BY <2>3, <2>6, <2>9
  <2>11. k.opens /\ backend \notin {"openai", "gemini"} => k.args = 0
    BY <2>1, <2>4
  <2>12. /\ backend \notin {"anthropic", "bedrock", "gemini"} => k.at = u.calls - 1
         /\ backend \in {"anthropic", "bedrock"} => k.at = u.blocks - 1
    BY <2>3, <2>4, <2>8
  <2>13. \/ chunk.text = 0 /\ k.args = 0 /\ pieces = <<>>
         \/ chunk.text = 0 /\ k.args = up.n + 1 /\ pieces = <<u.calls>>
    BY <2>4, <2>5, <2>7
  <2>14. k.opens
    BY <2>4
  <2>15. SaysOn(chunk, u, pieces)
    BY <2>3, <2>4, <2>7, <2>10, <2>11, <2>12, <2>13, <2>14, SaysCall
  <2> QED
    BY <2>2, <2>15
<1>4. CASE S!SayTogether
  <2> DEFINE k == [at |-> up.calls, opens |-> TRUE, id |-> <<>>, args |-> up.n + 2]
             chunk == [S!Chunk EXCEPT !.text = up.n + 1, !.calls = <<k>>]
             u == [up EXCEPT !.phase = "talking", !.open = "call", !.calls = @ + 1, !.n = @ + 2]
             pieces == <<0, up.calls + 1>>
  <2>1. S!Say(chunk, u, pieces) /\ backend = "gemini"
    BY <1>4, Zenon DEF S!SayTogether
  <2>2. /\ u.phase = "talking" /\ u.open = "call" /\ u.calls = up.calls + 1
        /\ u.blocks = up.blocks /\ u.n = up.n + 2
    BY DEF UpFields
  <2>3. (k.opens <=> TRUE) /\ k.opens \in BOOLEAN /\ k.args = up.n + 2
    OBVIOUS
  <2>4. pieces = <<0, u.calls>>
    BY <2>2
  <2>5. Len(pieces) = 2
    OBVIOUS
  <2> HIDE DEF k, u, pieces
  <2>6. chunk.text = up.n + 1 /\ chunk.calls = <<k>>
    BY DEF S!Chunk
  <2> HIDE DEF chunk
  <2>7. Bit(k.opens) = 1
    BY <2>3 DEF Bit
  <2>8. /\ u.n = up.n + Len(pieces) /\ u.calls = up.calls + Bit(k.opens) /\ u.calls > 0
        /\ u.blocks \in Nat /\ up.blocks <= u.blocks
    BY <2>2, <2>5, <2>7
  <2>9. k.opens
    BY <2>3
  <2>10. SaysOn(chunk, u, pieces)
    BY <2>1, <2>2, <2>3, <2>4, <2>6, <2>8, <2>9, SaysCall
  <2> QED
    BY <2>1, <2>10
<1>5. CASE S!SayArgs
  <2> DEFINE k == [at |-> S!WireIndex(0), opens |-> FALSE, id |-> <<>>, args |-> up.n + 1]
             chunk == [S!Chunk EXCEPT !.calls = <<k>>]
             u == [up EXCEPT !.n = @ + 1]
             pieces == <<up.calls>>
  <2>1. S!Say(chunk, u, pieces) /\ up.phase = "talking" /\ up.open = "call" /\ backend # "gemini"
    BY <1>5, Zenon DEF S!SayArgs
  <2>2. /\ u.phase = up.phase /\ u.open = up.open /\ u.calls = up.calls
        /\ u.blocks = up.blocks /\ u.n = up.n + 1
    BY DEF UpFields
  <2>3. (k.opens <=> FALSE) /\ k.opens \in BOOLEAN /\ k.at = S!WireIndex(0) /\ k.args = up.n + 1
    OBVIOUS
  <2>4. pieces = <<u.calls>> /\ Len(pieces) = 1
    BY <2>2
  <2> HIDE DEF k, u, pieces
  <2>5. chunk.text = 0 /\ chunk.calls = <<k>>
    BY DEF S!Chunk
  <2> HIDE DEF chunk
  <2>6. S!WireIndex(0) = IF backend \in {"anthropic", "bedrock"} THEN up.blocks - 1 ELSE up.calls - 1
    BY DEF S!WireIndex
  <2>7. Bit(k.opens) = 0
    BY <2>3 DEF Bit
  <2>8. /\ u.n = up.n + Len(pieces) /\ u.calls = up.calls + Bit(k.opens) /\ u.calls > 0
        /\ u.blocks \in Nat /\ up.blocks <= u.blocks
    BY <2>1, <2>2, <2>4, <2>7
  <2>9. /\ backend \notin {"anthropic", "bedrock", "gemini"} => k.at = u.calls - 1
        /\ backend \in {"anthropic", "bedrock"} => k.at = u.blocks - 1
    BY <2>2, <2>3, <2>6
  <2>10. ~k.opens
    BY <2>3
  <2>11. SaysOn(chunk, u, pieces)
    BY <2>1, <2>2, <2>3, <2>4, <2>5, <2>8, <2>9, <2>10, SaysCall
  <2> QED
    BY <2>1, <2>11
<1>6. CASE S!SayFinish
  <2>1. PICK use \in 0..1 :
          S!Say([S!Chunk EXCEPT !.fin = IF up.calls > 0 /\ backend # "gemini" THEN "tool_calls" ELSE "stop",
                                !.use = use],
                [up EXCEPT !.phase = "finished", !.use = use], <<>>)
    BY <1>6, Zenon DEF S!SayFinish
  <2> DEFINE fin == IF up.calls > 0 /\ backend # "gemini" THEN "tool_calls" ELSE "stop"
             chunk == [S!Chunk EXCEPT !.fin = fin, !.use = use]
             u == [up EXCEPT !.phase = "finished", !.use = use]
  <2>2. S!Say(chunk, u, <<>>)
    BY <2>1
  <2>3. /\ u.phase = "finished" /\ u.open = up.open /\ u.calls = up.calls
        /\ u.n = up.n /\ u.blocks = up.blocks
    BY DEF UpFields
  <2>4. fin # "none"
    OBVIOUS
  <2> HIDE DEF fin, u
  <2>5. chunk.text = 0 /\ chunk.calls = <<>> /\ chunk.fin = fin
    BY DEF S!Chunk
  <2> HIDE DEF chunk
  <2>6. SaysOn(chunk, u, <<>>)
    BY <2>3, <2>4, <2>5, SaysPlain
  <2> QED
    BY <2>2, <2>6
<1>7. CASE S!SayUsage
  <2> DEFINE chunk == [S!Chunk EXCEPT !.use = 1]
             u == [up EXCEPT !.use = 1]
  <2>1. S!Say(chunk, u, <<>>) /\ up.phase = "finished"
    BY <1>7, Zenon DEF S!SayUsage
  <2>2. /\ u.phase = up.phase /\ u.open = up.open /\ u.calls = up.calls
        /\ u.n = up.n /\ u.blocks = up.blocks
    BY DEF UpFields
  <2>3. chunk.text = 0 /\ chunk.calls = <<>>
    BY DEF S!Chunk
  <2> HIDE DEF chunk, u
  <2>4. SaysOn(chunk, u, <<>>)
    BY <2>1, <2>2, <2>3, SaysPlain
  <2> QED
    BY <2>1, <2>4
<1>8. CASE S!SayFailure
  <2> DEFINE chunk == [S!Chunk EXCEPT !.bad = TRUE]
             u == [up EXCEPT !.phase = "failed"]
  <2>1. S!Say(chunk, u, <<>>)
    BY <1>8, Zenon DEF S!SayFailure
  <2>2. /\ u.phase = "failed" /\ u.open = up.open /\ u.calls = up.calls
        /\ u.n = up.n /\ u.blocks = up.blocks
    BY DEF UpFields
  <2>3. chunk.text = 0 /\ chunk.calls = <<>>
    BY DEF S!Chunk
  <2> HIDE DEF chunk, u
  <2>4. SaysOn(chunk, u, <<>>)
    BY <2>2, <2>3, SaysPlain
  <2> QED
    BY <2>1, <2>4
<1> QED
  BY <1>1, <1>2, <1>3, <1>4, <1>5, <1>6, <1>7, <1>8 DEF S!Upstream

-----------------------------------------------------------------------------
(* The steps of the upstream lose nothing *)

\* What was said stays as it was when more is said.
LEMMA SoundLater ==
  ASSUME NEW s, NEW lanes, NEW more, IsSeq(lanes), IsSeq(more), Sound(s, lanes)
  PROVE  Sound(s, lanes \o more)
<1> DEFINE all == lanes \o more
<1>1. /\ Len(lanes) \in Nat /\ Len(more) \in Nat /\ Len(all) = Len(lanes) + Len(more)
      /\ \A n \in 1..Len(lanes) : all[n] = lanes[n]
  BY Joined
<1> HIDE DEF all
<1>2. \A n \in 1..Len(lanes) : n \in 1..Len(all)
  BY <1>1
<1>3. \A i, n : InLane(s, lanes, i, n) => InLane(s, all, i, n)
  BY <1>1, <1>2 DEF InLane
<1>4. Sound(s, all)
  BY <1>3 DEF Sound
<1> QED
  BY <1>4 DEF all

LEMMA LanesLater ==
  ASSUME NEW lanes, NEW more, NEW r \in Nat, IsSeq(lanes), IsSeq(more), r <= Len(lanes)
  PROVE  /\ UpTo(r, lanes \o more) = UpTo(r, lanes)
         /\ \A held, c : Held(held, lanes, r, c) => Held(held, lanes \o more, r, c)
<1> DEFINE all == lanes \o more
<1>1. /\ Len(lanes) \in Nat
      /\ \A n \in 1..Len(lanes) : all[n] = lanes[n]
  BY Joined
<1> HIDE DEF all
<1>2. \A n \in 1..r : all[n] = lanes[n]
  BY <1>1
<1>3. UpTo(r, all) = UpTo(r, lanes)
  BY <1>2 DEF UpTo
<1>4. \A k : {n \in 1..r : all[n] = k} = {n \in 1..r : lanes[n] = k}
  BY <1>2
<1>5. \A held, c : Held(held, lanes, r, c) => Held(held, all, r, c)
  BY <1>2, <1>4 DEF Held
<1> QED
  BY <1>3, <1>5 DEF all

LEMMA LabelledLater ==
  ASSUME NEW s, NEW lanes, NEW more, NEW lo \in Nat, NEW hi \in Nat, IsSeq(lanes), IsSeq(more), hi <= Len(lanes),
         Climbs("piece", s, lo, hi), \A e \in Of(s) : Labelled(e, lanes)
  PROVE  \A e \in Of(s) : Labelled(e, lanes \o more)
<1> DEFINE all == lanes \o more
<1>1. /\ Len(lanes) \in Nat
      /\ \A n \in 1..Len(lanes) : all[n] = lanes[n]
  BY Joined
<1> HIDE DEF all
<1>2. ASSUME NEW e \in Of(s)
      PROVE  Labelled(e, all)
  <2>1. Labelled(e, lanes)
    OBVIOUS
  <2>2. e.kind \in {"text", "args"} => e.n \in 1..Len(lanes)
    <3> HAVE e.kind \in {"text", "args"}
    <3>1. Num("piece", e) = e.n /\ e.n # 0
      BY <2>1 DEF Num, Labelled
    <3>2. e.n \in (lo + 1)..hi
      BY <3>1 DEF Climbs, Of
    <3> QED
      BY <1>1, <3>2
  <2> QED
    BY <1>1, <2>1, <2>2 DEF Labelled
<1> QED
  BY <1>2 DEF all

\* What holds of the numbers when the upstream said more, whatever is in flight.
LEMMA SaysTypes ==
  ASSUME NEW k, NEW u, NEW pieces, SaidTypes, up.calls \in Nat, SaysOn(k, u, pieces), u.calls \in Nat,
         up' = u, said' = said \o pieces
  PROVE  SaidTypes'
<1> DEFINE n == Len(said)
           more == said \o pieces
<1>1. /\ up.n \in Nat /\ IsSeq(said) /\ n = up.n /\ up.n \in Nat
      /\ \A i \in 1..up.n : said[i] \in 0..up.calls
  BY DEF SaidTypes
<1>2. /\ IsSeq(pieces) /\ u.n = up.n + Len(pieces) /\ u.calls = up.calls + Bit(Opening(k)) /\ u.blocks \in Nat
      /\ \A i \in DOMAIN pieces : pieces[i] \in 0..u.calls
      /\ u.open = "call" => u.calls > 0 /\ u.phase # "before"
  BY DEF SaysOn
<1>3. Parts(said, pieces, more) /\ IsSeq(more) /\ Len(more) = n + Len(pieces)
  BY <1>1, <1>2, InParts, Joined
<1> HIDE DEF n, more
<1>4. up.calls <= u.calls
  BY <1>2 DEF Bit
<1>5. u.n \in Nat /\ Len(more) = u.n
  BY <1>1, <1>2, <1>3 DEF Parts, n
<1>6. ASSUME NEW i \in 1..u.n
      PROVE  more[i] \in 0..u.calls
  <2>1. i \in DOMAIN more
    BY <1>5, <1>3 DEF IsSeq
  <2>2. CASE i \in DOMAIN said
    <3>1. more[i] = said[i] /\ i \in 1..up.n
      BY <1>1, <1>3, <2>2 DEF Parts, n
    <3> QED
      BY <1>1, <1>4, <3>1
  <2>3. CASE i \notin DOMAIN said
    <3>1. i - Len(said) \in DOMAIN pieces /\ more[i] = pieces[i - Len(said)]
      BY <1>3, <2>1, <2>3 DEF Parts
    <3> QED
      BY <1>2, <3>1
  <2> QED
    BY <2>2, <2>3
<1> QED
  BY <1>2, <1>3, <1>5, <1>6 DEF SaidTypes, more

LEMMA SayReaches ==
  ASSUME NEW r \in Nat, NEW c, NEW pieces, IsSeq(said), IsSeq(pieces), r <= Len(said), Reached(r, c),
         said' = said \o pieces, UNCHANGED <<client, writer, shown>>
  PROVE  Reached(r, c)'
<1>1. UpTo(r, said') = UpTo(r, said) /\ (Held(writer.held, said, r, c) => Held(writer.held, said', r, c))
  BY LanesLater
<1>2. Holding(shown, writer.held, said, r, c) => Holding(shown, writer.held, said', r, c)
  BY <1>1 DEF Holding
<1> QED
  BY <1>2 DEF Reached

LEMMA SayFlies ==
  ASSUME NEW k, NEW u, NEW pieces, NEW r \in Nat, NEW m \in Nat, NEW c \in Nat, NEW d \in Nat,
         SaidTypes, SaysOn(k, u, pieces), up.calls \in Nat, u.calls \in Nat, wire = <<>>, wire' = <<k>>,
         up' = u, said' = said \o pieces, Flow' = Flow, UNCHANGED <<backend, client, parser, writer>>,
         InFlight(r, m, c, d)
  PROVE  InFlight(r, m, c, d)'
<1> USE DEF SaysOn
<1>1. /\ up.n \in Nat /\ IsSeq(said) /\ Len(said) = up.n
      /\ IsSeq(pieces) /\ Len(pieces) \in Nat /\ u.n = up.n + Len(pieces)
  BY Joined DEF SaidTypes
<1>2. m = up.n /\ d = up.calls /\ r <= m /\ c <= d
  BY DEF InFlight, OnWire
<1>3. Of(wire) = {} /\ Of(wire') = {k}
  BY Short
<1>4. up.n <= u.n /\ up.calls <= u.calls
  BY <1>1 DEF Bit
<1>5. r <= m /\ m <= u.n /\ c <= d /\ d <= u.calls
  BY <1>1, <1>2, <1>4
<1>6. Climbs("piece", Flow, r, m) /\ Climbs("call", Flow, c, d) /\ ArgsAfter(Flow, 0..(c - 1))
  BY DEF InFlight
<1>7. \A e \in Of(Flow) : Labelled(e, said')
  <2>1. m <= Len(said) /\ \A e \in Of(Flow) : Labelled(e, said)
    BY <1>1, <1>2 DEF InFlight
  <2> QED
    BY <1>1, <1>6, <2>1, LabelledLater
<1>8. Continues(k, m, d)'
  <2>1. /\ \A i \in 1..Len(pieces) : said'[up.n + i] = pieces[i]
        /\ Len(pieces) = Bit(k.text # 0) + Bit(ArgsOf(k) # 0)
    <3>1. \A i \in 1..Len(pieces) : (said \o pieces)[Len(said) + i] = pieces[i]
      <4>1. IsSeq(said) /\ IsSeq(pieces)
        BY <1>1
      <4> HIDE DEF SaysOn
      <4>2. Parts(said, pieces, said \o pieces)
        BY <4>1, InParts
      <4> QED
        BY <4>2 DEF Parts
    <3>2. Len(pieces) = Bit(k.text # 0) + Bit(ArgsOf(k) # 0)
      OBVIOUS
    <3> HIDE DEF SaysOn
    <3>3. \A i \in 1..Len(pieces) : (said')[up.n + i] = pieces[i]
      BY <1>1, <3>1
    <3> QED
      BY <3>2, <3>3
  <2>2. k.text # 0 => k.text = m + 1 /\ said'[m + 1] = 0 /\ (u.open = "call" => Opening(k))
    <3> HAVE k.text # 0
    <3>1. 1 \in 1..Len(pieces)
      BY <1>1, <2>1 DEF Bit
    <3>2. said'[up.n + 1] = pieces[1]
      BY <2>1, <3>1
    <3> QED
      BY <1>2, <3>2
  <2>3. ArgsOf(k) # 0 => ArgsOf(k) = u.n /\ said'[u.n] = u.calls
    <3> HAVE ArgsOf(k) # 0
    <3>1. Len(pieces) \in 1..Len(pieces)
      BY <1>1, <2>1 DEF Bit
    <3>2. said'[up.n + Len(pieces)] = pieces[Len(pieces)]
      BY <2>1, <3>1
    <3> QED
      BY <1>1, <3>2
  <2>4. u.n = m + Bit(k.text # 0) + Bit(ArgsOf(k) # 0)
    <3> DEFINE one == Bit(k.text # 0)
               two == Bit(ArgsOf(k) # 0)
    <3>1. one \in Nat /\ two \in Nat /\ Len(pieces) = one + two
      BY <2>1 DEF Bit
    <3> HIDE DEF one, two
    <3>2. u.n = m + one + two
      BY <1>1, <1>2, <3>1
    <3> QED
      BY <3>2 DEF one, two
  <2>5. Opening(k) /\ backend \in {"anthropic", "bedrock"} =>
          u.blocks > 0 /\ \A b \in Of(parser.blocks) : b < u.blocks - 1
    <3> HAVE Opening(k) /\ backend \in {"anthropic", "bedrock"}
    <3>1. u.blocks = up.blocks + 1 /\ up.blocks \in Nat
      BY DEF SaidTypes
    <3>2. \A b \in Of(parser.blocks) : b \in 0..(up.blocks - 1)
      BY DEF InFlight, Counted
    <3> QED
      BY <3>1, <3>2
  <2>6. u.calls = d + Bit(Opening(k))
    BY <1>2
  <2>7. /\ k.calls # <<>> => u.open = "call"
        /\ Opening(k) /\ backend \notin {"openai", "gemini"} => ArgsOf(k) = 0
        /\ Adding(k) => backend # "gemini"
        /\ k.calls # <<>> /\ backend \notin {"anthropic", "bedrock", "gemini"} => k.calls[1].at = u.calls - 1
        /\ k.calls # <<>> /\ backend \in {"anthropic", "bedrock"} => k.calls[1].at = u.blocks - 1
    OBVIOUS
  <2> USE DEF Opening, Adding, ArgsOf
  <2> HIDE DEF SaysOn, Opening, Adding, ArgsOf, Bit
  <2> QED
    BY <2>2, <2>3, <2>4, <2>5, <2>6, <2>7 DEF Continues
<1>9. OnWire(m, d)'
  <2>1. wire' # <<>>
    BY Short
  <2> QED
    BY <1>3, <1>8, <2>1 DEF OnWire
<1>10. u.open = "call" /\ ~Opening(k) => up.open = "call" /\ u.blocks = up.blocks
  OBVIOUS
<1>11. Counted(d)'
  <2>1. /\ backend = "openai" => Of(parser.blocks) = 0..(d - 1)
        /\ backend = "gemini" => parser.calls = d
    BY DEF InFlight, Counted
  <2>2. ASSUME backend \in {"anthropic", "bedrock"}
        PROVE  /\ Len(parser.blocks) = d
               /\ \A i, j \in DOMAIN parser.blocks : i < j => parser.blocks[i] < parser.blocks[j]
               /\ \A b \in Of(parser.blocks) : b \in 0..(u.blocks - 1)
               /\ u.open = "call" /\ (\A e \in {k} : ~Opening(e)) =>
                    d > 0 /\ parser.blocks[d] = u.blocks - 1
    <3>1. /\ Len(parser.blocks) = d
          /\ \A i, j \in DOMAIN parser.blocks : i < j => parser.blocks[i] < parser.blocks[j]
          /\ \A b \in Of(parser.blocks) : b \in 0..(up.blocks - 1)
          /\ up.open = "call" => d > 0 /\ parser.blocks[d] = up.blocks - 1
      BY <1>3, <2>2 DEF InFlight, Counted
    <3>2. \A b \in Of(parser.blocks) : b \in 0..(u.blocks - 1)
      <4>1. up.blocks \in Nat /\ u.blocks \in Nat /\ up.blocks <= u.blocks
        BY DEF SaidTypes
      <4> QED
        BY <3>1, <4>1
    <3> QED
      BY <1>10, <3>1, <3>2
  <2> QED
    BY <1>3, <2>1, <2>2 DEF Counted
<1>12. client = "anthropic" => Attached'
  <2> HAVE client = "anthropic"
  <2>1. /\ Fed(Flow, writer)
        /\ up.open = "call" /\ up.phase = "talking" => Current(Flow, writer, Len(Flow) + 1, up.calls - 1)
    BY <1>3 DEF InFlight, Attached
  <2>2. ASSUME u.open = "call", ~Opening(k), u.phase = "talking" \/ Adding(k)
        PROVE  Current(Flow, writer, Len(Flow) + 1, u.calls - 1)
    <3>1. up.phase = "talking" /\ up.open = "call"
      BY <1>10, <2>2
    <3>2. Bit(Opening(k)) = 0
      BY <2>2 DEF Bit
    <3>3. u.calls = up.calls
      BY <3>2
    <3> QED
      BY <2>1, <3>1, <3>3
  <2> QED
    BY <1>3, <2>1, <2>2 DEF Attached
<1> HIDE DEF SaysOn
<1> QED
  BY <1>5, <1>6, <1>7, <1>9, <1>11, <1>12 DEF InFlight

LEMMA SayLoses ==
  ASSUME PipeInv, LossInv, NEW k, NEW u, NEW pieces, S!Say(k, u, pieces), SaysOn(k, u, pieces), SayFits(k, u)
  PROVE  LossInv'
<1>1. /\ wire = <<>> /\ wire' = <<k>> /\ up' = u /\ said' = said \o pieces
      /\ UNCHANGED <<backend, client, parser, ch, out, closed, writer, shown, gone, reply>>
  BY DEF S!Say
<1>2. SaidTypes /\ Shown /\ up.calls \in Nat /\ u.calls \in Nat /\ up.phase \in Active
  BY DEF LossInv, PipeInv, StreamTypes, SayFits
<1>3. SaidTypes'
  BY <1>1, <1>2, SaysTypes
<1>4. Shown'
  <2>1. Sound(shown, said) /\ IsSeq(said) /\ IsSeq(pieces) /\ Len(said) \in Nat
    BY <1>2, Joined DEF Shown, SaidTypes, SaysOn
  <2>2. Sound(shown, said')
    BY <1>1, <2>1, SoundLater
  <2>3. PICK r \in 0..Len(said) : Nums(shown) \in {1..r, UpTo(r, said)}
    BY <1>2 DEF Shown
  <2>4. r \in Nat /\ r <= Len(said)
    BY <2>1, <2>3
  <2>5. UpTo(r, said') = UpTo(r, said)
    BY <1>1, <2>1, <2>4, LanesLater
  <2>6. r \in 0..Len(said')
    <3>1. Len(said') = Len(said) + Len(pieces) /\ Len(pieces) \in Nat
      BY <1>1, <2>1, Joined
    <3> QED
      BY <2>1, <2>4, <3>1
  <2> QED
    BY <1>1, <2>2, <2>3, <2>5, <2>6 DEF Shown
<1>5. reply # "ok"
  BY <1>2 DEF PipeInv, StopIsReported, S!Hung, Active
<1>6. ASSUME Live'
      PROVE  Upheld'
  <2>1. Upheld /\ Flow' = Flow
    BY <1>1, <1>6 DEF LossInv, Live, Flow
  <2>2. PICK r \in 0..up.n, m \in 0..up.n, c \in 0..up.calls, d \in 0..up.calls : Reached(r, c) /\ InFlight(r, m, c, d)
    BY <2>1 DEF Upheld
  <2>3. Of(wire) = {} /\ Of(wire') = {k}
    BY <1>1, Short
  <2>4. EndsQuietly'
    <3>1. EndSent => SaidEnd
      BY DEF PipeInv, EndWasSaid, EndSent, Has, Shows, Of
    <3>2. EndSent => k.text = 0 /\ k.calls = <<>>
      BY <3>1 DEF SayFits
    <3>3. Quiet(Flow) /\ (Shows(shown, "finish") => \A e \in Of(Flow) : ~Speaks(e))
      BY <2>1 DEF Upheld, EndsQuietly
    <3>4. EndSent' = EndSent
      BY <1>1, <2>1 DEF EndSent
    <3> QED
      BY <1>1, <2>1, <2>3, <3>2, <3>3, <3>4 DEF EndsQuietly
  <2>5. EndIsSent'
    <3>1. u.phase = "finished" => k.fin # "none" \/ up.phase = "finished"
      BY DEF SaysOn
    <3>2. u.phase # "complete"
      BY DEF SaysOn
    <3>3. up.phase = "finished" => EndSent
      BY <2>1, <2>3 DEF Upheld, EndIsSent
    <3>4. EndSent' = EndSent
      BY <1>1, <2>1 DEF EndSent
    <3> QED
      BY <1>1, <2>3, <3>1, <3>2, <3>3, <3>4 DEF EndIsSent
  <2>6. Drained'
    <3>1. parser.pc = "read"
      BY <1>2, <2>1 DEF Upheld, Drained, Silent
    <3> QED
      BY <1>1, <3>1 DEF Drained
  <2>7. /\ up.n \in Nat /\ Len(said) = up.n /\ IsSeq(said) /\ IsSeq(pieces)
        /\ r \in Nat /\ m \in Nat /\ c \in Nat /\ d \in Nat /\ r <= Len(said)
    BY <1>2, <2>2 DEF SaidTypes, SaysOn
  <2>8. Reached(r, c)'
    BY <1>1, <2>2, <2>7, SayReaches
  <2>9. InFlight(r, m, c, d)'
    BY <1>1, <1>2, <2>1, <2>2, <2>7, SayFlies
  <2>10. r \in 0..u.n /\ m \in 0..u.n /\ c \in 0..u.calls /\ d \in 0..u.calls
    <3>1. r <= m /\ m <= u.n /\ c <= d /\ d <= u.calls
      BY <1>1, <2>9 DEF InFlight
    <3>2. u.n \in Nat
      BY <1>1, <1>3 DEF SaidTypes
    <3> QED
      BY <1>2, <2>7, <3>1, <3>2
  <2> QED
    BY <1>1, <2>4, <2>5, <2>6, <2>8, <2>9, <2>10 DEF Upheld
<1> QED
  BY <1>1, <1>3, <1>4, <1>5, <1>6 DEF LossInv

\* The upstream hangs up, or the connection is cut.
LEMMA HangsUpLoses ==
  ASSUME PipeInv, LossInv, S!HangUp \/ S!Cut
  PROVE  LossInv'
<1>1. /\ up.phase \notin {"ended", "complete", "cut"} /\ up'.phase \in {"ended", "complete", "cut"}
      /\ up'.phase = "complete" => up.phase = "finished"
      /\ up'.n = up.n /\ up'.calls = up.calls /\ up'.blocks = up.blocks /\ up'.open = up.open
      /\ UNCHANGED <<backend, client, said, wire, parser, ch, out, closed, writer, shown, gone, reply>>
  BY DEF S!HangUp, S!Cut, PipeInv, StreamTypes, UpFields
<1>2. Flow' = Flow
  BY <1>1 DEF Flow
<1>3. SaidTypes' /\ Shown'
  BY <1>1 DEF LossInv, SaidTypes, Shown
<1>4. reply # "ok"
  BY <1>1 DEF PipeInv, StopIsReported, S!Hung
<1>5. ASSUME Live'
      PROVE  Upheld'
  <2>1. Upheld
    BY <1>1, <1>5 DEF LossInv, Live
  <2>2. PICK r \in 0..up.n, m \in 0..up.n, c \in 0..up.calls, d \in 0..up.calls : Reached(r, c) /\ InFlight(r, m, c, d)
    BY <2>1 DEF Upheld
  <2>3. EndSent' = EndSent
    BY <1>1, <1>2 DEF EndSent
  <2>4. EndsQuietly'
    BY <1>1, <1>2, <2>1, <2>3 DEF Upheld, EndsQuietly
  <2>5. EndIsSent'
    BY <1>1, <2>1, <2>3 DEF Upheld, EndIsSent
  <2>6. Drained'
    BY <1>1, <2>1 DEF Upheld, Drained, Silent, Active
  <2>7. Reached(r, c)'
    BY <1>1, <2>2 DEF Reached
  <2>8. InFlight(r, m, c, d)'
    <3>1. OnWire(m, d)' /\ Counted(d)'
      BY <1>1, <2>2 DEF InFlight, OnWire, Continues, Counted
    <3>2. client = "anthropic" => Attached'
      BY <1>1, <1>2, <2>2 DEF InFlight, Attached
    <3> QED
      BY <1>1, <1>2, <2>2, <3>1, <3>2 DEF InFlight
  <2> QED
    BY <1>1, <2>2, <2>4, <2>5, <2>6, <2>7, <2>8 DEF Upheld
<1> QED
  BY <1>1, <1>3, <1>4, <1>5 DEF LossInv

LEMMA UpstreamLoses == PipeInv /\ LossInv /\ S!Upstream => LossInv'
<1> SUFFICES ASSUME PipeInv, LossInv, S!Upstream PROVE LossInv'
  OBVIOUS
<1>1. CASE S!HangUp \/ S!Cut
  BY <1>1, HangsUpLoses
<1>2. CASE ~S!HangUp /\ ~S!Cut
  <2>1. /\ DOMAIN up = UpFields /\ up.calls \in Nat /\ up.n \in Nat /\ up.blocks \in Nat
        /\ up.open = "call" => up.calls > 0 /\ up.phase # "before"
    BY DEF PipeInv, StreamTypes, LossInv, SaidTypes
  <2>2. PICK k, u, pieces : S!Say(k, u, pieces) /\ SaysOn(k, u, pieces)
    BY <1>2, <2>1, UpstreamCounts
  <2>3. PICK also, v, more : S!Say(also, v, more) /\ SayFits(also, v)
    BY <1>2, <2>1, UpstreamSays
  <2>4. k = also /\ u = v
    <3>1. wire' = <<k>> /\ wire' = <<also>> /\ up' = u /\ up' = v
      BY <2>2, <2>3 DEF S!Say
    <3> QED
      BY <3>1
  <2>5. SayFits(k, u)
    BY <2>3, <2>4
  <2> QED
    BY <2>2, <2>5, SayLoses
<1> QED
  BY <1>1, <1>2

-----------------------------------------------------------------------------
(* The parser loses nothing *)

LEMMA QuietJoin ==
  ASSUME NEW s, NEW t, IsSeq(s), IsSeq(t), Quiet(s), Quiet(t), Has(s, "end") => \A e \in Of(t) : ~Speaks(e)
  PROVE  Quiet(s \o t)
<1> DEFINE u == s \o t
           m == Len(s)
<1>1. Parts(s, t, u)
  BY InParts
<1> HIDE DEF u
<1> SUFFICES ASSUME NEW i \in DOMAIN u, NEW j \in DOMAIN u, i < j, u[i].kind = "end"
             PROVE  ~Speaks(u[j])
  BY DEF Quiet, u
<1>2. CASE j \in DOMAIN s
  BY <1>1, <1>2 DEF Parts, Quiet
<1>3. CASE j \notin DOMAIN s
  <2>1. j - m \in DOMAIN t /\ u[j] = t[j - m] /\ t[j - m] \in Of(t)
    BY <1>1, <1>3 DEF Parts, Of
  <2>2. CASE i \in DOMAIN s
    <3>1. Has(s, "end")
      BY <1>1, <2>2 DEF Parts, Has, Of
    <3> QED
      BY <2>1, <3>1
  <2>3. CASE i \notin DOMAIN s
    <3>1. i - m \in DOMAIN t /\ u[i] = t[i - m] /\ i - m < j - m
      BY <1>1, <2>3 DEF Parts
    <3> QED
      BY <2>1, <3>1 DEF Quiet
  <2> QED
    BY <2>2, <2>3
<1> QED
  BY <1>2, <1>3

LEMMA QuietRest ==
  ASSUME NEW h, NEW t, IsSeq(t), Quiet(<<h>> \o t)
  PROVE  Quiet(t) /\ (h.kind = "end" => \A e \in Of(t) : ~Speaks(e))
<1> DEFINE s == <<h>>
           u == s \o t
<1>1. Parts(s, t, u) /\ Len(s) = 1 /\ s[1] = h
  BY InParts, Short
<1>2. Quiet(u)
  OBVIOUS
<1> HIDE DEF s, u
<1>3. u[1] = h /\ 1 \in DOMAIN u /\ \A i \in DOMAIN t : i \in Nat \ {0} /\ u[i + 1] = t[i] /\ i + 1 \in DOMAIN u
  BY <1>1 DEF Parts
<1> QED
  BY <1>2, <1>3 DEF Quiet, Of

\* What a parser makes of a chunk is quiet after its end.
LEMMA NewQuiet ==
  ASSUME NEW c, NEW s, NEW t, NEW o, NEW a, NEW e, NEW x, Ordered(c, s, t, o, a, e, x)
  PROVE  LET new == Whole(s, t, o, a, e, x) IN
           /\ IsSeq(new) /\ Quiet(new)
           /\ t = <<>> /\ o = <<>> /\ a = <<>> => \A v \in Of(new) : ~Speaks(v)
           /\ e # <<>> => Has(new, "end")
<1> DEFINE new == Whole(s, t, o, a, e, x)
<1>1. IsSeq(new) /\ EndsTrail(new)
  BY NewEvents
<1>2. Of(new) = Of(s) \cup Of(t) \cup Of(o) \cup Of(a) \cup Of(e) \cup Of(x)
  BY WholeSeq
<1> HIDE DEF new
<1>3. Quiet(new)
  BY <1>1 DEF EndsTrail, Quiet, Over, Speaks
<1>4. Brief(s, "start") /\ Brief(e, "end") /\ Brief(x, "error")
  BY DEF Ordered
<1>5. /\ \A v \in Of(s) : v.kind = "start"
      /\ \A v \in Of(e) : v.kind = "end"
      /\ \A v \in Of(x) : v.kind = "error"
  BY <1>4, BriefSeq
<1>6. e # <<>> => Has(e, "end")
  BY <1>4, BriefOrder
<1>7. e # <<>> => Has(new, "end")
  BY <1>2, <1>6 DEF Has
<1>8. t = <<>> /\ o = <<>> /\ a = <<>> => \A v \in Of(new) : ~Speaks(v)
  BY <1>2, <1>5, Short DEF Speaks
<1> QED
  BY <1>1, <1>3, <1>7, <1>8 DEF new

\* An event for every piece and every call of a chunk.
ReadsAll(k, t, o, a, m, d) ==
  /\ t # <<>> <=> k.text # 0
  /\ o # <<>> <=> Opening(k)
  /\ a # <<>> <=> ArgsOf(k) # 0
  /\ t # <<>> => t[1].n = m + 1
  /\ o # <<>> => o[1].tool = d
  /\ a # <<>> => a[1].n = up.n /\ a[1].tool = up.calls - 1

LEMMA LastOrdinal ==
  ASSUME NEW p, NEW d \in Nat \ {0}, IsSeq(p.blocks), Len(p.blocks) = d,
         \A i, j \in DOMAIN p.blocks : i < j => p.blocks[i] < p.blocks[j],
         \A b \in Of(p.blocks) : b \in Int
  PROVE  S!Ordinal(p, p.blocks[d]) = d - 1
<1> DEFINE bs == p.blocks
           last == bs[d]
<1>1. DOMAIN bs = 1..d
  BY DEF IsSeq
<1>2. d \in DOMAIN bs
  BY <1>1
<1>3. \A i \in DOMAIN bs : bs[i] \in Int
  BY DEF Of
<1>4. \A i \in DOMAIN bs : bs[i] = last => i = d
  <2> TAKE i \in DOMAIN bs
  <2>1. i # d => i < d
    BY <1>1
  <2>2. i < d => bs[i] < bs[d]
    BY <1>2
  <2>3. bs[i] \in Int /\ bs[d] \in Int
    BY <1>2, <1>3
  <2> QED
    BY <2>1, <2>2, <2>3
<1>5. last \in S!Range(bs)
  BY <1>2 DEF S!Range
<1>6. (CHOOSE i \in DOMAIN bs : bs[i] = last) = d
  BY <1>2, <1>4
<1> QED
  BY <1>5, <1>6 DEF S!Ordinal

LEMMA ReadNumbers ==
  ASSUME NEW k, NEW s, NEW t, NEW o, NEW a, NEW e, NEW x, NEW m \in Nat, NEW d \in Nat,
         wire = <<k>>, IsChunk(k), StreamTypes, SaidTypes,
         Shape(k, parser, parser', s, t, o, a, e, x), Continues(k, m, d), Counted(d)
  PROVE  ReadsAll(k, t, o, a, m, d)
<1> DEFINE one == k.calls[1]
<1>1. Ordered(k, s, t, o, a, e, x) /\ ForTool(k, parser, parser', o, a) /\ Kept(k, parser, parser', t, o, a, e)
  BY DEF Shape
<1>2. (t # <<>> <=> k.text # 0) /\ (t # <<>> => t[1].n = m + 1)
  BY <1>1 DEF Ordered, Kept, Continues
<1>3. up.calls = d + Bit(Opening(k)) /\ (up.open = "call" => up.calls > 0)
  BY DEF Continues, SaidTypes
<1>4. Brief(o, "call") /\ Brief(a, "args") /\ (o \o a # <<>> => k.calls # <<>>)
  BY <1>1 DEF Ordered
<1>5. CASE k.calls = <<>>
  <2>1. o = <<>> /\ a = <<>>
    <3>1. o \o a = <<>> /\ IsSeq(o) /\ IsSeq(a)
      BY <1>4, <1>5, BriefSeq
    <3>2. Of(o) \cup Of(a) = {}
      BY <3>1, Joined, Short
    <3>3. o # <<>> => o[1] \in Of(o)
      BY <1>4, BriefOrder
    <3>4. a # <<>> => a[1] \in Of(a)
      BY <1>4, BriefOrder
    <3> QED
      BY <3>2, <3>3, <3>4
  <2>2. ~Opening(k) /\ ArgsOf(k) = 0
    BY <1>5 DEF Opening, ArgsOf
  <2> QED
    BY <1>2, <2>1, <2>2 DEF ReadsAll
<1>6. CASE k.calls # <<>>
  <2>1. one.opens \in BOOLEAN
    <3>1. PICK q : k.calls = <<q>> /\ q.opens \in BOOLEAN
      BY <1>6 DEF IsChunk
    <3>2. k.calls[1] = q
      BY <3>1, Short
    <3> QED
      BY <3>1, <3>2
  <2>2. (Opening(k) <=> one.opens) /\ (Adding(k) <=> ~one.opens) /\ ArgsOf(k) = one.args
    BY <1>6 DEF Opening, Adding, ArgsOf
  <2>3. Bit(Opening(k)) = IF one.opens THEN 1 ELSE 0
    BY <2>2 DEF Bit
  <2>4. /\ up.calls = d + (IF one.opens THEN 1 ELSE 0) /\ up.calls > 0
        /\ one.opens /\ backend \notin {"openai", "gemini"} => one.args = 0
        /\ ~one.opens => backend # "gemini"
        /\ backend \notin {"anthropic", "bedrock", "gemini"} => one.at = up.calls - 1
        /\ backend \in {"anthropic", "bedrock"} => one.at = up.blocks - 1
        /\ one.args # 0 => one.args = up.n
        /\ up.open = "call"
    BY <1>3, <1>6, <2>2, <2>3 DEF Continues
  <2>5. /\ a # <<>> => a[1].n = one.args /\ one.args # 0
        /\ one.args # 0 /\ (~one.opens \/ backend \in {"openai", "gemini"}) => a # <<>>
        /\ backend = "gemini" /\ parser.calls \in Nat => o[1].tool = parser.calls
        /\ backend \in {"anthropic", "bedrock"} /\ a # <<>> => a[1].tool = S!Ordinal(parser, one.at)
    BY <1>1, <1>6 DEF Kept
  <2>6. (a # <<>> <=> one.args # 0) /\ (a # <<>> => a[1].n = up.n)
    BY <2>1, <2>4, <2>5
  <2>7. CASE backend = "openai"
    <3>1. /\ o # <<>> => o[1].tool = one.at
          /\ a # <<>> => a[1].tool = one.at
          /\ o = <<>> <=> one.at \in Of(parser.blocks)
      BY <1>1, <1>6, <2>7 DEF ForTool
    <3>2. Of(parser.blocks) = 0..(d - 1)
      BY <2>7 DEF Counted
    <3>3. one.at = up.calls - 1
      BY <2>4, <2>7
    <3>4. o # <<>> <=> one.opens
      BY <2>4, <3>1, <3>2, <3>3
    <3> QED
      BY <1>2, <2>2, <2>4, <2>6, <3>1, <3>3, <3>4 DEF ReadsAll
  <2>8. CASE backend = "gemini"
    <3>1. o # <<>> /\ (a # <<>> => a[1].tool = o[1].tool)
      BY <1>1, <1>6, <2>8 DEF ForTool
    <3>2. parser.calls = d /\ o[1].tool = d
      BY <2>5, <2>8 DEF Counted
    <3>3. one.opens /\ up.calls = d + 1
      BY <2>1, <2>4, <2>8
    <3> QED
      BY <1>2, <2>2, <2>6, <3>1, <3>2, <3>3 DEF ReadsAll
  <2>9. CASE backend \in {"anthropic", "bedrock"}
    <3>1. /\ one.opens => o # <<>> /\ o[1].tool = Len(parser.blocks)
          /\ ~one.opens => o = <<>>
      BY <1>1, <1>6, <2>9 DEF ForTool
    <3>2. /\ Len(parser.blocks) = d /\ IsSeq(parser.blocks)
          /\ \A i, j \in DOMAIN parser.blocks : i < j => parser.blocks[i] < parser.blocks[j]
          /\ \A b \in Of(parser.blocks) : b \in 0..(up.blocks - 1)
          /\ up.open = "call" /\ (\A c \in Of(wire) : ~Opening(c)) => d > 0 /\ parser.blocks[d] = up.blocks - 1
      BY <2>9 DEF Counted, StreamTypes, IsParser
    <3>3. a # <<>> => a[1].tool = up.calls - 1
      <4> HAVE a # <<>>
      <4>1. ~one.opens
        BY <2>4, <2>6, <2>9
      <4>2. \A c \in Of(wire) : ~Opening(c)
        BY <2>2, <4>1, Short
      <4>3. d > 0 /\ parser.blocks[d] = up.blocks - 1 /\ one.at = up.blocks - 1
        BY <2>4, <2>9, <3>2, <4>2
      <4>4. d \in Nat \ {0} /\ \A b \in Of(parser.blocks) : b \in Int
        BY <3>2, <4>3
      <4>5. S!Ordinal(parser, parser.blocks[d]) = d - 1
        BY <3>2, <4>4, LastOrdinal
      <4> QED
        BY <2>4, <2>5, <2>9, <4>1, <4>3, <4>5
    <3> QED
      BY <1>2, <2>1, <2>2, <2>6, <3>1, <3>2, <3>3 DEF ReadsAll
  <2>10. CASE backend \notin {"openai", "anthropic", "bedrock", "gemini"}
    <3>1. /\ one.opens => o # <<>> /\ o[1].tool = one.at
          /\ ~one.opens => o = <<>>
          /\ a # <<>> => a[1].tool = one.at
      BY <1>1, <1>6, <2>10 DEF ForTool
    <3>2. one.at = up.calls - 1
      BY <2>4, <2>10
    <3> QED
      BY <1>2, <2>1, <2>2, <2>4, <2>6, <3>1, <3>2 DEF ReadsAll
  <2> QED
    BY <2>7, <2>8, <2>9, <2>10
<1> QED
  BY <1>5, <1>6

LEMMA ReadCounts ==
  ASSUME NEW k, NEW s, NEW t, NEW o, NEW a, NEW e, NEW x, NEW m \in Nat, NEW d \in Nat, NEW q \in Nat, q = up.calls,
         wire = <<k>>, IsChunk(k), StreamTypes, SaidTypes, wire' = <<>>, UNCHANGED <<backend, up>>,
         Shape(k, parser, parser', s, t, o, a, e, x), Continues(k, m, d), Counted(d)
  PROVE  Counted(q)'
<1> DEFINE one == k.calls[1]
           bs == parser.blocks
           new == parser'.blocks
<1>1. ForTool(k, parser, parser', o, a) /\ Kept(k, parser, parser', t, o, a, e) /\ (k.calls = <<>> => new = bs)
  BY DEF Shape
<1>2. q = d + Bit(Opening(k)) /\ (up.open = "call" => q > 0) /\ (k.calls # <<>> => up.open = "call")
  BY DEF Continues, SaidTypes
<1>3. k.calls = <<>> \/ \E c : k.calls = <<c>> /\ k.calls[1] = c /\ c.opens \in BOOLEAN
  BY Short DEF IsChunk
<1>4. /\ k.calls = <<>> => ~Opening(k) /\ Len(k.calls) = 0
      /\ k.calls # <<>> => (Opening(k) <=> one.opens) /\ one.opens \in BOOLEAN /\ Len(k.calls) = 1
  BY <1>3, Short DEF Opening
<1>5. Bit(Opening(k)) = IF Opening(k) THEN 1 ELSE 0
  BY DEF Bit
<1>6. Of(wire) = {k} /\ Of(wire') = {}
  BY Short
<1>7. IsSeq(bs)
  BY DEF StreamTypes, IsParser
<1>8. IsSeq(<<one.at>>) /\ Of(<<one.at>>) = {one.at}
  BY Short
<1>9. backend = "openai" => Of(new) = 0..(q - 1)
  <2> HAVE backend = "openai"
  <2>1. Of(bs) = 0..(d - 1)
    BY DEF Counted
  <2>2. CASE k.calls = <<>>
    BY <1>1, <1>2, <1>4, <1>5, <2>1, <2>2
  <2>3. CASE k.calls # <<>>
    <3>1. new = bs \o <<one.at>> /\ one.at = q - 1 /\ q > 0
      BY <1>1, <1>2, <2>3 DEF ForTool, Continues
    <3> DEFINE at == <<one.at>>
    <3>2. IsSeq(at) /\ Of(at) = {q - 1} /\ new = bs \o at
      BY <1>8, <3>1
    <3> HIDE DEF at, bs, new
    <3>3. Of(bs \o at) = Of(bs) \cup Of(at)
      BY <1>7, <3>2, Joined
    <3>4. d = q \/ d = q - 1
      BY <1>2, <1>5
    <3>5. (0..(d - 1)) \cup {q - 1} = 0..(q - 1)
      BY <3>1, <3>4
    <3> QED
      BY <2>1, <3>2, <3>3, <3>5
  <2> QED
    BY <2>2, <2>3
<1>10. backend = "gemini" => parser'.calls = q
  <2> HAVE backend = "gemini"
  <2>1. parser'.calls = d + Len(k.calls)
    BY <1>1 DEF Kept, Counted
  <2>2. k.calls # <<>> => Opening(k)
    BY <1>4 DEF Continues, Adding
  <2> QED
    BY <1>2, <1>4, <1>5, <2>1, <2>2
<1>11. ASSUME backend \in {"anthropic", "bedrock"}
       PROVE  /\ Len(new) = q
              /\ \A i, j \in DOMAIN new : i < j => new[i] < new[j]
              /\ \A b \in Of(new) : b \in 0..(up.blocks - 1)
              /\ up.open = "call" => q > 0 /\ new[q] = up.blocks - 1
  <2>1. /\ Len(bs) = d
        /\ \A i, j \in DOMAIN bs : i < j => bs[i] < bs[j]
        /\ \A b \in Of(bs) : b \in 0..(up.blocks - 1)
        /\ up.open = "call" /\ ~Opening(k) => d > 0 /\ bs[d] = up.blocks - 1
    BY <1>6, <1>11 DEF Counted
  <2>2. CASE ~Opening(k)
    <3>1. new = bs
      BY <1>1, <1>4, <1>11, <2>2 DEF ForTool
    <3>2. q = d
      BY <1>2, <1>5, <2>2
    <3> HIDE DEF bs, new
    <3> QED
      BY <2>1, <2>2, <3>1, <3>2
  <2>3. CASE Opening(k)
    <3>1. k.calls # <<>>
      BY <2>3 DEF Opening
    <3>2. new = bs \o <<one.at>> /\ one.at = up.blocks - 1
      BY <1>1, <1>4, <1>11, <2>3, <3>1 DEF ForTool, Continues
    <3>3. q = d + 1
      BY <1>2, <1>5, <2>3
    <3>4. up.blocks > 0 /\ \A b \in Of(bs) : b < up.blocks - 1
      BY <1>11, <2>3 DEF Continues
    <3>5. Grown(bs, one.at, new)
      BY <1>7, <3>2, Growing
    <3> DEFINE last == up.blocks - 1
    <3>6. one.at = last /\ last \in Nat /\ \A b \in Of(bs) : b < last /\ b \in 0..last
      BY <2>1, <3>2, <3>4 DEF SaidTypes
    <3> HIDE DEF bs, new, one
    <3>7. /\ Len(new) = q /\ DOMAIN bs = 1..d /\ DOMAIN new = 1..q /\ new[q] = last
          /\ \A i \in 1..d : new[i] = bs[i] /\ bs[i] \in Of(bs)
      BY <2>1, <3>3, <3>5, <3>6 DEF Grown, Of
    <3>8. \A i \in 1..q : i \in 1..d \/ i = q
      BY <3>3
    <3>9. \A i, j \in 1..q : i < j => new[i] < new[j]
      BY <2>1, <3>3, <3>6, <3>7, <3>8
    <3>10. \A b \in Of(new) : b \in 0..last
      BY <3>6, <3>7, <3>8 DEF Of
    <3> QED
      BY <3>3, <3>7, <3>9, <3>10
  <2> QED
    BY <2>2, <2>3
<1> QED
  BY <1>6, <1>9, <1>10, <1>11 DEF Counted

\* A chunk is read: what is on its way is now everything the upstream has said.
Reading(k, s, t, o, a, e, x) ==
  /\ wire = <<k>> /\ IsChunk(k) /\ parser.pend = <<>> /\ parser.pc = "read"
  /\ Shape(k, parser, parser', s, t, o, a, e, x)
  /\ wire' = <<>> /\ UNCHANGED <<backend, client, up, said, ch, out, closed, writer, shown, gone, reply>>

LEMMA ReadAppends ==
  ASSUME NEW k, NEW s, NEW t, NEW o, NEW a, NEW e, NEW x, StreamTypes, Reading(k, s, t, o, a, e, x)
  PROVE  /\ Flow' = Flow \o Whole(s, t, o, a, e, x) /\ Of(Flow') = Of(Flow) \cup Of(Whole(s, t, o, a, e, x))
         /\ IsSeq(Flow) /\ IsSeq(Whole(s, t, o, a, e, x)) /\ Ordered(k, s, t, o, a, e, x)
<1>1. parser'.pend = Whole(s, t, o, a, e, x) /\ Ordered(k, s, t, o, a, e, x)
  BY DEF Reading, Shape
<1>2. IsSeq(parser'.pend)
  BY <1>1, WholeSeq
<1>3. IsSeq(Flow)
  BY FlowParts DEF StreamTypes
<1>4. Flow' = Flow \o parser'.pend /\ Of(Flow') = Of(Flow) \cup Of(parser'.pend)
  BY <1>2, Added DEF Reading, StreamTypes
<1> QED
  BY <1>1, <1>2, <1>3, <1>4

LEMMA ReadOnwards ==
  ASSUME NEW k, NEW t, NEW o, NEW a, NEW m \in Nat, NEW d \in Nat,
         Continues(k, m, d), ReadsAll(k, t, o, a, m, d)
  PROVE  /\ up.n = m + Bit(t # <<>>) + Bit(a # <<>>) /\ up.calls = d + Bit(o # <<>>)
         /\ m <= up.n /\ d <= up.calls
         /\ t # <<>> => t[1].n = m + 1
         /\ a # <<>> => a[1].n = m + Bit(t # <<>>) + 1
         /\ o # <<>> => o[1].tool = d
<1>1. up.n = m + Bit(t # <<>>) + Bit(a # <<>>) /\ up.calls = d + Bit(o # <<>>)
  BY DEF Continues, ReadsAll, Bit
<1> QED
  BY <1>1 DEF ReadsAll, Bit

LEMMA ReadPieces ==
  ASSUME NEW k, NEW s, NEW t, NEW o, NEW a, NEW e, NEW x, StreamTypes, Reading(k, s, t, o, a, e, x),
         NEW r \in Nat, NEW m \in Nat, NEW d \in Nat, NEW n \in Nat,
         Continues(k, m, d), ReadsAll(k, t, o, a, m, d), n = up.n, r <= m, Climbs("piece", Flow, r, m)
  PROVE  Climbs("piece", Flow', r, n)
<1> DEFINE new == Whole(s, t, o, a, e, x)
<1>1. Flow' = Flow \o new /\ IsSeq(Flow) /\ IsSeq(new) /\ Ordered(k, s, t, o, a, e, x)
  BY ReadAppends
<1>2. /\ n = m + Bit(t # <<>>) + Bit(a # <<>>) /\ m <= n
      /\ t # <<>> => t[1].n = m + 1
      /\ a # <<>> => a[1].n = m + Bit(t # <<>>) + 1
      /\ o # <<>> => o[1].tool = d
  BY ReadOnwards
<1>3. Climbs("piece", new, m, n)
  BY <1>1, <1>2, NewNumbers
<1> HIDE DEF new
<1> QED
  BY <1>1, <1>2, <1>3, ClimbsJoin

LEMMA ReadOpens ==
  ASSUME NEW k, NEW s, NEW t, NEW o, NEW a, NEW e, NEW x, StreamTypes, Reading(k, s, t, o, a, e, x),
         NEW c \in Nat, NEW m \in Nat, NEW d \in Nat, NEW q \in Nat,
         Continues(k, m, d), ReadsAll(k, t, o, a, m, d), q = up.calls, c <= d, Climbs("call", Flow, c, d)
  PROVE  Climbs("call", Flow', c, q)
<1> DEFINE new == Whole(s, t, o, a, e, x)
<1>1. Flow' = Flow \o new /\ IsSeq(Flow) /\ IsSeq(new) /\ Ordered(k, s, t, o, a, e, x)
  BY ReadAppends
<1>2. /\ q = d + Bit(o # <<>>) /\ d <= q
      /\ t # <<>> => t[1].n = m + 1
      /\ a # <<>> => a[1].n = m + Bit(t # <<>>) + 1
      /\ o # <<>> => o[1].tool = d
  BY ReadOnwards
<1>3. Climbs("call", new, d, q)
  BY <1>1, <1>2, NewNumbers
<1> HIDE DEF new
<1> QED
  BY <1>1, <1>2, <1>3, ClimbsJoin

LEMMA ReadLabels ==
  ASSUME NEW k, NEW s, NEW t, NEW o, NEW a, NEW e, NEW x, StreamTypes, SaidTypes, Reading(k, s, t, o, a, e, x),
         NEW m \in Nat, NEW d \in Nat, Continues(k, m, d), ReadsAll(k, t, o, a, m, d),
         \A v \in Of(Flow) : Labelled(v, said)
  PROVE  \A v \in Of(Flow') : Labelled(v, said')
<1>1. /\ Of(Flow') = Of(Flow) \cup Of(Whole(s, t, o, a, e, x)) /\ Ordered(k, s, t, o, a, e, x)
  BY ReadAppends
<1>2. t # <<>> => t[1].n # 0 /\ said[t[1].n] = 0
  BY DEF Continues, ReadsAll
<1>3. a # <<>> => a[1].n # 0 /\ said[a[1].n] = a[1].tool + 1
  <2>1. up.n # 0 \/ a = <<>>
    BY DEF Continues, ReadsAll
  <2>2. a # <<>> => said[up.n] = up.calls /\ a[1].n = up.n /\ a[1].tool = up.calls - 1
    BY DEF Continues, ReadsAll
  <2> QED
    BY <2>1, <2>2 DEF StreamTypes
<1>4. o # <<>> => o[1].tool \in Nat
  BY DEF ReadsAll
<1>5. \A v \in Of(Whole(s, t, o, a, e, x)) : Labelled(v, said)
  BY <1>1, <1>2, <1>3, <1>4, NewLabels
<1> QED
  BY <1>1, <1>5 DEF Reading

\* Arguments that are read belong to a call the client has been shown or will be.
LEMMA ReadCalls ==
  ASSUME NEW k, NEW s, NEW t, NEW o, NEW a, NEW e, NEW x, StreamTypes, SaidTypes, Reading(k, s, t, o, a, e, x),
         NEW m \in Nat, NEW c \in Nat, NEW d \in Nat, Continues(k, m, d), ReadsAll(k, t, o, a, m, d),
         Climbs("call", Flow, c, d), \A v \in Of(Flow) : Labelled(v, said), ArgsAfter(Flow, 0..(c - 1))
  PROVE  ArgsAfter(Flow', 0..(c - 1))
<1> DEFINE new == Whole(s, t, o, a, e, x)
           tools == 0..(c - 1)
<1>1. Flow' = Flow \o new /\ IsSeq(Flow) /\ IsSeq(new) /\ Ordered(k, s, t, o, a, e, x)
  BY ReadAppends
<1>2. a # <<>> => a[1].tool \in (tools \cup CallsIn(Flow)) \cup CallsIn(o)
  <2> SUFFICES ASSUME a # <<>> PROVE a[1].tool \in (tools \cup CallsIn(Flow)) \cup CallsIn(o)
    OBVIOUS
  <2>1. a[1].tool = up.calls - 1 /\ k.calls # <<>> /\ up.calls = d + Bit(Opening(k)) /\ up.calls > 0
    BY DEF ReadsAll, Continues, ArgsOf, SaidTypes
  <2>2. CASE Opening(k)
    <3>1. o # <<>> /\ o[1].tool = d
      BY <2>2 DEF ReadsAll
    <3>2. o # <<>> => CallsIn(o) = {o[1].tool}
      BY <1>1, NewEvents
    <3>3. a[1].tool = d
      BY <2>1, <2>2 DEF Bit
    <3> QED
      BY <3>1, <3>2, <3>3
  <2>3. CASE ~Opening(k)
    <3>1. a[1].tool = d - 1 /\ d > 0
      BY <2>1, <2>3 DEF Bit
    <3>2. CASE d <= c
      BY <3>1, <3>2
    <3>3. CASE c < d
      <4>1. d \in (c + 1)..d
        BY <3>3
      <4>2. PICK i \in DOMAIN Flow : Num("call", Flow[i]) = d
        BY <4>1 DEF Climbs
      <4>3. Flow[i] \in Of(Flow)
        BY DEF Of
      <4>4. Flow[i].kind = "call" /\ Flow[i].tool + 1 = d
        BY <3>1, <4>2 DEF Num
      <4>5. Flow[i].tool \in Nat
        BY <4>3, <4>4 DEF Labelled
      <4>6. Flow[i].tool = d - 1
        BY <4>4, <4>5
      <4>7. d - 1 \in CallsIn(Flow)
        BY <4>3, <4>4, <4>6 DEF CallsIn
      <4> QED
        BY <3>1, <4>7
    <3> QED
      BY <3>2, <3>3
  <2> QED
    BY <2>2, <2>3
<1>3. ArgsAfter(new, tools \cup CallsIn(Flow))
  BY <1>1, <1>2, NewEvents
<1> HIDE DEF new, tools
<1>4. ArgsAfter(Flow, tools)
  BY DEF tools
<1>5. ArgsAfter(Flow \o new, tools)
  BY <1>1, <1>3, <1>4, ArgsJoin
<1> QED
  BY <1>1, <1>5 DEF tools

LEMMA ReadAttaches ==
  ASSUME NEW k, NEW s, NEW t, NEW o, NEW a, NEW e, NEW x, StreamTypes, SaidTypes, EndWasSaid,
         Reading(k, s, t, o, a, e, x), NEW m \in Nat, NEW d \in Nat,
         Continues(k, m, d), ReadsAll(k, t, o, a, m, d), Attached
  PROVE  Attached'
<1> DEFINE new == Whole(s, t, o, a, e, x)
<1>1. Flow' = Flow \o new /\ IsSeq(Flow) /\ IsSeq(new) /\ Ordered(k, s, t, o, a, e, x)
  BY ReadAppends
<1>2. Of(wire) = {k} /\ Of(wire') = {}
  BY Short DEF Reading
<1>3. /\ Fed(Flow, writer)
      /\ up.open = "call" /\ ~Opening(k) /\ (up.phase = "talking" \/ Adding(k))
           => t = <<>> /\ o = <<>> /\ Current(Flow, writer, Len(Flow) + 1, up.calls - 1)
  BY <1>2 DEF Attached, Continues, ReadsAll
<1>4. o # <<>> => Opening(k) /\ o[1].tool = up.calls - 1
  BY DEF Continues, ReadsAll, Bit
<1>5. a # <<>> => a[1].tool = up.calls - 1 /\ up.open = "call" /\ (Opening(k) \/ Adding(k))
  BY DEF Continues, ReadsAll, Opening, Adding, ArgsOf
<1>6. Opening(k) => o # <<>>
  BY DEF ReadsAll
<1>7. a # <<>> => \/ o # <<>> /\ a[1].tool = o[1].tool
                  \/ t = <<>> /\ o = <<>> /\ Current(Flow, writer, Len(Flow) + 1, a[1].tool)
  BY <1>3, <1>4, <1>5, <1>6
<1>8. LET r == Flow \o new IN
        /\ Fed(r, writer)
        /\ o # <<>> /\ e = <<>> => Current(r, writer, Len(r) + 1, o[1].tool)
        /\ t = <<>> /\ o = <<>> /\ e = <<>> =>
             \A tool : Current(Flow, writer, Len(Flow) + 1, tool) => Current(r, writer, Len(r) + 1, tool)
  <2>1. Fed(Flow, writer)
    BY <1>3
  <2> QED
    BY <1>1, <1>7, <2>1, NewFed
<1> HIDE DEF new
<1>9. up.phase = "talking" => e = <<>>
  BY <1>1, <1>2 DEF Ordered, EndWasSaid, Carries, SaidEnd, Finished
<1>10. up.open = "call" /\ up.phase = "talking" => Current(Flow \o new, writer, Len(Flow \o new) + 1, up.calls - 1)
  <2> SUFFICES ASSUME up.open = "call", up.phase = "talking"
               PROVE  Current(Flow \o new, writer, Len(Flow \o new) + 1, up.calls - 1)
    OBVIOUS
  <2>1. CASE Opening(k)
    BY <1>4, <1>6, <1>8, <1>9, <2>1
  <2>2. CASE ~Opening(k)
    BY <1>3, <1>8, <1>9, <2>2
  <2> QED
    BY <2>1, <2>2
<1>11. UNCHANGED <<up, writer>>
  BY DEF Reading
<1> QED
  BY <1>1, <1>2, <1>8, <1>10, <1>11 DEF Attached

LEMMA ReadEnds ==
  ASSUME NEW k, NEW s, NEW t, NEW o, NEW a, NEW e, NEW x, StreamTypes, Reading(k, s, t, o, a, e, x),
         NEW m, NEW d, ReadsAll(k, t, o, a, m, d), EndsQuietly, EndIsSent
  PROVE  EndsQuietly' /\ EndIsSent'
<1> DEFINE new == Whole(s, t, o, a, e, x)
<1>1. /\ Flow' = Flow \o new /\ Of(Flow') = Of(Flow) \cup Of(new)
      /\ IsSeq(Flow) /\ IsSeq(new) /\ Ordered(k, s, t, o, a, e, x)
  BY ReadAppends
<1>2. /\ IsSeq(new) /\ Quiet(new)
      /\ t = <<>> /\ o = <<>> /\ a = <<>> => \A v \in Of(new) : ~Speaks(v)
      /\ e # <<>> => Has(new, "end")
  BY <1>1, NewQuiet
<1> HIDE DEF new
<1>3. Of(wire) = {k} /\ Of(wire') = {}
  BY Short DEF Reading
<1>4. EndSent => \A v \in Of(new) : ~Speaks(v)
  <2>1. EndSent => k.text = 0 /\ k.calls = <<>>
    BY <1>3 DEF EndsQuietly
  <2>2. k.calls = <<>> => ~Opening(k) /\ ArgsOf(k) = 0
    BY DEF Opening, ArgsOf
  <2>3. EndSent => t = <<>> /\ o = <<>> /\ a = <<>>
    BY <2>1, <2>2 DEF ReadsAll
  <2> QED
    BY <1>2, <2>3
<1>5. Quiet(Flow \o new)
  <2>1. Quiet(Flow) /\ (Has(Flow, "end") => EndSent)
    BY DEF EndsQuietly, EndSent
  <2> QED
    BY <1>1, <1>2, <1>4, <2>1, QuietJoin
<1>6. Shows(shown, "finish") => \A v \in Of(Flow') : ~Speaks(v)
  BY <1>1, <1>4 DEF EndsQuietly, EndSent
<1>7. EndSent \/ Has(new, "end") => EndSent'
  BY <1>1 DEF EndSent, Has, Reading
<1>8. k.fin # "none" => Has(new, "end")
  BY <1>2 DEF Reading, Shape, Kept
<1>9. EndIsSent'
  <2>1. up' = up
    BY DEF Reading
  <2> QED
    BY <1>3, <1>7, <1>8, <2>1 DEF EndIsSent
<1> QED
  BY <1>1, <1>3, <1>5, <1>6, <1>9 DEF EndsQuietly, Reading

LEMMA ReadFlies ==
  ASSUME NEW k, NEW s, NEW t, NEW o, NEW a, NEW e, NEW x, StreamTypes, SaidTypes, EndWasSaid,
         Reading(k, s, t, o, a, e, x),
         NEW r \in Nat, NEW m \in Nat, NEW c \in Nat, NEW d \in Nat, NEW n \in Nat, NEW q \in Nat,
         n = up.n, q = up.calls, InFlight(r, m, c, d), ReadsAll(k, t, o, a, m, d)
  PROVE  InFlight(r, n, c, q)'
<1>1. Of(wire) = {k} /\ wire # <<>>
  BY Short DEF Reading
<1>2. Continues(k, m, d)
  BY <1>1 DEF InFlight, OnWire
<1>3. r <= m /\ c <= d /\ Climbs("piece", Flow, r, m) /\ Climbs("call", Flow, c, d)
  BY DEF InFlight
<1>4. Climbs("piece", Flow', r, n) /\ Climbs("call", Flow', c, q) /\ m <= n /\ d <= q
  <2>1. Climbs("piece", Flow', r, n)
    BY <1>2, <1>3, ReadPieces
  <2>2. Climbs("call", Flow', c, q)
    BY <1>2, <1>3, ReadOpens
  <2>3. m <= n /\ d <= q
    BY <1>2, ReadOnwards
  <2> QED
    BY <2>1, <2>2, <2>3
<1>5. \A v \in Of(Flow) : Labelled(v, said)
  BY DEF InFlight
<1>6. \A v \in Of(Flow') : Labelled(v, said')
  BY <1>2, <1>5, ReadLabels
<1>7. ArgsAfter(Flow', 0..(c - 1))
  <2>1. ArgsAfter(Flow, 0..(c - 1))
    BY DEF InFlight
  <2> QED
    BY <1>2, <1>3, <1>5, <2>1, ReadCalls
<1>8. Counted(q)'
  <2>1. Counted(d)
    BY DEF InFlight
  <2> QED
    BY <1>2, <2>1, ReadCounts DEF Reading
<1>9. client = "anthropic" => Attached'
  <2>1. client = "anthropic" => Attached
    BY DEF InFlight
  <2> QED
    BY <1>2, <2>1, ReadAttaches
<1>10. wire' = <<>> /\ up' = up /\ client' = client
  BY DEF Reading
<1>11. OnWire(n, q)'
  BY <1>10, Short DEF OnWire
<1> QED
  BY <1>3, <1>4, <1>6, <1>7, <1>8, <1>9, <1>10, <1>11 DEF InFlight

LEMMA ReadLoses == PipeInv /\ LossInv /\ S!Read => LossInv'
<1> SUFFICES ASSUME PipeInv, LossInv, S!Read PROVE LossInv'
  OBVIOUS
<1>1. StreamTypes /\ EndWasSaid /\ SaidTypes
  BY DEF PipeInv, LossInv
<1>2. PICK k, s, t, o, a, e, x : Reading(k, s, t, o, a, e, x)
  BY <1>1, ReadShape DEF S!Read, Reading
<1>3. /\ wire' = <<>> /\ wire = <<k>> /\ IsChunk(k) /\ parser.pc = "read" /\ parser'.pc = "read"
      /\ UNCHANGED <<backend, client, up, said, ch, out, closed, writer, shown, gone, reply>>
      /\ Shape(k, parser, parser', s, t, o, a, e, x)
  BY <1>2 DEF Reading, Shape
<1>4. ASSUME Live'
      PROVE  Upheld'
  <2>1. Upheld
    BY <1>3, <1>4 DEF LossInv, Live
  <2>2. PICK r \in 0..up.n, m \in 0..up.n, c \in 0..up.calls, d \in 0..up.calls : Reached(r, c) /\ InFlight(r, m, c, d)
    BY <2>1 DEF Upheld
  <2>3. PICK n, q : n = up.n /\ q = up.calls
    OBVIOUS
  <2>4. n \in Nat /\ q \in Nat /\ r \in Nat /\ m \in Nat /\ c \in Nat /\ d \in Nat
    BY <1>1, <2>2, <2>3 DEF StreamTypes, SaidTypes
  <2>5. ReadsAll(k, t, o, a, m, d)
    <3>1. Continues(k, m, d) /\ Counted(d)
      BY <1>3, <2>2, Short DEF InFlight, OnWire
    <3> QED
      BY <1>1, <1>3, <2>4, <3>1, ReadNumbers
  <2>6. InFlight(r, n, c, q)'
    BY <1>1, <1>2, <2>2, <2>3, <2>4, <2>5, ReadFlies
  <2>7. Reached(r, c)'
    BY <1>3, <2>2 DEF Reached
  <2>8. EndsQuietly' /\ EndIsSent'
    <3>1. EndsQuietly /\ EndIsSent
      BY <2>1 DEF Upheld
    <3> QED
      BY <1>1, <1>2, <2>5, <3>1, ReadEnds
  <2>9. Drained'
    BY <1>3 DEF Drained
  <2>10. r \in 0..up'.n /\ n \in 0..up'.n /\ c \in 0..up'.calls /\ q \in 0..up'.calls
    BY <1>3, <2>2, <2>3, <2>4
  <2> QED
    BY <2>6, <2>7, <2>8, <2>9, <2>10 DEF Upheld
<1>5. SaidTypes' /\ Shown'
  BY <1>3 DEF LossInv, SaidTypes, Shown
<1>6. (reply = "ok" /\ ~gone /\ up.phase = "complete" => AllShown)'
  BY <1>3 DEF LossInv, AllShown
<1> QED
  BY <1>4, <1>5, <1>6 DEF LossInv

\* Steps that neither add an event nor take one away.
LEMMA QuietLoses ==
  ASSUME LossInv, Flow' = Flow, parser'.blocks = parser.blocks, parser'.calls = parser.calls,
         Live' => Live, Live' => Drained',
         reply' = "ok" /\ ~gone' => reply = "ok" /\ ~gone,
         UNCHANGED <<backend, client, up, said, wire, writer, shown>>
  PROVE  LossInv'
<1>1. SaidTypes' /\ Shown'
  BY DEF LossInv, SaidTypes, Shown
<1>2. (reply = "ok" /\ ~gone /\ up.phase = "complete" => AllShown)'
  BY DEF LossInv, AllShown
<1>3. ASSUME Live'
      PROVE  Upheld'
  <2>1. Upheld /\ Drained'
    BY <1>3 DEF LossInv
  <2>2. PICK r \in 0..up.n, m \in 0..up.n, c \in 0..up.calls, d \in 0..up.calls : Reached(r, c) /\ InFlight(r, m, c, d)
    BY <2>1 DEF Upheld
  <2>3. EndSent' = EndSent
    BY DEF EndSent
  <2>4. EndsQuietly' /\ EndIsSent'
    BY <2>1, <2>3 DEF Upheld, EndsQuietly, EndIsSent
  <2>5. Reached(r, c)'
    BY <2>2 DEF Reached
  <2>6. InFlight(r, m, c, d)'
    <3>1. OnWire(m, d)' /\ Counted(d)'
      BY <2>2 DEF InFlight, OnWire, Continues, Counted
    <3>2. client = "anthropic" => Attached'
      BY <2>2 DEF InFlight, Attached
    <3> QED
      BY <2>2, <3>1, <3>2 DEF InFlight
  <2> QED
    BY <2>1, <2>2, <2>4, <2>5, <2>6 DEF Upheld
<1> QED
  BY <1>1, <1>2, <1>3 DEF LossInv

LEMMA PassingLoses ==
  PipeInv /\ LossInv /\ (S!ReadEnd \/ S!ClosesParser \/ S!Push \/ S!Forward \/ S!CloseBody \/ S!Leave)
    => LossInv'
<1> SUFFICES ASSUME PipeInv, LossInv,
                    S!ReadEnd \/ S!ClosesParser \/ S!Push \/ S!Forward \/ S!CloseBody \/ S!Leave
             PROVE  LossInv'
  OBVIOUS
<1>0. IsParser(parser) /\ FlowTypes /\ (~S!Http => ch = <<>>)
  BY DEF PipeInv, StreamTypes
<1>1. UNCHANGED <<backend, client, up, said, wire, writer, shown, reply>>
  BY DEF S!ReadEnd, S!ClosesParser, S!Push, S!Forward, S!CloseBody, S!Leave
<1>2. /\ Live' => Live
      /\ reply' = "ok" /\ ~gone' => reply = "ok" /\ ~gone
  BY <1>1 DEF Live, S!ReadEnd, S!ClosesParser, S!Push, S!Forward, S!CloseBody, S!Leave
<1>3. /\ Flow' = Flow /\ parser'.blocks = parser.blocks /\ parser'.calls = parser.calls
      /\ parser'.pc = parser.pc \/ parser.pc # "read" \/ (wire = <<>> /\ Silent)
  <2>1. CASE S!ReadEnd \/ S!ClosesParser
    <3>1. /\ parser'.pc = "closed" /\ parser'.pend = parser.pend /\ UNCHANGED <<ch, out>>
          /\ parser'.calls = parser.calls /\ parser'.blocks = parser.blocks
      BY <1>0, <2>1 DEF S!ReadEnd, S!ClosesParser, IsParser, ParserFields
    <3>2. parser.pc # "read" \/ (wire = <<>> /\ Silent)
      BY <2>1 DEF S!ReadEnd, S!ClosesParser, S!Hung, Silent, Active
    <3> QED
      BY <3>1, <3>2 DEF Flow
  <2>2. CASE S!Push
    <3>1. parser'.calls = parser.calls
      BY <1>0, <2>2 DEF S!Push, IsParser, ParserFields
    <3> QED
      BY <1>0, <2>2, <3>1, Pushed DEF IsParser
  <2>3. CASE S!Forward
    BY <1>0, <2>3, Forwarded
  <2>4. CASE S!CloseBody \/ S!Leave
    BY <2>4 DEF S!CloseBody, S!Leave, Flow
  <2> QED
    BY <2>1, <2>2, <2>3, <2>4
<1>4. Live' => Drained'
  BY <1>1, <1>2, <1>3 DEF LossInv, Upheld, Drained, Silent
<1> QED
  BY <1>1, <1>2, <1>3, <1>4, QuietLoses

\* The failure to read is an event of its own, after all that was read.
LEMMA ReadFailsLoses == PipeInv /\ LossInv /\ S!ReadFails => LossInv'
<1> SUFFICES ASSUME PipeInv, LossInv, S!ReadFails PROVE LossInv'
  OBVIOUS
<1> DEFINE failure == S!Event("error")
           new == <<failure>>
<1>1. /\ parser.pend = <<>> /\ parser.pc = "read"
      /\ parser' = [parser EXCEPT !.pc = "last", !.pend = new]
      /\ UNCHANGED <<backend, client, up, said, wire, ch, out, closed, writer, shown, gone, reply>>
      /\ S!Cancelled \/ (up.phase = "cut" /\ wire = <<>>)
  BY DEF S!ReadFails
<1>2. Brief(new, "error")
  BY Events DEF EventKinds
<1>3. /\ IsSeq(new) /\ (\A v \in Of(new) : v.kind = "error")
      /\ \A tools : ArgsAfter(new, tools)
  BY <1>2, BriefOrder
<1>4. failure.kind = "error"
  BY <1>3, Short
<1>5. IsParser(parser) /\ FlowTypes
  BY DEF PipeInv, StreamTypes
<1> HIDE DEF failure
<1>6. \A lo \in Nat : Climbs("piece", new, lo, lo) /\ Climbs("call", new, lo, lo)
  <2>1. Num("piece", failure) = 0 /\ Num("call", failure) = 0
    BY <1>4 DEF Num
  <2> QED
    BY <2>1, ClimbsOne
<1> HIDE DEF new
<1>7. /\ parser'.pc = "last" /\ parser'.pend = new /\ parser'.calls = parser.calls
      /\ parser'.blocks = parser.blocks
  BY <1>1, <1>5 DEF IsParser, ParserFields
<1>8. Flow' = Flow \o new /\ Of(Flow') = Of(Flow) \cup Of(new) /\ IsSeq(Flow)
  BY <1>1, <1>3, <1>5, <1>7, Added, FlowParts
<1>9. SaidTypes' /\ Shown' /\ (reply = "ok" /\ ~gone /\ up.phase = "complete" => AllShown)'
  BY <1>1 DEF LossInv, SaidTypes, Shown, AllShown
<1>10. ASSUME Live'
       PROVE  Upheld'
  <2>1. Upheld /\ up.phase = "cut" /\ wire = <<>>
    BY <1>1, <1>10 DEF LossInv, Live, S!Cancelled
  <2>2. PICK r \in 0..up.n, m \in 0..up.n, c \in 0..up.calls, d \in 0..up.calls : Reached(r, c) /\ InFlight(r, m, c, d)
    BY <2>1 DEF Upheld
  <2>3. r \in Nat /\ m \in Nat /\ c \in Nat /\ d \in Nat
    BY <2>2 DEF LossInv, SaidTypes, PipeInv, StreamTypes
  <2>4. EndsQuietly'
    <3>1. \A v \in Of(new) : ~Speaks(v) /\ v.kind # "end"
      BY <1>3 DEF Speaks
    <3>2. Quiet(new)
      BY <3>1 DEF Quiet, Of
    <3>3. Quiet(Flow) /\ (Shows(shown, "finish") => \A v \in Of(Flow) : ~Speaks(v))
      BY <2>1 DEF Upheld, EndsQuietly
    <3>4. Quiet(Flow \o new)
      BY <1>3, <1>8, <3>1, <3>2, <3>3, QuietJoin
    <3>5. Of(wire') = {}
      BY <1>1, <2>1, Short
    <3> QED
      BY <1>1, <1>8, <3>1, <3>3, <3>4, <3>5 DEF EndsQuietly
  <2>5. EndIsSent'
    BY <1>1, <2>1 DEF EndIsSent
  <2>6. Drained'
    BY <1>1, <2>1 DEF Drained, Silent, Active
  <2>7. Reached(r, c)'
    BY <1>1, <2>2 DEF Reached
  <2>8. InFlight(r, m, c, d)'
    <3>1. r <= m /\ c <= d /\ m <= up.n /\ d <= up.calls
      BY <2>2 DEF InFlight
    <3>2. Climbs("piece", Flow, r, m) /\ Climbs("piece", new, m, m)
      BY <1>6, <2>2, <2>3 DEF InFlight
    <3>3. Climbs("call", Flow, c, d) /\ Climbs("call", new, d, d)
      BY <1>6, <2>2, <2>3 DEF InFlight
    <3>4. Climbs("piece", Flow \o new, r, m)
      BY <1>3, <1>8, <2>3, <3>1, <3>2, ClimbsJoin
    <3>5. Climbs("call", Flow \o new, c, d)
      BY <1>3, <1>8, <2>3, <3>1, <3>3, ClimbsJoin
    <3>6. \A v \in Of(Flow') : Labelled(v, said')
      BY <1>1, <1>3, <1>8, <2>2 DEF InFlight, Labelled
    <3>7. ArgsAfter(Flow \o new, 0..(c - 1))
      <4>1. ArgsAfter(Flow, 0..(c - 1))
        BY <2>2 DEF InFlight
      <4> QED
        BY <1>3, <1>8, <4>1, ArgsJoin
    <3>8. OnWire(m, d)' /\ Counted(d)'
      <4>1. OnWire(m, d) /\ Counted(d)
        BY <2>2 DEF InFlight
      <4>2. OnWire(m, d)'
        BY <1>1, <2>1, <4>1, Short DEF OnWire
      <4>3. Counted(d)'
        BY <1>1, <1>7, <4>1 DEF Counted
      <4> QED
        BY <4>2, <4>3
    <3>9. client = "anthropic" => Attached'
      <4> SUFFICES ASSUME client = "anthropic" PROVE Attached'
        OBVIOUS
      <4>1. Attached
        BY <2>2 DEF InFlight
      <4>2. FedOn(Flow, writer, new, "error")
        BY <1>2, <1>8, <4>1, FedMore DEF Attached
      <4>3. Of(wire') = {} /\ up'.phase = "cut"
        BY <1>1, <2>1, Short
      <4> QED
        BY <1>1, <1>8, <4>2, <4>3 DEF Attached, FedOn
    <3> QED
      BY <1>1, <1>8, <3>1, <3>4, <3>5, <3>6, <3>7, <3>8, <3>9 DEF InFlight
  <2> QED
    BY <1>1, <2>2, <2>4, <2>5, <2>6, <2>7, <2>8 DEF Upheld
<1> QED
  BY <1>9, <1>10 DEF LossInv

LEMMA ShowsJoin ==
  ASSUME NEW s, NEW t, NEW typ, IsSeq(s), IsSeq(t)
  PROVE  Shows(s \o t, typ) <=> Shows(s, typ) \/ Shows(t, typ)
<1>1. \A r : Shows(r, typ) <=> \E f \in Of(r) : f.typ = typ
  BY DEF Shows, Of
<1>2. Of(s \o t) = Of(s) \cup Of(t)
  BY Joined
<1> QED
  BY <1>1, <1>2

\* In every dialect the end is shown, and when it is.
LEMMA EndShows ==
  ASSUME NEW e, NEW w, IsEvent(e), e.kind = "end", IsWriter(w)
  PROVE  Shows(S!WriteEvent(e, w).frames, "finish")
<1> DEFINE finish == S!Frame("finish", 0, <<>>)
           stop == S!Frame("stop", 0, <<>>)
           usage == IF e.use > 0 THEN <<S!Frame("usage", 0, <<>>)>> ELSE <<>>
           close == S!CloseCur(w)
           pair == <<finish, stop>>
           held == w.held
           calls == [i \in DOMAIN held |-> [S!Frame("call", i - 1, held[i].ns) EXCEPT !.id = held[i].id]]
           frames == S!WriteEvent(e, w).frames
<1>1. \A x, fs : S!Wrote(x, fs).frames = fs
  BY DEF S!Wrote
<1>2. S!WriteOpenAI(e, w) = S!Wrote(S!Sum(w, e.use), <<finish>> \o usage)
  BY Zenon DEF S!WriteOpenAI
<1>3. S!WriteAnthropic(e, w) = S!Wrote([S!Sum(w, e.use) EXCEPT !.cur = "none"], close \o pair)
  BY Zenon DEF S!WriteAnthropic
<1>4. S!WriteGemini(e, w) = S!Wrote([S!Sum(w, e.use) EXCEPT !.held = <<>>], calls \o <<finish>>)
  BY Zenon DEF S!WriteGemini
<1>5. \/ S!WriteEvent(e, w) = S!WriteOpenAI(e, w)
      \/ S!WriteEvent(e, w) = S!WriteAnthropic(e, w)
      \/ S!WriteEvent(e, w) = S!WriteGemini(e, w)
  BY Zenon DEF S!WriteEvent
<1>6. frames \in {<<finish>> \o usage, close \o pair, calls \o <<finish>>}
  <2> DEFINE one == <<finish>> \o usage
             two == close \o pair
             three == calls \o <<finish>>
  <2>1. \E v : S!WriteOpenAI(e, w) = S!Wrote(v, one)
    BY <1>2
  <2>2. \E v : S!WriteAnthropic(e, w) = S!Wrote(v, two)
    BY <1>3
  <2>3. \E v : S!WriteGemini(e, w) = S!Wrote(v, three)
    BY <1>4
  <2> HIDE DEF one, two, three
  <2>4. frames \in {one, two, three}
    BY <1>1, <1>5, <2>1, <2>2, <2>3
  <2> QED
    BY <2>4 DEF one, two, three
<1>7. finish.typ = "finish"
  BY FrameFields
<1>8. IsSeq(usage) /\ IsSeq(close) /\ IsSeq(<<finish>>) /\ IsSeq(pair) /\ pair = <<finish>> \o <<stop>> /\ IsSeq(<<stop>>)
  <2>1. pair = <<finish>> \o <<stop>> /\ IsSeq(pair)
    BY Pair
  <2>2. close = <<>> \/ \E f : close = <<f>>
    BY DEF S!CloseCur
  <2>3. usage = <<>> \/ \E f : usage = <<f>>
    OBVIOUS
  <2> HIDE DEF usage, close, finish, stop, pair
  <2> QED
    BY <2>1, <2>2, <2>3, Short
<1>9. IsSeq(calls)
  <2>1. calls = [i \in DOMAIN held |-> calls[i]] /\ IsSeq(held)
    BY DEF IsWriter
  <2> HIDE DEF calls, held
  <2> QED
    BY <2>1, MappedSeq
<1> HIDE DEF finish, usage, close, pair, calls, frames, held, stop
<1>10. Shows(<<finish>>, "finish")
  BY <1>7, Short DEF Shows
<1>11. Shows(pair, "finish")
  BY <1>8, <1>10, ShowsJoin
<1>12. Shows(<<finish>> \o usage, "finish") /\ Shows(close \o pair, "finish") /\ Shows(calls \o <<finish>>, "finish")
  BY <1>8, <1>9, <1>10, <1>11, ShowsJoin
<1> QED
  BY <1>6, <1>12 DEF frames

LEMMA ShowsEnd ==
  ASSUME NEW e, NEW w, IsEvent(e), e.kind # "error", IsWriter(w), Shows(S!WriteEvent(e, w).frames, "finish")
  PROVE  e.kind = "end"
<1>1. Fits(e, S!WriteEvent(e, w).frames)
  BY EventWritten DEF Written
<1> QED
  BY <1>1 DEF Fits, Fitting, Shows, Of

\* The writer's open block, after an event of the Anthropic dialect.
LEMMA AnthropicTurns ==
  ASSUME NEW e, NEW w, IsEvent(e), e.kind # "error", IsWriter(w)
  PROVE  LET v == S!WriteAnthropic(e, w).w IN
           /\ ~Turns(e) => v.cur = w.cur /\ v.tool = w.tool
           /\ e.kind = "call" => v.cur = "call" /\ v.tool = e.tool
<1> DEFINE done == S!WriteAnthropic(e, w)
           begun == [w EXCEPT !.started = TRUE]
           fresh == S!Block(w, IF e.kind = "text" THEN "text" ELSE "call", e.tool)
<1>1. /\ e.kind = "start" => \E fs : done = S!Wrote(begun, fs)
      /\ e.kind = "call" => \E fs : done = S!Wrote(fresh, fs)
      /\ e.kind = "args" => \E fs : done = S!Wrote(w, fs)
  BY Zenon DEF S!WriteAnthropic
<1>2. /\ begun.cur = w.cur /\ begun.tool = w.tool
      /\ fresh.tool = e.tool /\ fresh.cur = (IF e.kind = "text" THEN "text" ELSE "call")
  BY DEF IsWriter, WriterFields, S!Block
<1>3. \A x, fs : S!Wrote(x, fs).w = x
  BY DEF S!Wrote
<1> HIDE DEF done, begun, fresh
<1>4. e.kind = "call" => done.w.cur = "call" /\ done.w.tool = e.tool
  BY <1>1, <1>2, <1>3
<1>5. ~Turns(e) => done.w.cur = w.cur /\ done.w.tool = w.tool
  <2>1. ~Turns(e) => e.kind \in {"start", "args"}
    BY DEF Turns, IsEvent, EventKinds
  <2> QED
    BY <1>1, <1>2, <1>3, <2>1
<1> QED
  BY <1>4, <1>5 DEF done

\* What the client has been shown agrees with the writer's locals.
Writes(d, s, w, lanes, r, c) ==
  IF d = "gemini" THEN GeminiAt(s, w, lanes, r, c) ELSE Aligned(d, s, w, lanes, r, c)

WritesNext(e, s, w, lanes, r, c) ==
  LET done == S!WriteEvent(e, w) IN
    Writes(client, s \o done.frames, done.w, lanes, r + Bit(Piece(e)), c + Bit(e.kind = "call"))

CanWrite(e, s, w, lanes, r, c) ==
  /\ client \in {"openai", "anthropic", "gemini"} /\ IsWriter(w) /\ IsSeq(lanes) /\ r <= Len(lanes)
  /\ r \in Nat /\ c \in Nat /\ Writes(client, s, w, lanes, r, c) /\ NextUp(e, lanes, r, c)
  /\ Shows(s, "finish") => ~Speaks(e)
  /\ client = "anthropic" => Tracks(s, w) /\ (e.kind = "args" => w.cur = "call" /\ w.tool = e.tool)

LEMMA WritesOn ==
  ASSUME NEW s, NEW w, NEW lanes, NEW r, NEW c, NEW e, CanWrite(e, s, w, lanes, r, c)
  PROVE  WritesNext(e, s, w, lanes, r, c)
<1>0. /\ client \in {"openai", "anthropic", "gemini"} /\ IsWriter(w) /\ IsSeq(lanes) /\ r <= Len(lanes)
      /\ r \in Nat /\ c \in Nat /\ Writes(client, s, w, lanes, r, c) /\ NextUp(e, lanes, r, c)
      /\ Shows(s, "finish") => ~Speaks(e)
      /\ client = "anthropic" => Tracks(s, w) /\ (e.kind = "args" => w.cur = "call" /\ w.tool = e.tool)
  BY DEF CanWrite
<1>1. CASE client = "openai"
  <2>1. S!WriteEvent(e, w) = S!WriteOpenAI(e, w)
    BY <1>1, Zenon DEF S!WriteEvent
  <2>2. Aligned("openai", s, w, lanes, r, c)
    BY <1>0, <1>1 DEF Writes
  <2>3. LET done == S!WriteOpenAI(e, w) IN
          Aligned("openai", s \o done.frames, done.w, lanes, r + Bit(Piece(e)), c + Bit(e.kind = "call"))
    BY <1>0, <2>2, OpenAIAligned
  <2> QED
    BY <1>1, <2>1, <2>3 DEF Writes, WritesNext
<1>2. CASE client = "anthropic"
  <2>1. S!WriteEvent(e, w) = S!WriteAnthropic(e, w)
    BY <1>2, Zenon DEF S!WriteEvent
  <2>2. Aligned("anthropic", s, w, lanes, r, c)
    BY <1>0, <1>2 DEF Writes
  <2>3. LET done == S!WriteAnthropic(e, w) IN
          Aligned("anthropic", s \o done.frames, done.w, lanes, r + Bit(Piece(e)), c + Bit(e.kind = "call"))
    BY <1>0, <1>2, <2>2, AnthropicAligned
  <2> QED
    BY <1>2, <2>1, <2>3 DEF Writes, WritesNext
<1>3. CASE client = "gemini"
  <2>1. S!WriteEvent(e, w) = S!WriteGemini(e, w)
    BY <1>3, Zenon DEF S!WriteEvent
  <2>2. GeminiAt(s, w, lanes, r, c)
    BY <1>0, <1>3 DEF Writes
  <2>3. LET done == S!WriteGemini(e, w) IN
          GeminiAt(s \o done.frames, done.w, lanes, r + Bit(Piece(e)), c + Bit(e.kind = "call"))
    BY <1>0, <2>2, GeminiAligned
  <2> QED
    BY <1>3, <2>1, <2>3 DEF Writes, WritesNext
<1> QED
  BY <1>0, <1>1, <1>2, <1>3

\* The next event to be received carries the next piece, opens the next call, or neither.
Comes(h, t, r, m, c, d) ==
  /\ NextUp(h, said, r, c)
  /\ r + Bit(Piece(h)) \in Nat /\ r + Bit(Piece(h)) <= m /\ Climbs("piece", t, r + Bit(Piece(h)), m)
  /\ c + Bit(h.kind = "call") \in Nat /\ c + Bit(h.kind = "call") <= d
  /\ Climbs("call", t, c + Bit(h.kind = "call"), d)
  /\ ArgsAfter(t, 0..((c + Bit(h.kind = "call")) - 1))
  /\ \A e \in Of(t) : Labelled(e, said)

LEMMA NextComes ==
  ASSUME SaidTypes, NEW h, NEW t, IsSeq(t), Flow = <<h>> \o t, Of(Flow) = {h} \cup Of(t),
         IsEvent(h), h.kind # "error", NEW r \in Nat, NEW m \in Nat, NEW c \in Nat, NEW d \in Nat,
         InFlight(r, m, c, d)
  PROVE  Comes(h, t, r, m, c, d)
<1>1. /\ r <= m /\ m <= up.n /\ c <= d
      /\ Climbs("piece", <<h>> \o t, r, m) /\ Climbs("call", <<h>> \o t, c, d)
      /\ \A e \in Of(Flow) : Labelled(e, said)
      /\ ArgsAfter(<<h>> \o t, 0..(c - 1))
  BY DEF InFlight
<1>2. Labelled(h, said)
  BY <1>1
<1>3. \/ Num("piece", h) = 0 /\ Climbs("piece", t, r, m)
      \/ Num("piece", h) = r + 1 /\ r < m /\ Climbs("piece", t, r + 1, m)
  BY <1>1, ClimbsRest
<1>4. \/ Num("call", h) = 0 /\ Climbs("call", t, c, d)
      \/ Num("call", h) = c + 1 /\ c < d /\ Climbs("call", t, c + 1, d)
  BY <1>1, ClimbsRest
<1>5. /\ Piece(h) => h.n = r + 1 /\ r < m
      /\ r + Bit(Piece(h)) \in Nat /\ r + Bit(Piece(h)) <= m /\ Climbs("piece", t, r + Bit(Piece(h)), m)
  <2>1. Num("piece", h) = IF Piece(h) THEN h.n ELSE 0
    BY DEF Num, Piece
  <2>2. Piece(h) => h.n # 0
    BY <1>2 DEF Piece, Labelled
  <2> QED
    BY <1>1, <1>3, <2>1, <2>2 DEF Bit
<1>6. /\ h.kind = "call" => h.tool = c /\ c < d
      /\ c + Bit(h.kind = "call") \in Nat /\ c + Bit(h.kind = "call") <= d
      /\ Climbs("call", t, c + Bit(h.kind = "call"), d)
  <2>1. Num("call", h) = IF h.kind = "call" THEN h.tool + 1 ELSE 0
    BY DEF Num
  <2>2. h.kind = "call" => h.tool \in Nat
    BY <1>2 DEF Labelled
  <2> QED
    BY <1>1, <1>4, <2>1, <2>2 DEF Bit
<1> DEFINE tools == 0..(c - 1)
           more == 0..((c + Bit(h.kind = "call")) - 1)
<1>7. tools \subseteq more /\ (h.kind = "call" => h.tool \in more)
  BY <1>6 DEF Bit
<1>8. ArgsAfter(<<h>> \o t, tools)
  BY <1>1
<1> HIDE DEF tools, more
<1>9. ArgsAfter(t, more) /\ (h.kind = "args" => h.tool \in tools)
  BY <1>7, <1>8, Rest
<1>10. Piece(h) => r + 1 \in 1..Len(said)
  BY <1>1, <1>5 DEF SaidTypes
<1>11. NextUp(h, said, r, c)
  BY <1>2, <1>5, <1>6, <1>9, <1>10 DEF NextUp, tools
<1> QED
  BY <1>1, <1>5, <1>6, <1>9, <1>11 DEF Comes, more

\* The sequence of frames and the writer agree: so does what the client makes of them.
LEMMA WritesShown ==
  ASSUME NEW s, NEW w, NEW lanes, NEW r \in Nat, NEW c, NEW d, r <= Len(lanes), Len(lanes) \in Nat,
         Writes(d, s, w, lanes, r, c)
  PROVE  Sound(s, lanes) /\ \E n \in 0..Len(lanes) : Nums(s) \in {1..n, UpTo(n, lanes)}
<1>1. Sound(s, lanes)
  BY DEF Writes, GeminiAt, Aligned
<1>2. Nums(s) \in {1..r, UpTo(r, lanes)}
  BY DEF Writes, GeminiAt, Aligned, AsFrames, Flushed, Holding
<1>3. r \in 0..Len(lanes)
  OBVIOUS
<1> QED
  BY <1>1, <1>2, <1>3

LEMMA ReceiveLoses == PipeInv /\ NestInv /\ LossInv /\ S!Receive => LossInv'
<1> SUFFICES ASSUME PipeInv, NestInv, LossInv, S!Receive PROVE LossInv'
  OBVIOUS
<1> DEFINE h == Head(out)
           done == S!WriteEvent(h, writer)
<1>1. /\ reply = "none" /\ out # <<>> /\ h.kind # "error" /\ out' = Tail(out)
      /\ UNCHANGED <<backend, client, up, said, wire, parser, ch, closed, gone>>
  BY DEF S!Receive
<1>2. \/ writer' = done.w /\ shown' = (IF gone THEN shown ELSE shown \o done.frames) /\ reply' = reply
      \/ gone /\ writer' = writer /\ shown' = shown /\ reply' = "broken"
  BY Zenon DEF S!Receive
<1>3. Flow = <<h>> \o Flow' /\ Of(Flow) = {h} \cup Of(Flow') /\ IsSeq(Flow')
  BY <1>1, Taken DEF PipeInv, StreamTypes
<1>4. IsEvent(h) /\ IsWriter(writer) /\ IsSeq(shown) /\ SaidTypes /\ client \in {"openai", "anthropic", "gemini"}
  BY <1>1, <1>3 DEF PipeInv, StreamTypes, NestInv, LossInv
<1> HIDE DEF h, done
<1>5. SaidTypes' /\ reply' # "ok"
  BY <1>1, <1>2 DEF LossInv, SaidTypes
<1>6. CASE gone
  <2>1. shown' = shown /\ ~Live'
    BY <1>1, <1>2, <1>6 DEF Live
  <2>2. Shown'
    BY <1>1, <2>1 DEF LossInv, Shown
  <2> QED
    BY <1>5, <2>1, <2>2 DEF LossInv
<1>7. CASE ~gone
  <2>1. writer' = done.w /\ shown' = shown \o done.frames /\ Live
    BY <1>1, <1>2, <1>7 DEF Live
  <2>2. Upheld
    BY <2>1 DEF LossInv
  <2>3. PICK r \in 0..up.n, m \in 0..up.n, c \in 0..up.calls, d \in 0..up.calls : Reached(r, c) /\ InFlight(r, m, c, d)
    BY <2>2 DEF Upheld
  <2>4. /\ r \in Nat /\ m \in Nat /\ c \in Nat /\ d \in Nat /\ up.n \in Nat /\ up.calls \in Nat
        /\ IsSeq(said) /\ Len(said) = up.n /\ r <= Len(said)
    BY <1>4, <2>3 DEF SaidTypes, PipeInv, StreamTypes
  <2> DEFINE t == Flow'
  <2>5. Comes(h, t, r, m, c, d)
    <3>1. IsSeq(t) /\ Flow = <<h>> \o t /\ Of(Flow) = {h} \cup Of(t)
      BY <1>3
    <3> HIDE DEF t
    <3>2. InFlight(r, m, c, d)
      BY <2>3
    <3> QED
      BY <1>1, <1>4, <2>4, <3>1, <3>2, NextComes
  <2>6. EndsQuietly /\ EndIsSent /\ Drained
    BY <2>2 DEF Upheld
  <2>7. Shows(shown, "finish") => ~Speaks(h)
    BY <1>3, <2>6 DEF EndsQuietly
  <2>8. ASSUME client = "anthropic"
        PROVE  /\ Tracks(shown, writer) /\ (h.kind = "args" => writer.cur = "call" /\ writer.tool = h.tool)
               /\ Attached'
    <3>1. Tracks(shown, writer) /\ Attached
      BY <2>1, <2>3, <2>8 DEF NestInv, InFlight
    <3>2. S!WriteEvent(h, writer) = S!WriteAnthropic(h, writer)
      BY <2>8, Zenon DEF S!WriteEvent
    <3> DEFINE v == done.w
    <3>3. (~Turns(h) => v.cur = writer.cur /\ v.tool = writer.tool) /\ (h.kind = "call" => v.cur = "call" /\ v.tool = h.tool)
      BY <1>1, <1>4, <3>2, AnthropicTurns DEF done
    <3>4. writer' = v /\ IsSeq(t) /\ Flow = <<h>> \o t
      BY <1>3, <2>1
    <3> HIDE DEF v, t
    <3>5. /\ Fed(<<h>> \o t, writer) => Fed(t, v) /\ (h.kind = "args" => writer.cur = "call" /\ writer.tool = h.tool)
          /\ \A tool : Current(<<h>> \o t, writer, Len(<<h>> \o t) + 1, tool) => Current(t, v, Len(t) + 1, tool)
      BY <3>3, <3>4, FedRest
    <3>6. Fed(t, v) /\ (h.kind = "args" => writer.cur = "call" /\ writer.tool = h.tool)
      BY <3>1, <3>4, <3>5 DEF Attached
    <3>7. up.open = "call" /\ (\A k \in Of(wire) : ~Opening(k)) /\ (up.phase = "talking" \/ \E k \in Of(wire) : Adding(k))
            => Current(t, v, Len(t) + 1, up.calls - 1)
      BY <3>1, <3>4, <3>5 DEF Attached
    <3>8. UNCHANGED <<up, wire>> /\ Flow' = t
      BY <1>1 DEF t
    <3> QED
      BY <3>1, <3>4, <3>6, <3>7, <3>8 DEF Attached
  <2> HIDE DEF t
  <2>9. WritesNext(h, shown, writer, said, r, c)
    <3>1. Sound(shown, said)
      BY DEF LossInv, Shown
    <3>2. Writes(client, shown, writer, said, r, c)
      BY <1>4, <2>3, <3>1 DEF Reached, Writes, GeminiAt, Aligned
    <3>3. NextUp(h, said, r, c)
      BY <2>5 DEF Comes
    <3>4. client = "anthropic" => Tracks(shown, writer) /\ (h.kind = "args" => writer.cur = "call" /\ writer.tool = h.tool)
      BY <2>8
    <3>5. CanWrite(h, shown, writer, said, r, c)
      BY <1>4, <2>4, <2>7, <3>2, <3>3, <3>4 DEF CanWrite
    <3> QED
      BY <3>5, WritesOn
  <2> DEFINE fs == shown \o done.frames
             v == done.w
  <2>10. PICK r1, c1 : /\ r1 \in Nat /\ r1 <= m /\ Climbs("piece", t, r1, m)
                       /\ c1 \in Nat /\ c1 <= d /\ Climbs("call", t, c1, d)
                       /\ ArgsAfter(t, 0..(c1 - 1))
                       /\ Writes(client, fs, v, said, r1, c1)
    <3> DEFINE piece == Bit(Piece(h))
               call == Bit(h.kind = "call")
    <3>1. /\ r + piece \in Nat /\ r + piece <= m /\ Climbs("piece", t, r + piece, m)
          /\ c + call \in Nat /\ c + call <= d /\ Climbs("call", t, c + call, d)
          /\ ArgsAfter(t, 0..((c + call) - 1))
      BY <2>5 DEF Comes
    <3>2. Writes(client, fs, v, said, r + piece, c + call)
      BY <2>9 DEF WritesNext, done
    <3> HIDE DEF piece, call, fs, v
    <3> QED
      BY <3>1, <3>2
  <2> HIDE DEF fs, v
  <2>11. shown' = fs /\ writer' = v /\ Flow' = t /\ UNCHANGED <<backend, client, up, said, wire, parser>>
    BY <1>1, <2>1 DEF fs, v, t
  <2>12. r1 <= Len(said) /\ m <= up.n
    BY <2>3, <2>4, <2>10
  <2>13. Shown'
    <3>1. Len(said) \in Nat
      BY <2>4
    <3>2. Sound(fs, said) /\ \E n \in 0..Len(said) : Nums(fs) \in {1..n, UpTo(n, said)}
      BY <2>10, <2>12, <3>1, WritesShown
    <3> QED
      BY <2>11, <3>2 DEF Shown
  <2>14. Reached(r1, c1)'
    <3>1. \/ client = "gemini" /\ GeminiAt(fs, v, said, r1, c1)
          \/ client # "gemini" /\ Aligned(client, fs, v, said, r1, c1)
      BY <2>10 DEF Writes
    <3> QED
      BY <2>11, <3>1 DEF Reached, GeminiAt, Aligned
  <2>15. InFlight(r1, m, c1, d)'
    <3>1. OnWire(m, d)' /\ Counted(d)'
      BY <2>3, <2>11 DEF InFlight, OnWire, Continues, Counted
    <3>2. m <= up.n /\ d <= up.calls
      BY <2>3 DEF InFlight
    <3> QED
      BY <2>5, <2>8, <2>10, <2>11, <3>1, <3>2 DEF InFlight, Comes
  <2>16. EndsQuietly' /\ EndIsSent'
    <3>1. IsSeq(done.frames) /\ (Shows(done.frames, "finish") <=> h.kind = "end")
      BY <1>1, <1>4, EventWritten, EndShows, ShowsEnd DEF Written, Fits, done
    <3>2. Shows(shown', "finish") <=> Shows(shown, "finish") \/ h.kind = "end"
      BY <1>4, <2>11, <3>1, ShowsJoin DEF fs
    <3>3. Quiet(t) /\ (h.kind = "end" => \A e \in Of(t) : ~Speaks(e))
      <4>1. Quiet(<<h>> \o t) /\ IsSeq(t)
        BY <1>3, <2>6 DEF EndsQuietly, t
      <4> QED
        BY <4>1, QuietRest
    <3>4. Has(Flow, "end") <=> h.kind = "end" \/ Has(t, "end")
      BY <1>3, <2>11 DEF Has
    <3>5. EndSent' <=> EndSent
      BY <2>11, <3>2, <3>4 DEF EndSent
    <3>6. Shows(shown', "finish") => \A e \in Of(t) : ~Speaks(e)
      BY <1>3, <2>6, <2>11, <3>2, <3>3 DEF EndsQuietly
    <3> QED
      BY <2>6, <2>11, <3>3, <3>5, <3>6 DEF EndsQuietly, EndIsSent
  <2>17. Drained'
    BY <2>6, <2>11 DEF Drained, Silent
  <2>18. r1 \in 0..up'.n /\ m \in 0..up'.n /\ c1 \in 0..up'.calls /\ d \in 0..up'.calls
    <3>1. r1 <= up.n /\ c1 <= up.calls
      BY <2>3, <2>4, <2>10, <2>12
    <3> QED
      BY <2>3, <2>4, <2>10, <2>11, <3>1
  <2>19. Upheld'
    BY <2>14, <2>15, <2>16, <2>17, <2>18 DEF Upheld
  <2> QED
    BY <1>5, <2>13, <2>19 DEF LossInv
<1> QED
  BY <1>6, <1>7

\* Once the handler has given up, nothing more is shown.
LEMMA StopsLoses ==
  ASSUME LossInv, ~Live', reply' # "ok" \/ gone', UNCHANGED <<up, said, shown>>
  PROVE  LossInv'
BY DEF LossInv, SaidTypes, Shown

LEMMA ReceiveErrorLoses == LossInv /\ S!ReceiveError => LossInv'
BY StopsLoses DEF S!ReceiveError, Live

LEMMA ClimbsEmpty ==
  ASSUME NEW what, NEW lo \in Nat, NEW hi \in Nat, lo <= hi, Climbs(what, <<>>, lo, hi)
  PROVE  lo = hi
<1>1. CASE lo < hi
  <2>1. hi \in (lo + 1)..hi
    BY <1>1
  <2>2. \E i \in DOMAIN <<>> : Num(what, <<>>[i]) = hi
    BY <2>1 DEF Climbs
  <2> QED
    BY <2>2, Short
<1> QED
  BY <1>1

\* The upstream is read to its end and everything on its way has been received.
LEMMA FinishShows ==
  ASSUME PipeInv, NestInv, LossInv, S!Finish, ~gone, up.phase = "complete"
  PROVE  AllShown
<1>1. reply = "none" /\ out = <<>> /\ S!Closed
  BY DEF S!Finish
<1>2. parser.pc = "closed" /\ ch = <<>> /\ parser.pend = <<>>
  BY <1>1 DEF S!Closed, PipeInv, StreamTypes
<1>3. Flow = <<>>
  <2>1. <<>> \o <<>> = <<>>
    BY Short, Joining
  <2> QED
    BY <1>1, <1>2, <2>1 DEF Flow
<1>4. Upheld
  BY <1>1 DEF LossInv, Live
<1>5. wire = <<>>
  BY <1>2, <1>4 DEF Upheld, Drained
<1>6. PICK r \in 0..up.n, m \in 0..up.n, c \in 0..up.calls, d \in 0..up.calls : Reached(r, c) /\ InFlight(r, m, c, d)
  BY <1>4 DEF Upheld
<1>7. r \in Nat /\ m \in Nat /\ c \in Nat /\ d \in Nat
  BY <1>6 DEF LossInv, SaidTypes, PipeInv, StreamTypes
<1>8. m = up.n /\ d = up.calls /\ r <= m /\ c <= d /\ Climbs("piece", <<>>, r, m) /\ Climbs("call", <<>>, c, d)
  BY <1>3, <1>5, <1>6 DEF InFlight, OnWire
<1>9. r = up.n /\ c = up.calls
  BY <1>7, <1>8, ClimbsEmpty
<1>10. CASE client # "gemini"
  BY <1>6, <1>9, <1>10 DEF Reached, AsFrames, AllShown
<1>11. CASE client = "gemini"
  <2>1. EndSent
    BY <1>4, <1>5, Short DEF Upheld, EndIsSent
  <2>2. Shows(shown, "finish")
    BY <1>3, <2>1, Short DEF EndSent, Has
  <2> QED
    BY <1>6, <1>9, <1>11, <2>2 DEF Reached, Flushed, AllShown
<1> QED
  BY <1>10, <1>11

LEMMA FinishLoses == PipeInv /\ NestInv /\ LossInv /\ S!Finish => LossInv'
<1> SUFFICES ASSUME PipeInv, NestInv, LossInv, S!Finish PROVE LossInv'
  OBVIOUS
<1>1. /\ reply = "none" /\ reply' \in {"ok", "broken"}
      /\ UNCHANGED <<backend, client, up, said, wire, parser, ch, out, closed, writer, gone>>
      /\ shown' \in {shown, shown \o S!WriteDone}
  BY DEF S!Finish
<1>2. IsSeq(shown)
  BY DEF PipeInv, StreamTypes
<1>3. Same(shown, shown')
  <2>1. Plain(S!WriteDone)
    <3>1. Plain(<<S!Frame("done", 0, <<>>)>>)
      BY FrameNumbers
    <3> QED
      BY <3>1, PlainJoin DEF S!WriteDone
  <2>2. Same(shown, shown \o <<>>) /\ Same(shown, shown \o S!WriteDone)
    BY <1>2, <2>1, SameFrames, PlainJoin
  <2>3. shown \o <<>> = shown
    BY <1>2, Joining
  <2> QED
    BY <1>1, <2>2, <2>3
<1>4. /\ Nums(shown') = Nums(shown) /\ Ord(shown', Len(shown')) = Ord(shown, Len(shown))
      /\ Sound(shown, said) => Sound(shown', said)
  BY <1>3 DEF Same
<1>5. SaidTypes' /\ Shown'
  BY <1>1, <1>4 DEF LossInv, SaidTypes, Shown
<1>6. ~gone /\ up.phase = "complete" => AllShown
  BY FinishShows
<1>7. (reply = "ok" /\ ~gone /\ up.phase = "complete" => AllShown)'
  BY <1>1, <1>4, <1>6 DEF AllShown
<1>8. ~Live'
  BY <1>1 DEF Live
<1> QED
  BY <1>5, <1>7, <1>8 DEF LossInv

LEMMA LossInit == S!Init /\ client \in {"openai", "anthropic", "gemini"} => LossInv
<1> SUFFICES ASSUME S!Init, client \in {"openai", "anthropic", "gemini"} PROVE LossInv
  OBVIOUS
<1>1. /\ up = [phase |-> "before", open |-> "none", blocks |-> 0, calls |-> 0, n |-> 0, use |-> 0]
      /\ said = <<>> /\ wire = <<>> /\ ch = <<>> /\ out = <<>> /\ shown = <<>> /\ reply = "none" /\ ~gone
      /\ parser = [pc |-> "read", started |-> FALSE, blocks |-> <<>>, calls |-> 0, pend |-> <<>>]
      /\ writer.held = <<>> /\ writer.cur = "none"
  BY DEF S!Init
<1>2. /\ up.phase = "before" /\ up.open = "none" /\ up.blocks = 0 /\ up.calls = 0 /\ up.n = 0
      /\ parser.pc = "read" /\ parser.blocks = <<>> /\ parser.calls = 0 /\ parser.pend = <<>>
  BY <1>1
<1>3. Flow = <<>>
  <2>1. <<>> \o <<>> = <<>>
    BY Short, Joining
  <2> QED
    BY <1>1, <1>2, <2>1 DEF Flow
<1>4. SaidTypes
  BY <1>1, <1>2, Short DEF SaidTypes
<1>5. Calls(<<>>) = {} /\ Nums(<<>>) = {} /\ Ord(<<>>, Len(<<>>)) = 0 /\ 1..0 = {} /\ UpTo(0, <<>>) = {}
  <2>1. {j \in 1..0 : <<>>[j].typ = "call"} = {}
    OBVIOUS
  <2>2. Cardinality({}) = 0
    BY FS_EmptySet
  <2> QED
    BY <2>1, <2>2, Short DEF Calls, Nums, Ord, UpTo
<1>6. Shown
  <2>1. Sound(<<>>, <<>>)
    BY <1>5, Short DEF Sound
  <2>2. 0 \in 0..Len(said)
    BY <1>1, Short
  <2>3. Nums(shown) \in {1..0, UpTo(0, said)}
    BY <1>1, <1>5
  <2> QED
    BY <1>1, <2>1, <2>2, <2>3 DEF Shown
<1>7. Reached(0, 0)
  <2>1. AsFrames(<<>>, 0, 0) /\ Numbered(<<>>, 0)
    BY <1>5 DEF AsFrames, Numbered
  <2>2. Writing(<<>>, writer)
    BY <1>1 DEF Writing
  <2>3. ~Shows(<<>>, "finish")
    BY Short DEF Shows
  <2>4. Holding(<<>>, <<>>, <<>>, 0, 0)
    BY <1>5, Short DEF Holding, Held
  <2> QED
    BY <1>1, <2>1, <2>2, <2>3, <2>4 DEF Reached
<1>8. InFlight(0, 0, 0, 0)
  <2>1. Climbs("piece", <<>>, 0, 0) /\ Climbs("call", <<>>, 0, 0)
    BY ClimbsNone
  <2>2. ArgsAfter(<<>>, 0..(0 - 1)) /\ \A e \in Of(<<>>) : Labelled(e, said)
    BY Short DEF ArgsAfter
  <2>3. OnWire(0, 0)
    BY <1>1, <1>2, Short DEF OnWire
  <2>4. Counted(0)
    BY <1>2, Short DEF Counted
  <2>5. Attached
    BY <1>2, <1>3, Short DEF Attached, Fed
  <2> QED
    BY <1>2, <1>3, <2>1, <2>2, <2>3, <2>4, <2>5 DEF InFlight
<1>9. EndsQuietly /\ EndIsSent /\ Drained
  BY <1>1, <1>2, <1>3, Short DEF EndsQuietly, Quiet, EndIsSent, Drained
<1>10. Upheld
  <2>1. 0 \in 0..up.n /\ 0 \in 0..up.calls
    BY <1>2
  <2> QED
    BY <1>7, <1>8, <1>9, <2>1 DEF Upheld
<1> QED
  BY <1>1, <1>4, <1>6, <1>10 DEF LossInv

LEMMA LossStep == PipeInv /\ NestInv /\ LossInv /\ [S!Next]_(S!vars) => LossInv'
<1>1. ASSUME LossInv, UNCHANGED S!vars
      PROVE  LossInv'
  <2>1. UNCHANGED <<backend, client, up, said, wire, parser, ch, out, writer, shown, gone, reply>>
    BY <1>1 DEF S!vars
  <2>2. Flow' = Flow /\ (Live' => Live)
    BY <2>1 DEF Flow, Live
  <2>3. Live' => Drained'
    BY <1>1, <2>1, <2>2 DEF LossInv, Upheld, Drained, Silent
  <2> QED
    BY <1>1, <2>1, <2>2, <2>3, QuietLoses
<1> QED
  BY <1>1, UpstreamLoses, ReadLoses, ReadFailsLoses, PassingLoses, ReceiveLoses, ReceiveErrorLoses, FinishLoses
     DEF S!Next, S!ParserStep, S!ForwardStep, S!HandlerStep

LEMMA LossInvariant == Spec => []LossInv
<1>1. Init => LossInv
  <2>1. Init => S!Init
    BY DEF Init
  <2>2. S!Init => client \in {"openai", "anthropic", "gemini"}
    BY DialectsAssumption DEF S!Init
  <2> QED
    BY <2>1, <2>2, LossInit
<1>2. (PipeInv /\ NestInv) /\ LossInv /\ [Next]_vars => LossInv'
  <2>1. [Next]_vars => [S!Next]_(S!vars)
    BY DEF Next, vars, stream, S!vars
  <2> QED
    BY <2>1, LossStep
<1> QED
  BY <1>1, <1>2, NestInvariant, PTL DEF Spec

\* The number of calls grows at a call, and only there.
LEMMA OrdRises ==
  ASSUME NEW s, IsSeq(s)
  PROVE  /\ \A i \in Calls(s) : Ord(s, i) \in Nat /\ Ord(s, i) > 0
         /\ \A i, j \in Calls(s) : i < j => Ord(s, i) < Ord(s, j)
<1> DEFINE To(i) == {j \in 1..i : s[j].typ = "call"}
<1>1. Calls(s) \subseteq Nat /\ \A i \in Calls(s) : i \in 1..i /\ s[i].typ = "call"
  BY DEF IsSeq, Calls
<1>2. \A i \in Nat : IsFiniteSet(To(i)) /\ Cardinality(To(i)) \in Nat /\ Ord(s, i) = Cardinality(To(i))
  <2> TAKE i \in Nat
  <2>1. 1 \in Int /\ i \in Int
    OBVIOUS
  <2>2. IsFiniteSet(1..i)
    BY <2>1, FS_Interval, Zenon
  <2>3. To(i) \subseteq 1..i
    OBVIOUS
  <2>4. Ord(s, i) = Cardinality(To(i))
    BY DEF Ord
  <2> HIDE DEF To
  <2>5. IsFiniteSet(To(i))
    BY <2>2, <2>3, FS_Subset
  <2> QED
    BY <2>4, <2>5, FS_CardinalityType
<1>3. \A i \in Calls(s) : i \in To(i)
  BY <1>1
<1>4. \A i, j \in Calls(s) : i < j => To(i) \subseteq To(j) /\ j \in To(j) /\ j \notin To(i)
  BY <1>1
<1> HIDE DEF To
<1>5. ASSUME NEW i \in Calls(s)
      PROVE  Ord(s, i) \in Nat /\ Ord(s, i) > 0
  <2>1. i \in Nat
    BY <1>1
  <2>2. Cardinality(To(i)) # 0
    BY <1>2, <1>3, <2>1, FS_EmptySet
  <2> QED
    BY <1>2, <2>1, <2>2
<1>6. ASSUME NEW i \in Calls(s), NEW j \in Calls(s), i < j
      PROVE  Ord(s, i) < Ord(s, j)
  <2>1. i \in Nat /\ j \in Nat
    BY <1>1
  <2>2. To(i) \subseteq To(j) /\ j \in To(j) /\ j \notin To(i)
    BY <1>4, <1>6
  <2>3. Cardinality(To(i)) <= Cardinality(To(j)) /\ (Cardinality(To(j)) = Cardinality(To(i)) => To(j) = To(i))
    BY <1>2, <2>1, <2>2, FS_Subset
  <2> QED
    BY <1>2, <2>1, <2>2, <2>3
<1> QED
  BY <1>5, <1>6

\* A frame with pieces belongs to the lane they were said in, and to no other.
LEMMA InItsLane ==
  ASSUME IsSeq(shown), Sound(shown, said), NEW i \in DOMAIN shown, NEW n \in Of(shown[i].ns), NEW lane
  PROVE  S!Belongs(i, lane) <=> said[n] = lane
<1>1. InLane(shown, said, i, n)
  BY DEF Sound
<1>2. \A j : S!Nth(j) = Ord(shown, j)
  BY DEF S!Nth, Ord, S!Cardinality, Cardinality
<1>3. S!Belongs(i, lane) <=> \/ lane = 0 /\ shown[i].typ = "text"
                             \/ \E j \in Calls(shown) : /\ Ord(shown, j) = lane
                                                        /\ i = j \/ (shown[i].typ = "args" /\ shown[i].at = shown[j].at)
  BY <1>2 DEF S!Belongs, Calls
<1>4. CASE shown[i].typ = "text"
  BY <1>1, <1>3, <1>4 DEF InLane, Calls
<1>5. CASE shown[i].typ = "call"
  <2>1. i \in Calls(shown) /\ said[n] = Ord(shown, i)
    BY <1>1, <1>5 DEF InLane, Calls
  <2> QED
    BY <1>3, <1>5, <2>1
<1>6. CASE shown[i].typ = "args"
  <2>1. PICK j \in Calls(shown) : shown[j].at = shown[i].at /\ said[n] = Ord(shown, j)
    BY <1>1, <1>6 DEF InLane
  <2>2. \A k \in Calls(shown) : shown[k].at = shown[i].at => k = j
    BY <2>1 DEF Sound
  <2>3. i \notin Calls(shown)
    BY <1>6 DEF Calls
  <2> QED
    BY <1>3, <1>6, <2>1, <2>2, <2>3
<1> QED
  BY <1>1, <1>4, <1>5, <1>6 DEF InLane

LEMMA HeardIs ==
  ASSUME IsSeq(shown), Sound(shown, said), NEW lane
  PROVE  S!Heard(lane) = {n \in Nums(shown) : said[n] = lane}
<1>1. \A i : S!Pieces(i) = Of(shown[i].ns)
  BY DEF S!Pieces, Of
<1>2. \A n : n \in S!Heard(lane) <=> \E i \in DOMAIN shown : S!Belongs(i, lane) /\ n \in Of(shown[i].ns)
  BY <1>1 DEF S!Heard
<1>3. \A n : n \in Nums(shown) <=> \E i \in DOMAIN shown : n \in Of(shown[i].ns)
  BY DEF Nums
<1>4. \A i \in DOMAIN shown : \A n \in Of(shown[i].ns) : S!Belongs(i, lane) <=> said[n] = lane
  BY InItsLane
<1> QED
  BY <1>2, <1>3, <1>4

LEMMA HeardInOrder ==
  ASSUME IsSeq(shown), Sound(shown, said), NEW lane
  PROVE  S!InOrder(lane)
<1> SUFFICES ASSUME NEW i \in DOMAIN shown, NEW j \in DOMAIN shown, S!Belongs(i, lane), S!Belongs(j, lane),
                    NEW x \in DOMAIN shown[i].ns, NEW y \in DOMAIN shown[j].ns,
                    i < j \/ (i = j /\ x < y)
             PROVE  shown[i].ns[x] < shown[j].ns[y]
  BY DEF S!InOrder
<1> DEFINE n == shown[i].ns[x]
           m == shown[j].ns[y]
<1>1. n \in Of(shown[i].ns) /\ m \in Of(shown[j].ns)
  BY DEF Of
<1> HIDE DEF n, m
<1>2. said[n] = lane /\ said[m] = lane /\ InLane(shown, said, i, n) /\ InLane(shown, said, j, m)
  BY <1>1, InItsLane DEF Sound
<1>3. CASE i = j
  <2>1. Rises(shown[i].ns) /\ x < y
    BY <1>3 DEF Sound, IsSeq
  <2> QED
    BY <1>3, <2>1 DEF Rises
<1>4. CASE i < j
  <2>1. /\ \A k \in Calls(shown) : Ord(shown, k) \in Nat /\ Ord(shown, k) > 0
        /\ \A k, l \in Calls(shown) : k < l => Ord(shown, k) < Ord(shown, l)
    BY OrdRises
  <2>2. \A k \in DOMAIN shown, l \in Calls(shown) : shown[k].typ = "args" => Of(shown[l].ns) = {}
    BY DEF Sound
  <2>3. i \notin Calls(shown)
    <3> SUFFICES ASSUME i \in Calls(shown) PROVE FALSE
      OBVIOUS
    <3>1. lane = Ord(shown, i) /\ lane \in Nat /\ lane > 0
      BY <1>2, <2>1 DEF InLane, Calls
    <3>2. shown[j].typ # "args"
      BY <1>1, <2>2
    <3>3. shown[j].typ # "text"
      BY <1>2, <3>1 DEF InLane
    <3>4. j \in Calls(shown) /\ lane = Ord(shown, j)
      BY <1>2, <3>2, <3>3 DEF InLane, Calls
    <3>5. Ord(shown, i) < Ord(shown, j)
      BY <1>4, <2>1, <3>4
    <3> QED
      BY <3>1, <3>4, <3>5
  <2>4. j \notin Calls(shown)
    <3> SUFFICES ASSUME j \in Calls(shown) PROVE FALSE
      OBVIOUS
    <3>1. lane = Ord(shown, j) /\ lane \in Nat /\ lane > 0
      BY <1>2, <2>1 DEF InLane, Calls
    <3>2. shown[i].typ # "args"
      BY <1>1, <2>2
    <3>3. shown[i].typ # "text"
      BY <1>2, <3>1 DEF InLane
    <3> QED
      BY <1>2, <2>3, <3>2, <3>3 DEF InLane, Calls
  <2>5. shown[i].typ # "call" /\ shown[j].typ # "call"
    BY <2>3, <2>4 DEF Calls
  <2>6. n < m
    BY <1>1, <1>4, <2>5 DEF Sound
  <2> QED
    BY <2>6 DEF n, m
<1> QED
  BY <1>3, <1>4

\* Whatever the upstream's format and the client's dialect, the text and the arguments of
\* each call reach the client in the order the upstream said them, under the call they
\* belong to and with nothing in between left out; and all of it, with every call, has
\* reached a client that stayed when a message the upstream finished is answered.
THEOREM NothingIsLost == Spec => []NothingLost
<1>1. ASSUME PipeInv, LossInv
      PROVE  NothingLost
  <2>1. IsSeq(shown) /\ Sound(shown, said) /\ IsSeq(said) /\ SaidTypes /\ DOMAIN said = 1..Len(said)
    <3>1. IsSeq(shown) /\ Sound(shown, said) /\ IsSeq(said) /\ SaidTypes
      BY <1>1 DEF PipeInv, StreamTypes, LossInv, Shown, SaidTypes
    <3> QED
      BY <3>1 DEF IsSeq
  <2>2. \A lane : S!Spoken(lane) = {n \in 1..Len(said) : said[n] = lane}
    BY <2>1 DEF S!Spoken
  <2>3. \A lane : S!Heard(lane) = {n \in Nums(shown) : said[n] = lane}
    BY <2>1, HeardIs
  <2>4. PICK r \in 0..Len(said) : Nums(shown) \in {1..r, UpTo(r, said)}
    BY <1>1 DEF LossInv, Shown
  <2>5. Len(said) \in Nat /\ r \in Nat /\ r <= Len(said)
    BY <1>1, <2>1, <2>4 DEF LossInv, SaidTypes
  <2>6. ASSUME NEW lane
        PROVE  /\ S!Heard(lane) \subseteq S!Spoken(lane) /\ S!InOrder(lane)
               /\ \A n \in S!Heard(lane), m \in S!Spoken(lane) : m < n => m \in S!Heard(lane)
    <3>1. S!InOrder(lane)
      BY <2>1, HeardInOrder
    <3>2. Nums(shown) \subseteq 1..r
      BY <2>4 DEF UpTo
    <3>3. S!Heard(lane) \subseteq S!Spoken(lane)
      BY <2>2, <2>3, <2>5, <3>2
    <3>4. ASSUME NEW n \in S!Heard(lane), NEW m \in S!Spoken(lane), m < n
          PROVE  m \in S!Heard(lane)
      <4>1. n \in 1..r /\ m \in 1..Len(said) /\ said[n] = lane /\ said[m] = lane /\ n \in Nums(shown)
        BY <2>2, <2>3, <3>2
      <4>2. m \in 1..r
        BY <2>5, <3>4, <4>1
      <4>3. m \in Nums(shown)
        BY <2>4, <4>1, <4>2 DEF UpTo
      <4> QED
        BY <2>3, <4>1, <4>3
    <3> QED
      BY <3>1, <3>3, <3>4
  <2>7. reply = "ok" /\ ~gone /\ up.phase = "complete" =>
          /\ S!Nth(Len(shown)) = up.calls
          /\ \A lane : S!Heard(lane) = S!Spoken(lane)
    <3> SUFFICES ASSUME AllShown
                 PROVE  S!Nth(Len(shown)) = up.calls /\ \A lane : S!Heard(lane) = S!Spoken(lane)
      BY <1>1 DEF LossInv
    <3>1. Nums(shown) = 1..Len(said)
      BY <2>1 DEF AllShown, SaidTypes
    <3>2. S!Nth(Len(shown)) = Ord(shown, Len(shown))
      BY DEF S!Nth, Ord, S!Cardinality, Cardinality
    <3> QED
      BY <2>2, <2>3, <3>1, <3>2 DEF AllShown
  <2> QED
    BY <2>6, <2>7 DEF NothingLost, S!NothingLost
<1> QED
  BY <1>1, NestInvariant, LossInvariant, PTL
=============================================================================
