--------------------------- MODULE ChannelsProofs ---------------------------
(* Proofs about Channels for any channels in any order, any kinds of Base and *)
(* any number of writes, outages and failures.                                *)
EXTENDS Channels, TLAPS, FiniteSetTheorems

-----------------------------------------------------------------------------
(* The order of the channels and the documents.                               *)

OnePerChannel(doc) == \A e, f \in doc : e.chan = f.chan => e = f

\* The channels that thread t has behind it.
Before(t) == {Order[i] : i \in 1..pos[t] - 1}

\* No channel comes twice in fileWriter's order.
LEMMA OrderIsInjective ==
  /\ DOMAIN Order = 1..Len(Order) /\ Len(Order) \in Nat \ {0}
  /\ \A i, j \in 1..Len(Order) : Order[i] = Order[j] => i = j
<1>1. DOMAIN Order = 1..Len(Order) /\ Len(Order) \in Nat \ {0} /\ Chans = {Order[i] : i \in 1..Len(Order)}
  BY ChannelAssumption DEF Chans
<1>2. IsFiniteSet(1..Len(Order)) /\ Cardinality(1..Len(Order)) = Len(Order)
  BY <1>1, FS_Interval
<1>3. Order \in [1..Len(Order) -> Chans]
  BY <1>1, ChannelAssumption
<1>4. Order \in Surjection(1..Len(Order), Chans)
  BY <1>1, <1>3 DEF Surjection
<1>5. Order \in Injection(1..Len(Order), Chans)
  BY <1>2, <1>4, ChannelAssumption, FS_Surjection
<1> QED BY <1>1, <1>5 DEF Injection, IsInjective

LEMMA ChansFinite == IsFiniteSet(Chans)
<1>1. DOMAIN Order = 1..Len(Order) /\ Len(Order) \in Nat /\ Chans = {Order[i] : i \in 1..Len(Order)}
  BY ChannelAssumption DEF Chans
<1>2. Order \in Surjection(1..Len(Order), Chans)
  BY <1>1, ChannelAssumption DEF Surjection
<1> QED BY <1>1, <1>2, FS_Interval, FS_Surjection

\* A channel is a group and an index, 0 or 1.
LEMMA ChannelForm ==
  \A c \in Chans :
    /\ c.index \in {0, 1} /\ c.group \in {"Raw", "Image", "PreviewImage", "PreviewHistogram"}
    /\ c = [group |-> c.group, index |-> c.index]
<1> TAKE c \in Chans
<1>1. PICK i \in 1..Len(Order) : c = Order[i]
  BY OrderIsInjective DEF Chans
<1>s. \A S : \A s \in Seq(S) : \A k \in 1..Len(s) : s[k] \in S
  OBVIOUS
<1>2. c \in [group : {"Raw", "Image", "PreviewImage", "PreviewHistogram"}, index : {0, 1}]
  BY <1>1, <1>s, ChannelAssumption
<1>3. \A G, I : c \in [group : G, index : I] =>
        c.group \in G /\ c.index \in I /\ c = [group |-> c.group, index |-> c.index]
  OBVIOUS
<1> QED BY <1>2, <1>3

\* A document with one entry per channel has as many entries as channels.
LEMMA DocumentSize ==
  ASSUME NEW doc, doc \subseteq Entries, OnePerChannel(doc)
  PROVE  Cardinality(ChansOf(doc)) = Cardinality(doc)
<1> DEFINE f == [e \in doc |-> e.chan]
<1>1. ChansOf(doc) \subseteq Chans
  BY DEF ChansOf, Entries
<1>2. f \in Injection(doc, Chans)
  BY <1>1 DEF Injection, IsInjective, OnePerChannel, ChansOf
<1>3. IsFiniteSet(doc)
  BY <1>2, ChansFinite, FS_Injection
<1>4. f \in Surjection(doc, ChansOf(doc)) /\ f \in Injection(doc, ChansOf(doc))
  BY DEF Injection, IsInjective, Surjection, OnePerChannel, ChansOf
<1> QED BY <1>3, <1>4, FS_Surjection

-----------------------------------------------------------------------------
(* Types, and what the place of a thread says of its variables.               *)

Operations == {"none", "enable", "base", "choice", "data", "apply", "refresh"}

ParamTypes ==
  /\ write \in [Chans -> BOOLEAN] /\ base \in [Chans -> Kinds] /\ stream \in [Chans -> 0..3]
  /\ exists \in [Chans -> BOOLEAN] /\ format \in [Chans -> Formats] /\ sampling \in BOOLEAN

ServalTypes ==
  /\ destination \in [doc : SUBSET Entries, holes : BOOLEAN] /\ isSet \in BOOLEAN
  /\ read \in [Chans -> BOOLEAN]

ThreadTypes ==
  /\ pc \in [Threads -> Labels] /\ pos \in [Threads -> 1..Len(Order) + 1]
  /\ seen \in [Threads -> 0..3] /\ entry \in [Threads -> Entries]
  /\ form \in [Threads -> SUBSET Entries]

CountTypes ==
  /\ missed \in BOOLEAN
  /\ writes \in 0..MaxWrites /\ outages \in 0..MaxOutages /\ failures \in 0..MaxFailures

LastTypes == last \in [Threads -> [kind : Operations, status : {"ok", "error"}]]

HistoryTypes ==
  /\ sent \in BOOLEAN /\ clean \in [Threads -> BOOLEAN] /\ failed \in BOOLEAN
  /\ torn \in [Threads -> BOOLEAN] /\ mixed \in BOOLEAN

Types ==
  ParamTypes /\ ServalTypes /\ ThreadTypes /\ CountTypes /\ LastTypes /\ HistoryTypes

\* Where a thread makes its document it is at one of the channels, those behind
\* it are in the document once; elsewhere it has none.
Placed(t) ==
  /\ pc[t] \in {"check", "base", "format"} => pos[t] <= Len(Order)
  /\ pc[t] \in {"rest", "get"} => pos[t] = 1
  /\ pc[t] \in {"preview", "put"} => pos[t] > Len(Order) /\ form[t] # {}
  /\ pc[t] \notin Making => form[t] = {}
  /\ pc[t] = "check" => t = Port
  /\ pc[t] = "format" => entry[t].chan = Current(t) /\ Current(t).group # "Raw"
  /\ OnePerChannel(form[t]) /\ ChansOf(form[t]) \subseteq Before(t)

Shape == Types /\ \A t \in Threads : Placed(t)

LEMMA StreamForType ==
  /\ \A k \in Kinds, s \in 0..3 : StreamFor(k, s) \in 0..3
  /\ \A k \in Kinds, b \in BOOLEAN : ExistsFor(k, b) \in BOOLEAN
BY DEF Kinds, StreamFor, ExistsFor

LEMMA CurrentType ==
  ASSUME Types, NEW t \in Threads, pos[t] <= Len(Order)
  PROVE  Current(t) \in Chans
BY OrderIsInjective DEF Types, ThreadTypes, Current, Chans

LEMMA NoEntryType == NoEntry \in Entries
<1>1. Order[1] \in Chans
  BY OrderIsInjective DEF Chans
<1>2. "" \in Kinds /\ "json" \in Formats
  BY DEF Kinds, Formats
<1> QED BY <1>1, <1>2 DEF NoEntry, Entries

LEMMA HistoryStep ==
  ASSUME Types, History
  PROVE  HistoryTypes'
<1> USE DEF Types, HistoryTypes, History
<1>1. clean' \in [Threads -> BOOLEAN]
  OBVIOUS
<1>2. torn' \in [Threads -> BOOLEAN]
  OBVIOUS
<1>3. sent' \in BOOLEAN /\ failed' \in BOOLEAN
  OBVIOUS
<1>4. mixed' \in BOOLEAN
  OBVIOUS
<1> QED BY <1>1, <1>2, <1>3, <1>4

LEMMA GotoType ==
  ASSUME Types, NEW t \in Threads, NEW l \in Labels, Goto(t, l)
  PROVE  pc' \in [Threads -> Labels]
BY DEF Types, ThreadTypes, Goto

LEMMA NoWorkType ==
  ASSUME Types, NEW t \in Threads, NoWork(t), pc' \in [Threads -> Labels]
  PROVE  ThreadTypes'
<1>1. 1 \in 1..Len(Order) + 1
  BY OrderIsInjective
<1>2. pos' \in [Threads -> 1..Len(Order) + 1] /\ seen' \in [Threads -> 0..3]
  BY <1>1 DEF Types, ThreadTypes, NoWork
<1>3. entry' \in [Threads -> Entries] /\ form' \in [Threads -> SUBSET Entries]
  BY NoEntryType DEF Types, ThreadTypes, NoWork
<1> QED BY <1>2, <1>3 DEF ThreadTypes

LEMMA ReturnType ==
  ASSUME Types, NEW t \in Threads, NEW s \in {"ok", "error"}, Return(t, s)
  PROVE  ThreadTypes' /\ LastTypes'
<1>1. pc' \in [Threads -> Labels]
  BY GotoType DEF Return, Labels
<1>2. LastTypes'
  BY DEF Types, LastTypes, Return
<1> QED BY <1>1, <1>2, NoWorkType DEF Return

LEMMA NextChannelType ==
  ASSUME Types, NEW t \in Threads, NextChannel(t), pos[t] <= Len(Order),
         form' \in [Threads -> SUBSET Entries]
  PROVE  ThreadTypes'
<1>1. pc' \in [Threads -> Labels]
  BY GotoType DEF NextChannel, Labels
<1>2. pos' \in [Threads -> 1..Len(Order) + 1]
  BY OrderIsInjective DEF Types, ThreadTypes, NextChannel
<1>3. seen' \in [Threads -> 0..3] /\ entry' \in [Threads -> Entries]
  BY NoEntryType DEF Types, ThreadTypes, NextChannel
<1> QED BY <1>1, <1>2, <1>3 DEF ThreadTypes

LEMMA InitShape == Init => Shape
<1> SUFFICES ASSUME Init PROVE Shape
  OBVIOUS
<1>1. ParamTypes
  <2>1. PICK k \in Bases \cap {"file", "gone", "tcp"} : base = [c \in Chans |-> k]
    BY DEF Init
  <2>2. base \in [Chans -> Kinds] /\ k \in Kinds
    BY <2>1 DEF Kinds
  <2>3. stream \in [Chans -> 0..3] /\ exists \in [Chans -> BOOLEAN]
    <3>0. \A c \in Chans : base[c] \in Kinds
      BY <2>2
    <3>1. \A c \in Chans : StreamFor(base[c], 0) \in 0..3
      BY <3>0, StreamForType
    <3>2. exists \in [Chans -> BOOLEAN]
      <4>1. \A c \in Chans : ExistsFor(base[c], FALSE) \in BOOLEAN
        BY <3>0, StreamForType
      <4>2. exists = [c \in Chans |-> ExistsFor(base[c], FALSE)]
        BY DEF Init
      <4> QED BY ONLY <4>1, <4>2
    <3>3. stream \in [Chans -> 0..3]
      BY <3>1 DEF Init
    <3> QED BY <3>2, <3>3
  <2> QED BY <2>2, <2>3 DEF Init, ParamTypes, Formats
<1>2. ServalTypes
  BY DEF Init, ServalTypes, Nowhere
<1>3. ThreadTypes
  BY OrderIsInjective, NoEntryType DEF Init, ThreadTypes, Labels
<1>4. CountTypes /\ LastTypes
  <2>1. CountTypes
    <3>1. MaxWrites \in Nat /\ MaxOutages \in Nat /\ MaxFailures \in Nat
      BY ChannelAssumption
    <3>2. 0 \in 0..MaxWrites /\ 0 \in 0..MaxOutages /\ 0 \in 0..MaxFailures
      BY <3>1
    <3> QED BY <3>2 DEF Init, CountTypes
  <2>2. [kind |-> "none", status |-> "ok"] \in [kind : Operations, status : {"ok", "error"}]
    BY DEF Operations
  <2>3. LastTypes
    BY <2>2 DEF Init, LastTypes
  <2> QED BY <2>1, <2>3
<1>5. HistoryTypes
  BY DEF Init, HistoryTypes
<1>6. \A t \in Threads : Placed(t)
  BY OrderIsInjective DEF Init, Placed, OnePerChannel, ChansOf, Making
<1> QED BY <1>1, <1>2, <1>3, <1>4, <1>5, <1>6 DEF Shape, Types

LEMMA FailuresType ==
  ASSUME Types, Answers \/ Fails
  PROVE  failures' \in 0..MaxFailures
<1> DEFINE m == failures'
<1>1. m = failures \/ (failures < MaxFailures /\ m = failures + 1)
  BY DEF Answers, Fails
<1> HIDE DEF m
<1>2. m \in 0..MaxFailures
  BY <1>1, ChannelAssumption DEF Types, CountTypes
<1> QED BY <1>2 DEF m

\* The requests.
LEMMA RequestTypes ==
  ASSUME Types, NEW t \in Threads, Placed(t), Request(t)
  PROVE  Types'
<1>h. HistoryTypes'
  BY HistoryStep DEF Request, OpenChannel, ReadBase, ReadFormat, AllRead, PreviewSettings, Put,
     GetServer
<1>c. CountTypes'
  <2>1. UNCHANGED counts /\ failures' \in 0..MaxFailures
    <3>1. UNCHANGED failures => failures' \in 0..MaxFailures
      BY DEF Types, CountTypes
    <3> QED BY <3>1, FailuresType DEF Request, OpenChannel, ReadBase, ReadFormat, AllRead,
            PreviewSettings, Put, GetServer, Still
  <2> QED BY <2>1 DEF Types, CountTypes, counts
<1>f. \A e \in Entries : form' = [form EXCEPT ![t] = @ \cup {e}] =>
        form' \in [Threads -> SUBSET Entries]
  BY DEF Types, ThreadTypes
<1>1. CASE OpenChannel(t)
  <2>1. ThreadTypes'
    <3>1. /\ pos[t] <= Len(Order) /\ Current(t) \in Chans
          /\ Goto(t, "base") => pc' \in [Threads -> Labels]
      BY <1>1, CurrentType, GotoType DEF OpenChannel, Labels
    <3>2. CASE NextChannel(t)
      BY <1>1, <3>1, <3>2, NextChannelType DEF OpenChannel, Types, ThreadTypes
    <3>3. CASE Goto(t, "base")
      <4>1. pos[t] <= Len(Order) /\ \/ NextChannel(t)
                                    \/ /\ seen' = [seen EXCEPT ![t] = stream[Current(t)]]
                                       /\ UNCHANGED <<pos, entry, form>>
        BY <1>1 DEF OpenChannel
      <4>2. stream[Current(t)] \in 0..3
        BY <3>1, <1>1 DEF OpenChannel, Types, ParamTypes
      <4>3. CASE seen' = [seen EXCEPT ![t] = stream[Current(t)]] /\ UNCHANGED <<pos, entry, form>>
        BY <3>1, <3>3, <4>1, <4>2, <4>3 DEF Types, ThreadTypes
      <4> QED BY <3>2, <4>1, <4>3
    <3> QED BY <1>1, <3>2, <3>3 DEF OpenChannel
  <2> QED BY <1>1, <1>h, <1>c, <2>1
          DEF OpenChannel, Types, ParamTypes, ServalTypes, LastTypes, params, serval
<1>2. CASE ReadBase(t)
  <2>1. ThreadTypes' /\ LastTypes'
    <3> DEFINE c == Current(t)
               split == c.group = "Raw" /\ base[c] # "tcp" /\ seen[t] = 0
               e == [chan |-> c, base |-> base[c], format |-> "json", split |-> split]
    <3>1. pos[t] <= Len(Order) /\ c \in Chans
      BY <1>2, CurrentType DEF ReadBase, Placed
    <3>2. split \in BOOLEAN /\ base[c] \in Kinds /\ "json" \in Formats
      BY <3>1 DEF Types, ParamTypes, Formats
    <3>3. e \in Entries
      <4> HIDE DEF c, split
      <4> QED BY <3>1, <3>2 DEF Entries
    <3>4. \/ Goto(t, "format") /\ entry' = [entry EXCEPT ![t] = e] /\ UNCHANGED <<pos, seen, form, last>>
          \/ Return(t, "error")
          \/ NextChannel(t) /\ form' = [form EXCEPT ![t] = @ \cup {e}] /\ UNCHANGED last
      BY <1>2 DEF ReadBase
    <3> HIDE DEF e
    <3>5. CASE Goto(t, "format") /\ entry' = [entry EXCEPT ![t] = e] /\ UNCHANGED <<pos, seen, form, last>>
      BY <3>3, <3>5, GotoType DEF Types, ThreadTypes, LastTypes, Labels
    <3>6. CASE Return(t, "error")
      BY <3>6, ReturnType
    <3>7. CASE NextChannel(t) /\ form' = [form EXCEPT ![t] = @ \cup {e}] /\ UNCHANGED last
      BY <1>f, <3>1, <3>3, <3>7, NextChannelType DEF Types, LastTypes
    <3> QED BY <3>4, <3>5, <3>6, <3>7
  <2> QED BY <1>2, <1>h, <1>c, <2>1 DEF ReadBase, Types, ParamTypes, ServalTypes, params, serval
<1>3. CASE ReadFormat(t)
  <2> DEFINE c == Current(t)
             f == FormatFor(c, entry[t].base)
             e == [entry[t] EXCEPT !.format = f]
  <2>1. pos[t] <= Len(Order) /\ c \in Chans
    BY <1>3, CurrentType DEF ReadFormat, Placed
  <2>2. f \in Formats
    BY <2>1 DEF Types, ParamTypes, FormatFor, Formats
  <2>3. e \in Entries
    <3> HIDE DEF f
    <3> QED BY <2>2 DEF Types, ThreadTypes, Entries
  <2>4. format' \in [Chans -> Formats]
    <3> HIDE DEF f
    <3>1. format' = [format EXCEPT ![c] = f]
      BY <1>3 DEF ReadFormat, f
    <3> QED BY <2>2, <3>1 DEF Types, ParamTypes
  <2>5. ThreadTypes' /\ LastTypes'
    <3>1. \/ Return(t, "error")
          \/ NextChannel(t) /\ form' = [form EXCEPT ![t] = @ \cup {e}] /\ UNCHANGED last
      BY <1>3 DEF ReadFormat
    <3> HIDE DEF e
    <3>2. CASE Return(t, "error")
      BY <3>2, ReturnType
    <3>3. CASE NextChannel(t) /\ form' = [form EXCEPT ![t] = @ \cup {e}] /\ UNCHANGED last
      BY <1>f, <2>1, <2>3, <3>3, NextChannelType DEF Types, LastTypes
    <3> QED BY <3>1, <3>2, <3>3
  <2> QED BY <1>3, <1>h, <1>c, <2>4, <2>5 DEF ReadFormat, Types, ParamTypes, ServalTypes, serval
<1>4. CASE AllRead(t) \/ PreviewSettings(t)
  <2>1. \/ Return(t, "ok") \/ Return(t, "error")
        \/ /\ \E l \in {"preview", "put"} : Goto(t, l)
           /\ UNCHANGED <<pos, work, last>>
    BY <1>4 DEF AllRead, PreviewSettings
  <2>2. ThreadTypes' /\ LastTypes'
    <3>1. CASE Return(t, "ok") \/ Return(t, "error")
      BY <3>1, ReturnType
    <3>2. CASE (\E l \in {"preview", "put"} : Goto(t, l)) /\ UNCHANGED <<pos, work, last>>
      BY <3>2, GotoType DEF Types, ThreadTypes, LastTypes, Labels, work
    <3> QED BY <2>1, <3>1, <3>2
  <2> QED BY <1>4, <1>h, <1>c, <2>2
          DEF AllRead, PreviewSettings, Types, ParamTypes, ServalTypes, params, serval
<1>5. CASE Put(t)
  <2>1. Return(t, "ok") \/ Return(t, "error")
    BY <1>5 DEF Put
  <2>2. \/ UNCHANGED serval
        \/ \E h \in BOOLEAN : destination' = [doc |-> form[t], holes |-> h] /\ isSet' = TRUE
    BY <1>5 DEF Put
  <2>3. ServalTypes'
    <3>1. form[t] \in SUBSET Entries /\ UNCHANGED read
      BY <1>5 DEF Put, Types, ThreadTypes
    <3>2. CASE \E h \in BOOLEAN : destination' = [doc |-> form[t], holes |-> h] /\ isSet' = TRUE
      BY <3>1, <3>2 DEF Types, ServalTypes
    <3>3. CASE UNCHANGED serval
      BY <3>1, <3>3 DEF Types, ServalTypes, serval
    <3> QED BY <2>2, <3>2, <3>3
  <2> QED BY <1>5, <1>h, <1>c, <2>1, <2>3, ReturnType DEF Put, Types, ParamTypes, params
<1>6. CASE GetServer(t)
  <2>1. ThreadTypes'
    BY <1>6, GotoType DEF GetServer, Types, ThreadTypes, work, Labels
  <2>2. LastTypes'
    BY <1>6 DEF GetServer, Types, LastTypes
  <2>3. ServalTypes'
    <3>1. read' = [c \in Chans |-> c.index < Length(c.group)] => read' \in [Chans -> BOOLEAN]
      OBVIOUS
    <3> QED BY <1>6, <3>1 DEF GetServer, Types, ServalTypes, serval
  <2> QED BY <1>6, <1>h, <1>c, <2>1, <2>2, <2>3 DEF GetServer, Types, ParamTypes, params
<1> QED BY <1>1, <1>2, <1>3, <1>4, <1>5, <1>6 DEF Request

\* The other steps.
LEMMA OtherTypes ==
  ASSUME Types, Placed(Port),
         WriteEnable \/ WriteBase \/ CheckBase \/ WriteChoice \/ Apply \/ PollStarts \/ Outage
  PROVE  Types'
<1>h. HistoryTypes'
  BY HistoryStep DEF WriteEnable, WriteBase, CheckBase, WriteChoice, Apply, Write, PollStarts, Outage
<1>c. ASSUME Write("enable", "get") \/ Write("base", "check") \/ Write("choice", "rest")
             \/ Write("data", "open") \/ Write("apply", "open")
      PROVE  /\ CountTypes' /\ LastTypes' /\ ServalTypes' /\ pc' \in [Threads -> Labels]
             /\ UNCHANGED work
  <2>1. PICK k \in Operations, l \in Labels : Write(k, l)
    BY <1>c DEF Operations, Labels
  <2>2. CountTypes'
    <3> DEFINE w == writes'
    <3>1. w = writes + 1 /\ writes < MaxWrites
      BY <2>1 DEF Write
    <3> HIDE DEF w
    <3>2. w \in 0..MaxWrites
      BY <3>1, ChannelAssumption DEF Types, CountTypes
    <3> QED BY <2>1, <3>2 DEF Write, Types, CountTypes, w
  <2>3. LastTypes'
    BY <2>1 DEF Write, Types, LastTypes, Threads
  <2>4. ServalTypes' /\ pc' \in [Threads -> Labels] /\ UNCHANGED work
    BY <2>1, GotoType DEF Write, Types, ServalTypes, serval, Threads
  <2> QED BY <2>2, <2>3, <2>4
<1>w. UNCHANGED work => UNCHANGED seen /\ UNCHANGED entry /\ UNCHANGED form
  BY DEF work
<1>1. CASE WriteEnable
  BY <1>1, <1>h, <1>c, <1>w DEF WriteEnable, Types, ParamTypes, ThreadTypes
<1>2. CASE WriteBase
  <2>1. PICK c \in Chans : \E k \in Bases \ {base[c]} :
          /\ base' = [base EXCEPT ![c] = k]
          /\ pos' = [pos EXCEPT ![Port] = CHOOSE i \in DOMAIN Order : Order[i] = c]
    BY <1>2 DEF WriteBase
  <2>2. (CHOOSE i \in DOMAIN Order : Order[i] = c) \in 1..Len(Order) + 1
    <3>1. (CHOOSE i \in DOMAIN Order : Order[i] = c) \in 1..Len(Order)
      BY OrderIsInjective DEF Chans
    <3> QED BY <3>1, OrderIsInjective
  <2>3. pos' \in [Threads -> 1..Len(Order) + 1]
    BY <2>1, <2>2 DEF Types, ThreadTypes, Threads
  <2>4. base' \in [Chans -> Kinds]
    BY <2>1, ChannelAssumption DEF Types, ParamTypes
  <2> QED BY <1>2, <1>h, <1>c, <1>w, <2>3, <2>4 DEF WriteBase, Types, ParamTypes, ThreadTypes
<1>3. CASE CheckBase
  <2>1. Current(Port) \in Chans
    BY <1>3, CurrentType DEF CheckBase, Placed, Threads
  <2>2. base[Current(Port)] \in Kinds
    BY <2>1 DEF Types, ParamTypes
  <2>3. \A s \in 0..3 : StreamFor(base[Current(Port)], s) \in 0..3
    BY <2>2, StreamForType
  <2>4. \A b \in BOOLEAN : ExistsFor(base[Current(Port)], b) \in BOOLEAN
    BY <2>2, StreamForType
  <2>5. stream' \in [Chans -> 0..3]
    BY <1>3, <2>1, <2>3 DEF CheckBase, Types, ParamTypes
  <2>6. exists' \in [Chans -> BOOLEAN]
    BY <1>3, <2>1, <2>4 DEF CheckBase, Types, ParamTypes
  <2>7. pos' \in [Threads -> 1..Len(Order) + 1] /\ pc' \in [Threads -> Labels]
    <3>1. 1 \in 1..Len(Order) + 1
      BY OrderIsInjective
    <3>2. pos' \in [Threads -> 1..Len(Order) + 1]
      BY <1>3, <3>1 DEF CheckBase, Types, ThreadTypes
    <3>3. pc' \in [Threads -> Labels]
      BY <1>3, GotoType DEF CheckBase, Threads, Labels
    <3> QED BY <3>2, <3>3
  <2>8. ParamTypes' /\ ThreadTypes'
    BY <1>3, <1>w, <2>5, <2>6, <2>7 DEF CheckBase, Types, ParamTypes, ThreadTypes
  <2> QED BY <1>3, <1>h, <2>8
          DEF CheckBase, Types, ServalTypes, CountTypes, LastTypes, serval, counts, Still
<1>4. CASE WriteChoice
  BY <1>4, <1>h, <1>c, <1>w DEF WriteChoice, Types, ParamTypes, ThreadTypes
<1>5. CASE Apply
  BY <1>5, <1>h, <1>c, <1>w DEF Apply, Types, ParamTypes, ThreadTypes, params
<1>6. CASE PollStarts
  <2>1. pc' \in [Threads -> Labels]
    BY <1>6, GotoType DEF PollStarts, Threads, Labels
  <2>2. LastTypes'
    BY <1>6 DEF PollStarts, Types, LastTypes, Operations, Threads
  <2> QED BY <1>6, <1>h, <2>1, <2>2
          DEF PollStarts, Types, ParamTypes, ServalTypes, ThreadTypes, CountTypes, params, serval, work
<1>7. CASE Outage
  <2>1. CountTypes'
    <3> DEFINE o == outages'
    <3>1. o = outages + 1 /\ outages < MaxOutages
      BY <1>7 DEF Outage
    <3> HIDE DEF o
    <3>2. o \in 0..MaxOutages
      BY <3>1, ChannelAssumption DEF Types, CountTypes
    <3> QED BY <1>7, <3>2 DEF Outage, Types, CountTypes, o
  <2>2. ServalTypes'
    <3>1. Nowhere \in [doc : SUBSET Entries, holes : BOOLEAN]
      BY DEF Nowhere
    <3> QED BY <1>7, <3>1 DEF Outage, Types, ServalTypes, serval
  <2> QED BY <1>7, <1>h, <2>1, <2>2 DEF Outage, Types, ParamTypes, ThreadTypes, LastTypes, params, work
<1> QED BY <1>1, <1>2, <1>3, <1>4, <1>5, <1>6, <1>7

-----------------------------------------------------------------------------
(* What a step does to the places of the threads.                             *)

\* Thread u is where it was, with what it had.
Untouched(u) ==
  /\ pc'[u] = pc[u] /\ pos'[u] = pos[u] /\ seen'[u] = seen[u] /\ entry'[u] = entry[u]
  /\ form'[u] = form[u] /\ last'[u] = last[u]

\* Thread t is done with its document.
Returned(t, status) ==
  /\ pc'[t] \in {"rest", "get"} /\ (pc'[t] = "rest" => status = "error")
  /\ pos'[t] = 1 /\ form'[t] = {}
  /\ last'[t].kind = last[t].kind /\ last'[t].status = status

\* Thread t goes on to its next channel.
WentOn(t) ==
  /\ pos[t] <= Len(Order) /\ pc'[t] = "open" /\ pos'[t] = pos[t] + 1 /\ last'[t] = last[t]

LEMMA ReturnMoves ==
  ASSUME Types, NEW t \in Threads, NEW s \in {"ok", "error"}, Return(t, s)
  PROVE  Returned(t, s) /\ \A u \in Threads \ {t} : Untouched(u)
<1>1. last' = [last EXCEPT ![t].status = s]
  BY DEF Return
<1>2. last'[t].kind = last[t].kind /\ last'[t].status = s
  BY <1>1 DEF Types, LastTypes
<1> QED BY <1>1, <1>2
        DEF Return, NoWork, Goto, Types, ThreadTypes, LastTypes, Returned, Untouched

LEMMA NextChannelMoves ==
  ASSUME Types, NEW t \in Threads, pos[t] <= Len(Order), NextChannel(t), UNCHANGED last,
         NEW d, form' = [form EXCEPT ![t] = d]
  PROVE  WentOn(t) /\ form'[t] = d /\ \A u \in Threads \ {t} : Untouched(u)
BY DEF NextChannel, Goto, Types, ThreadTypes, LastTypes, WentOn, Untouched

\* The entries of the requests.
EntryRead(t) ==
  LET split == Current(t).group = "Raw" /\ base[Current(t)] # "tcp" /\ seen[t] = 0
  IN [chan |-> Current(t), base |-> base[Current(t)], format |-> "json", split |-> split]
EntryFinished(t) ==
  [entry[t] EXCEPT !.format = FormatFor(Current(t), entry[t].base)]

LEMMA OpenChannelMoves ==
  ASSUME Types, NEW t \in Threads, OpenChannel(t)
  PROVE  /\ \A u \in Threads \ {t} : Untouched(u)
         /\ pos[t] <= Len(Order) /\ form'[t] = form[t] /\ last'[t] = last[t]
         /\ UNCHANGED <<params, serval, counts, failures>>
         /\ \/ ~write[Current(t)] /\ WentOn(t)
            \/ /\ write[Current(t)] /\ pc'[t] = "base" /\ pos'[t] = pos[t]
               /\ seen'[t] = stream[Current(t)]
<1>1. pos[t] <= Len(Order) /\ UNCHANGED <<params, serval, counts, failures, last>>
  BY DEF OpenChannel, Still
<1>2. CASE ~write[Current(t)] /\ NextChannel(t) /\ UNCHANGED form
  <2>1. form' = [form EXCEPT ![t] = form[t]]
    BY <1>2 DEF Types, ThreadTypes
  <2> QED BY <1>1, <1>2, <2>1, NextChannelMoves
<1>3. CASE /\ write[Current(t)] /\ Goto(t, "base")
           /\ seen' = [seen EXCEPT ![t] = stream[Current(t)]] /\ UNCHANGED <<pos, entry, form>>
  BY <1>1, <1>3 DEF Goto, Types, ThreadTypes, Untouched
<1> QED BY <1>2, <1>3 DEF OpenChannel

LEMMA ReadBaseMoves ==
  ASSUME Types, NEW t \in Threads, Placed(t), ReadBase(t)
  PROVE  /\ \A u \in Threads \ {t} : Untouched(u)
         /\ pos[t] <= Len(Order) /\ UNCHANGED <<params, serval, counts, failures>>
         /\ \/ /\ Current(t).group # "Raw" /\ pc'[t] = "format" /\ entry'[t] = EntryRead(t)
               /\ pos'[t] = pos[t] /\ form'[t] = form[t] /\ last'[t] = last[t]
            \/ Returned(t, "error")
            \/ /\ Current(t).group = "Raw" /\ WentOn(t)
               /\ form'[t] = form[t] \cup {EntryRead(t)}
<1> DEFINE e == EntryRead(t)
<1>1. pos[t] <= Len(Order) /\ UNCHANGED <<params, serval, counts, failures>>
  BY DEF ReadBase, Still, Placed
<1>2. \/ /\ Current(t).group # "Raw" /\ Goto(t, "format") /\ entry' = [entry EXCEPT ![t] = e]
         /\ UNCHANGED <<pos, seen, form, last>>
      \/ Return(t, "error")
      \/ /\ Current(t).group = "Raw" /\ NextChannel(t)
         /\ form' = [form EXCEPT ![t] = @ \cup {e}] /\ UNCHANGED last
  BY DEF ReadBase, EntryRead
<1> HIDE DEF e
<1>3. CASE /\ Current(t).group # "Raw" /\ Goto(t, "format") /\ entry' = [entry EXCEPT ![t] = e]
           /\ UNCHANGED <<pos, seen, form, last>>
  BY <1>1, <1>3 DEF Goto, Types, ThreadTypes, LastTypes, Untouched, e
<1>4. CASE Return(t, "error")
  BY <1>1, <1>4, ReturnMoves
<1>5. CASE /\ Current(t).group = "Raw" /\ NextChannel(t)
           /\ form' = [form EXCEPT ![t] = @ \cup {e}] /\ UNCHANGED last
  BY <1>1, <1>5, NextChannelMoves DEF e
<1> QED BY <1>2, <1>3, <1>4, <1>5

LEMMA ReadFormatMoves ==
  ASSUME Types, NEW t \in Threads, Placed(t), ReadFormat(t)
  PROVE  /\ \A u \in Threads \ {t} : Untouched(u)
         /\ pos[t] <= Len(Order) /\ UNCHANGED <<write, base, stream, serval, counts, failures>>
         /\ \/ Returned(t, "error")
            \/ /\ pc[t] = "format" /\ EntryFinished(t).format # "bad" /\ WentOn(t)
               /\ form'[t] = form[t] \cup {EntryFinished(t)}
<1> DEFINE e == EntryFinished(t)
<1>0. EntryFinished(t).format = FormatFor(Current(t), entry[t].base)
  BY DEF EntryFinished, Types, ThreadTypes, Entries
<1>1. pos[t] <= Len(Order) /\ UNCHANGED <<write, base, stream, serval, counts, failures>>
  BY DEF ReadFormat, Still, Placed
<1>2. \/ Return(t, "error")
      \/ /\ FormatFor(Current(t), entry[t].base) # "bad" /\ NextChannel(t)
         /\ form' = [form EXCEPT ![t] = @ \cup {e}] /\ UNCHANGED last
  BY DEF ReadFormat, EntryFinished
<1>p. pc[t] = "format"
  BY DEF ReadFormat
<1> HIDE DEF e
<1>3. CASE Return(t, "error")
  BY <1>1, <1>3, ReturnMoves
<1>4. CASE /\ FormatFor(Current(t), entry[t].base) # "bad" /\ NextChannel(t)
           /\ form' = [form EXCEPT ![t] = @ \cup {e}] /\ UNCHANGED last
  BY <1>p, <1>0, <1>1, <1>4, NextChannelMoves DEF e
<1> QED BY <1>2, <1>3, <1>4

LEMMA AllReadMoves ==
  ASSUME Types, NEW t \in Threads, AllRead(t)
  PROVE  /\ \A u \in Threads \ {t} : Untouched(u)
         /\ pc[t] = "open" /\ pos[t] > Len(Order)
         /\ UNCHANGED <<params, serval, counts, failures>>
         /\ \/ form[t] = {} /\ Returned(t, "ok")
            \/ /\ form[t] # {} /\ pc'[t] \in {"preview", "put"}
               /\ pos'[t] = pos[t] /\ form'[t] = form[t] /\ last'[t] = last[t]
<1>1. UNCHANGED <<params, serval, counts, failures>> /\ pc[t] = "open" /\ pos[t] > Len(Order)
  BY DEF AllRead, Still
<1>2. CASE form[t] = {} /\ Return(t, "ok")
  BY <1>1, <1>2, ReturnMoves
<1>3. CASE /\ form[t] # {} /\ UNCHANGED <<pos, work, last>>
           /\ Goto(t, IF \E c \in ChansOf(form[t]) : Preview(c) THEN "preview" ELSE "put")
  BY <1>1, <1>3 DEF Goto, Types, ThreadTypes, Untouched, work
<1> QED BY <1>2, <1>3 DEF AllRead

LEMMA PreviewMoves ==
  ASSUME Types, NEW t \in Threads, PreviewSettings(t)
  PROVE  /\ \A u \in Threads \ {t} : Untouched(u)
         /\ pc[t] = "preview" /\ UNCHANGED <<params, serval, counts, failures>>
         /\ \/ Returned(t, "error")
            \/ /\ pc'[t] = "put"
               /\ pos'[t] = pos[t] /\ form'[t] = form[t] /\ last'[t] = last[t]
<1>1. UNCHANGED <<params, serval, counts, failures>> /\ pc[t] = "preview"
  BY DEF PreviewSettings, Still
<1>2. CASE Return(t, "error")
  BY <1>1, <1>2, ReturnMoves
<1>3. CASE Goto(t, "put") /\ UNCHANGED <<pos, work, last>>
  BY <1>1, <1>3 DEF Goto, Types, ThreadTypes, Untouched, work
<1> QED BY <1>2, <1>3 DEF PreviewSettings

LEMMA PutMoves ==
  ASSUME Types, NEW t \in Threads, Put(t)
  PROVE  /\ \A u \in Threads \ {t} : Untouched(u)
         /\ pc[t] = "put" /\ UNCHANGED <<params, counts>>
         /\ \/ /\ UNCHANGED failures /\ Returned(t, "ok") /\ isSet'
               /\ \/ destination' = [doc |-> form[t], holes |-> FALSE]
                  \/ HasHole(form[t]) /\ destination' = [doc |-> form[t], holes |-> TRUE]
            \/ UNCHANGED failures /\ Returned(t, "error") /\ UNCHANGED serval
            \/ /\ failures' # failures /\ Returned(t, "error")
               /\ \/ destination' = [doc |-> form[t], holes |-> FALSE] /\ isSet'
                  \/ UNCHANGED serval
<1>1. UNCHANGED <<params, counts>> /\ pc[t] = "put"
  BY DEF Put, Still
<1>2. Fails => failures' # failures
  BY ChannelAssumption DEF Fails, Types, CountTypes
<1>3. CASE Return(t, "ok")
  <2>1. Returned(t, "ok") /\ \A u \in Threads \ {t} : Untouched(u)
    BY <1>3, ReturnMoves
  <2>2. ~Return(t, "error")
    BY <2>1, ReturnMoves DEF Returned
  <2> QED BY <1>1, <2>1, <2>2 DEF Put, Answers
<1>4. CASE Return(t, "error")
  <2>1. Returned(t, "error") /\ \A u \in Threads \ {t} : Untouched(u)
    BY <1>4, ReturnMoves
  <2>2. ~Return(t, "ok")
    BY <2>1, ReturnMoves DEF Returned
  <2> QED BY <1>1, <1>2, <2>1, <2>2 DEF Put, Answers
<1> QED BY <1>3, <1>4 DEF Put

LEMMA GetServerMoves ==
  ASSUME Types, NEW t \in Threads, GetServer(t)
  PROVE  /\ \A u \in Threads \ {t} : Untouched(u)
         /\ pc[t] = "get" /\ pc'[t] = "rest" /\ UNCHANGED <<params, serval, counts, pos, form>>
         /\ last'[t].kind = last[t].kind
         /\ last[t].kind # "data" => last'[t] = last[t]
         /\ \/ failures' # failures
            \/ /\ UNCHANGED failures
               /\ isSet => read' = [c \in Chans |-> c.index < Length(c.group)]
<1>1. /\ pc[t] = "get" /\ Goto(t, "rest") /\ UNCHANGED <<params, serval, counts, pos, work>>
      /\ last' = IF last[t].kind = "data" THEN [last EXCEPT ![t].status = "ok"] ELSE last
  BY DEF GetServer, Still
<1>2. last'[t].kind = last[t].kind /\ \A u \in Threads \ {t} : last'[u] = last[u]
  BY <1>1 DEF Types, LastTypes
<1>3. Fails => failures' # failures
  BY ChannelAssumption DEF Fails, Types, CountTypes
<1>4. \/ failures' # failures
      \/ UNCHANGED failures /\ (isSet => read' = [c \in Chans |-> c.index < Length(c.group)])
  BY <1>3 DEF GetServer, Answers
<1> QED BY <1>1, <1>2, <1>4 DEF Goto, Types, ThreadTypes, Untouched, work

LEMMA WriteMoves ==
  ASSUME Types, NEW k \in Operations, NEW l \in Labels, Write(k, l), pos'[Poll] = pos[Poll]
  PROVE  /\ Untouched(Poll)
         /\ pc[Port] = "rest" /\ pc'[Port] = l /\ form'[Port] = form[Port]
         /\ last'[Port] = [kind |-> k, status |-> "ok"]
         /\ UNCHANGED <<read, serval, outages, failures>>
<1> USE DEF Write, Goto, Types, ThreadTypes, LastTypes, Threads
<1>1. pc[Port] = "rest" /\ UNCHANGED <<read, serval, outages, failures, work>>
  OBVIOUS
<1>2. pc'[Port] = l /\ last'[Port] = [kind |-> k, status |-> "ok"]
  OBVIOUS
<1>3. pc'[Poll] = pc[Poll] /\ last'[Poll] = last[Poll]
  BY ChannelAssumption
<1> QED BY <1>1, <1>2, <1>3 DEF Untouched, work

\* What the steps of the port thread that are no requests do.
Enabling ==
  /\ pc[Port] = "rest" /\ pc'[Port] = "get" /\ pos'[Port] = pos[Port]
  /\ last'[Port].kind = "enable" /\ UNCHANGED <<base, stream>>
Basing ==
  /\ pc[Port] = "rest" /\ pc'[Port] = "check" /\ pos'[Port] \in 1..Len(Order)
  /\ last'[Port].kind = "base" /\ UNCHANGED <<stream, write>>
  /\ \A c \in Chans : c # Order[pos'[Port]] => base'[c] = base[c]
Checking ==
  /\ pc[Port] = "check" /\ pc'[Port] = "rest" /\ pos'[Port] = 1
  /\ last'[Port] = last[Port] /\ UNCHANGED <<base, write>>
  /\ \A c \in Chans :
       \/ stream'[c] = stream[c] /\ (c = Current(Port) => ~Streamed(c))
       \/ c = Current(Port) /\ stream'[c] = StreamFor(base[c], stream[c])
Choosing ==
  /\ pc[Port] = "rest" /\ pc'[Port] = "rest" /\ pos'[Port] = pos[Port]
  /\ last'[Port].kind = "choice" /\ UNCHANGED <<write, base, stream>>
Applying ==
  /\ pc[Port] = "rest" /\ pc'[Port] = "open" /\ pos'[Port] = pos[Port]
  /\ last'[Port].kind \in {"data", "apply"} /\ last'[Port].status = "ok" /\ UNCHANGED params

LEMMA PortMoves ==
  ASSUME Types, Placed(Port), WriteEnable \/ WriteBase \/ CheckBase \/ WriteChoice \/ Apply
  PROVE  /\ Untouched(Poll) /\ form'[Port] = form[Port]
         /\ UNCHANGED <<read, serval, outages, failures>>
         /\ Enabling \/ Basing \/ Checking \/ Choosing \/ Applying
<1> USE DEF Operations, Labels
<1>1. CASE WriteEnable
  <2>1. Write("enable", "get") /\ UNCHANGED <<base, stream, pos>>
    BY <1>1 DEF WriteEnable
  <2> QED BY <2>1, WriteMoves DEF Enabling
<1>2. CASE WriteBase
  <2>1. PICK c \in Chans : \E k \in Bases \ {base[c]} :
          /\ base' = [base EXCEPT ![c] = k]
          /\ pos' = [pos EXCEPT ![Port] = CHOOSE i \in DOMAIN Order : Order[i] = c]
    BY <1>2 DEF WriteBase
  <2>2. /\ (CHOOSE i \in DOMAIN Order : Order[i] = c) \in 1..Len(Order)
        /\ Order[CHOOSE i \in DOMAIN Order : Order[i] = c] = c
    BY OrderIsInjective DEF Chans
  <2>3. pos'[Port] = (CHOOSE i \in DOMAIN Order : Order[i] = c) /\ pos'[Poll] = pos[Poll]
    BY <2>1, ChannelAssumption DEF Types, ThreadTypes, Threads
  <2>4. \A d \in Chans : d # c => base'[d] = base[d]
    BY <2>1 DEF Types, ParamTypes
  <2>5. Write("base", "check") /\ UNCHANGED <<stream, write>>
    BY <1>2 DEF WriteBase
  <2> QED BY <2>2, <2>3, <2>4, <2>5, WriteMoves DEF Basing
<1>3. CASE CheckBase
  <2> USE DEF CheckBase, Types, ThreadTypes, Threads
  <2>1. pc[Port] = "check" /\ pc'[Port] = "rest" /\ pos'[Port] = 1
    BY <1>3 DEF Goto
  <2>2. Untouched(Poll) /\ UNCHANGED <<last, form, read, serval, outages, failures, base, write>>
    BY <1>3, ChannelAssumption DEF Goto, Untouched, work, counts, Still
  <2>3. Current(Port) \in Chans
    BY <2>1, CurrentType DEF Placed
  <2>4. \A c \in Chans :
          \/ stream'[c] = stream[c] /\ (c = Current(Port) => ~Streamed(c))
          \/ c = Current(Port) /\ stream'[c] = StreamFor(base[c], stream[c])
    BY <1>3, <2>3 DEF ParamTypes
  <2> QED BY <2>1, <2>2, <2>4 DEF Checking
<1>4. CASE WriteChoice
  <2>1. Write("choice", "rest") /\ UNCHANGED <<write, base, stream, pos>>
    BY <1>4 DEF WriteChoice
  <2> QED BY <2>1, WriteMoves DEF Choosing
<1>5. CASE Apply
  <2>1. (Write("data", "open") \/ Write("apply", "open")) /\ UNCHANGED <<params, pos>>
    BY <1>5 DEF Apply
  <2> QED BY <2>1, WriteMoves DEF Applying
<1> QED BY <1>1, <1>2, <1>3, <1>4, <1>5

LEMMA PollStartsMoves ==
  ASSUME Types, PollStarts
  PROVE  /\ Untouched(Port) /\ UNCHANGED <<params, serval, outages, failures>>
         /\ pc[Poll] = "rest" /\ pc'[Poll] = "open" /\ pos'[Poll] = pos[Poll]
         /\ form'[Poll] = form[Poll] /\ last'[Poll] = [kind |-> "refresh", status |-> "ok"]
<1> USE DEF PollStarts, Types, ThreadTypes, LastTypes, Threads
<1>1. /\ Untouched(Port) /\ pc[Poll] = "rest" /\ pc'[Poll] = "open"
  BY ChannelAssumption DEF Untouched, Goto, work
<1>2. last'[Poll] = [kind |-> "refresh", status |-> "ok"]
  OBVIOUS
<1>3. UNCHANGED <<params, serval, outages, failures, pos, form>>
  BY DEF work
<1> QED BY <1>1, <1>2, <1>3

LEMMA OutageMoves ==
  ASSUME Types, Outage
  PROVE  /\ \A t \in Threads : Untouched(t)
         /\ outages' # outages /\ UNCHANGED <<params, failures>>
         /\ UNCHANGED serval \/ destination' = Nowhere
<1>1. outages' # outages
  BY ChannelAssumption DEF Outage, Types, CountTypes
<1> QED BY <1>1 DEF Outage, Untouched, work, serval

-----------------------------------------------------------------------------
(* Types and places are kept.                                                 *)

LEMMA UntouchedPlaced ==
  ASSUME NEW t \in Threads, Placed(t), Untouched(t)
  PROVE  Placed(t)'
BY DEF Placed, Untouched, OnePerChannel, ChansOf, Before, Current

LEMMA ReturnedPlaced ==
  ASSUME NEW t \in Threads, NEW s, Returned(t, s)
  PROVE  Placed(t)'
BY DEF Placed, Returned, OnePerChannel, ChansOf, Making

\* The channels that a thread has behind it when it goes on.
LEMMA BeforeNext ==
  ASSUME Types, NEW t \in Threads, WentOn(t)
  PROVE  Before(t)' = Before(t) \cup {Current(t)} /\ Current(t) \notin Before(t)
<1> DEFINE p == pos[t]
           q == pos'[t]
<1>1. p \in 1..Len(Order) /\ q = p + 1
  BY DEF WentOn, Types, ThreadTypes
<1> HIDE DEF p, q
<1>2. 1..(q - 1) = 1..(p - 1) \cup {p}
  BY <1>1, OrderIsInjective
<1>3. Before(t)' = Before(t) \cup {Current(t)}
  BY <1>2 DEF Before, Current, p, q
<1>4. \A i \in 1..(p - 1) : i \in 1..Len(Order) /\ i # p
  BY <1>1, OrderIsInjective
<1>5. Current(t) \notin Before(t)
  BY <1>1, <1>4, OrderIsInjective DEF Before, Current, p
<1> QED BY <1>3, <1>5

\* The next channel: with its entry added to the document or not.
LEMMA WentOnPlaced ==
  ASSUME Types, NEW t \in Threads, Placed(t), WentOn(t),
         \/ form'[t] = form[t]
         \/ \E e : e.chan = Current(t) /\ form'[t] = form[t] \cup {e}
  PROVE  Placed(t)'
<1>1. OnePerChannel(form[t])' /\ ChansOf(form[t])' \subseteq Before(t)'
  <2>1. CASE form'[t] = form[t]
    BY <2>1, BeforeNext DEF Placed, OnePerChannel, ChansOf
  <2>2. CASE \E e : e.chan = Current(t) /\ form'[t] = form[t] \cup {e}
    <3>1. PICK e : e.chan = Current(t) /\ form'[t] = form[t] \cup {e}
      BY <2>2
    <3> QED BY <3>1, BeforeNext DEF Placed, OnePerChannel, ChansOf
  <2> QED BY <2>1, <2>2
<1> QED BY <1>1 DEF Placed, WentOn, Making

LEMMA RequestPlaced ==
  ASSUME Types, NEW t \in Threads, Placed(t), Request(t)
  PROVE  Placed(t)'
<1>1. CASE OpenChannel(t)
  BY <1>1, OpenChannelMoves, WentOnPlaced
     DEF OpenChannel, Placed, Making, OnePerChannel, ChansOf, Before
<1>2. CASE ReadBase(t)
  <2>1. EntryRead(t).chan = Current(t)
    BY DEF EntryRead
  <2>2. CASE /\ Current(t).group # "Raw" /\ pc'[t] = "format" /\ entry'[t] = EntryRead(t)
             /\ pos'[t] = pos[t] /\ form'[t] = form[t]
    BY <1>2, <2>1, <2>2, ReadBaseMoves DEF Placed, Making, OnePerChannel, ChansOf, Before, Current
  <2>3. CASE WentOn(t) /\ form'[t] = form[t] \cup {EntryRead(t)}
    BY <2>1, <2>3, WentOnPlaced
  <2> QED BY <1>2, <2>2, <2>3, ReadBaseMoves, ReturnedPlaced
<1>3. CASE ReadFormat(t)
  <2>1. EntryFinished(t).chan = entry[t].chan
    BY DEF EntryFinished, Types, ThreadTypes, Entries
  <2> QED BY <1>3, <2>1, ReadFormatMoves, ReturnedPlaced, WentOnPlaced DEF Placed
<1>4. CASE AllRead(t)
  BY <1>4, AllReadMoves, ReturnedPlaced DEF Placed, Making, OnePerChannel, ChansOf, Before
<1>5. CASE PreviewSettings(t)
  BY <1>5, PreviewMoves, ReturnedPlaced DEF Placed, Making, OnePerChannel, ChansOf, Before
<1>6. CASE Put(t)
  BY <1>6, PutMoves, ReturnedPlaced
<1>7. CASE GetServer(t)
  BY <1>7, GetServerMoves DEF Placed, Making, OnePerChannel, ChansOf, Before
<1> QED BY <1>1, <1>2, <1>3, <1>4, <1>5, <1>6, <1>7 DEF Request

LEMMA RequestUntouched ==
  ASSUME Types, NEW t \in Threads, Placed(t), Request(t)
  PROVE  \A u \in Threads \ {t} : Untouched(u)
BY OpenChannelMoves, ReadBaseMoves, ReadFormatMoves, AllReadMoves, PreviewMoves, PutMoves,
   GetServerMoves DEF Request

PortWrites == WriteEnable \/ WriteBase \/ CheckBase \/ WriteChoice \/ Apply

LEMMA PortWritesPlaced ==
  ASSUME Types, Placed(Port), PortWrites
  PROVE  Placed(Port)'
<1> USE PortMoves DEF PortWrites, Placed, Making, OnePerChannel, ChansOf, Before
<1>1. CASE Enabling
  BY <1>1 DEF Enabling
<1>2. CASE Basing
  BY <1>2 DEF Basing
<1>3. CASE Checking
  BY <1>3 DEF Checking
<1>4. CASE Choosing
  BY <1>4 DEF Choosing
<1>5. CASE Applying
  BY <1>5 DEF Applying
<1> QED BY <1>1, <1>2, <1>3, <1>4, <1>5

LEMMA NextShape == Shape /\ [Next]_vars => Shape'
<1> SUFFICES ASSUME Shape, [Next]_vars PROVE Shape'
  OBVIOUS
<1> USE DEF Shape
<1>p. Port \in Threads /\ Poll \in Threads /\ \A t \in Threads : t = Port \/ t = Poll
  BY DEF Threads
<1>1. ASSUME NEW t \in Threads, Request(t) PROVE Shape'
  BY <1>1, RequestTypes, RequestPlaced, RequestUntouched, UntouchedPlaced
<1>2. CASE PortWrites
  BY <1>p, <1>2, OtherTypes, PortMoves, PortWritesPlaced, UntouchedPlaced DEF PortWrites
<1>3. CASE PollStarts
  <2>1. Placed(Poll)'
    BY <1>p, <1>3, PollStartsMoves DEF Placed, Making, OnePerChannel, ChansOf, Before
  <2> QED BY <1>p, <1>3, <2>1, OtherTypes, PollStartsMoves, UntouchedPlaced
<1>4. CASE Outage
  BY <1>p, <1>4, OtherTypes, OutageMoves, UntouchedPlaced
<1>5. CASE UNCHANGED vars
  BY <1>5 DEF vars, params, serval, work, counts, history, Types, ParamTypes, ServalTypes,
     ThreadTypes, CountTypes, LastTypes, HistoryTypes, Placed, OnePerChannel, ChansOf, Before, Current
<1> QED BY <1>p, <1>1, <1>2, <1>3, <1>4, <1>5 DEF Next, PortStep, PortWrites

-----------------------------------------------------------------------------
(* BasesFit. A *Stream fits its Base unless the Base is being checked; what a *)
(* thread has read fits, unless it is torn, and so do its document and the    *)
(* one that Serval has.                                                       *)

IsFile(k) == k \in {"file", "gone"}

Fitting(e, isTorn) ==
  /\ e.chan.group \notin {"Raw", "PreviewHistogram"} /\ e.base = "tcp" => e.format # "tiff"
  /\ e.chan.group = "Raw" /\ IsFile(e.base) /\ ~isTorn => e.split

StreamsFit ==
  \A c \in Chans :
    Streamed(c) /\ IsFile(base[c]) =>
      stream[c] = 0 \/ (pc[Port] = "check" /\ Current(Port) = c)

\* What thread t has read.
ReadFits(t) ==
  /\ pc[t] \in Making /\ ~torn[t] => t = Port \/ pc[Port] # "check"
  /\ pc[t] = "base" /\ ~torn[t] => seen[t] = stream[Current(t)]
  /\ \A e \in form[t] : Fitting(e, torn[t])

Fits ==
  /\ StreamsFit
  /\ \A t \in Threads : ReadFits(t)
  /\ \A e \in destination.doc : Fitting(e, mixed)

LEMMA InitFits == Init => Fits
<1> SUFFICES ASSUME Init PROVE Fits
  OBVIOUS
<1>1. StreamsFit
  <2>1. PICK k \in Bases \cap {"file", "gone", "tcp"} : base = [c \in Chans |-> k]
    BY DEF Init
  <2>2. \A c \in Chans : Streamed(c) => stream[c] = StreamFor(base[c], 0)
    BY DEF Init
  <2> QED BY <2>2 DEF StreamsFit, StreamFor, IsFile
<1>2. \A t \in Threads : ReadFits(t)
  BY DEF Init, ReadFits, Making
<1>3. destination.doc = {}
  BY DEF Init, Nowhere
<1> QED BY <1>1, <1>2, <1>3 DEF Fits

\* While a thread stays where it is, a change of a parameter tears what it has read.
LEMMA TornStep ==
  ASSUME Types, History, NEW t \in Threads
  PROVE  /\ pc'[t] \in Making /\ torn[t] => torn'[t]
         /\ pc'[t] \in Making /\ ~torn'[t] => t = Port \/ pc'[Port] # "check"
         /\ pc[t] \in Making /\ pc'[t] = pc[t] /\ ~torn'[t] => UNCHANGED params
         /\ torn'[t] \in BOOLEAN /\ mixed' \in BOOLEAN
<1>1. torn'[t] = (/\ pc'[t] \in Making
                  /\ \/ torn[t] \/ \E u \in Threads \ {t} : pc'[u] = "check"
                     \/ pc[t] \in Making /\ pc'[t] = pc[t] /\ params' # params)
  BY DEF History
<1>2. t # Port => Port \in Threads \ {t}
  BY DEF Threads
<1> QED BY <1>1, <1>2, HistoryStep DEF HistoryTypes

\* The document that Serval takes is torn if the thread's was.
LEMMA MixedStep ==
  ASSUME Types, History, NEW t \in Threads, pc[t] = "put", pc'[t] # "put",
         \A u \in Threads \ {t} : pc'[u] = pc[u]
  PROVE  destination' # destination => mixed' = torn[t]
<1>1. destination' # destination =>
        mixed' = (\E u \in Threads : pc[u] = "put" /\ pc'[u] # "put" /\ torn[u])
  BY DEF History
<1>2. (\E u \in Threads : pc[u] = "put" /\ pc'[u] # "put" /\ torn[u]) = torn[t]
  BY DEF Types, HistoryTypes
<1> QED BY <1>1, <1>2

LEMMA MixedStays ==
  ASSUME History, UNCHANGED destination
  PROVE  mixed' = mixed
BY DEF History

\* A thread that the step does not touch.
LEMMA UntouchedReadFits ==
  ASSUME Types, History, NEW t \in Threads, Untouched(t), Placed(t), ReadFits(t)
  PROVE  ReadFits(t)'
<1>1. pc'[t] = "base" /\ ~torn'[t] => seen'[t] = stream'[Current(t)] /\ Current(t)' = Current(t)
  BY TornStep DEF ReadFits, Untouched, Making, params, Current
<1>2. \A e \in form[t] : Fitting(e, torn'[t])
  BY TornStep DEF ReadFits, Fitting, Untouched, Placed
<1> QED BY <1>1, <1>2, TornStep DEF ReadFits, Untouched

\* A thread whose own step leaves its document as it was.
LEMMA KeptReadFits ==
  ASSUME Types, History, NEW t \in Threads, ReadFits(t), pc'[t] # "base",
         form'[t] = {} \/ (pc'[t] \in Making /\ form'[t] = form[t])
  PROVE  ReadFits(t)'
BY TornStep DEF ReadFits, Fitting

\* One that adds an entry that fits.
LEMMA GrownReadFits ==
  ASSUME Types, History, NEW t \in Threads, ReadFits(t), pc'[t] = "open",
         NEW e, Fitting(e, torn[t]), form'[t] = form[t] \cup {e}
  PROVE  ReadFits(t)'
<1>1. pc'[t] \in Making /\ pc'[t] # "base"
  BY DEF Making
<1>2. \A f : Fitting(f, torn[t]) => Fitting(f, torn'[t])
  BY <1>1, TornStep DEF Fitting
<1> QED BY <1>1, <1>2, TornStep DEF ReadFits

LEMMA SteadyStreams ==
  ASSUME StreamsFit, UNCHANGED <<base, stream>>,
         pc[Port] = "check" => pc'[Port] = "check" /\ pos'[Port] = pos[Port]
  PROVE  StreamsFit'
BY DEF StreamsFit, Current

LEMMA EntryReadFits ==
  ASSUME Types, Fits, NEW t \in Threads, Placed(t), pc[t] = "base", Current(t).group = "Raw"
  PROVE  Fitting(EntryRead(t), torn[t])
<1>1. Current(t) \in Chans
  BY CurrentType DEF Placed
<1>2. ~torn[t] /\ IsFile(base[Current(t)]) => seen[t] = 0
  BY <1>1 DEF Fits, StreamsFit, ReadFits, Making, Streamed
<1> QED BY <1>2 DEF EntryRead, Fitting, IsFile

LEMMA EntryFinishedFits ==
  ASSUME Types, NEW t \in Threads, Placed(t), pc[t] = "format"
  PROVE  Fitting(EntryFinished(t), torn[t])
<1>1. /\ EntryFinished(t).chan = Current(t) /\ EntryFinished(t).base = entry[t].base
      /\ EntryFinished(t).format = FormatFor(Current(t), entry[t].base)
  BY DEF EntryFinished, Types, ThreadTypes, Entries, Placed
<1> QED BY <1>1 DEF Fitting, FormatFor, Placed

LEMMA RequestFits ==
  ASSUME Shape, Fits, NEW t \in Threads, Request(t)
  PROVE  Fits'
<1>h. History /\ Types /\ Placed(t)
  BY DEF Shape, Request, OpenChannel, ReadBase, ReadFormat, AllRead, PreviewSettings, Put, GetServer
<1>u. \A u \in Threads \ {t} : Untouched(u) /\ ReadFits(u)'
  BY <1>h, RequestUntouched, UntouchedReadFits DEF Shape, Fits
<1>s. StreamsFit'
  <2>1. UNCHANGED <<base, stream>>
    BY <1>h, OpenChannelMoves, ReadBaseMoves, ReadFormatMoves, AllReadMoves, PreviewMoves,
       PutMoves, GetServerMoves DEF Request, params
  <2>2. pc[t] # "check"
    BY DEF Request, OpenChannel, ReadBase, ReadFormat, AllRead, PreviewSettings, Put, GetServer
  <2>3. pc[Port] = "check" => pc'[Port] = "check" /\ pos'[Port] = pos[Port]
    BY <1>u, <2>2 DEF Untouched, Threads
  <2> QED BY <2>1, <2>3, SteadyStreams DEF Fits
<1>r. ReadFits(t)
  BY DEF Fits
<1>d. UNCHANGED destination => \A e \in destination'.doc : Fitting(e, mixed')
  BY <1>h, MixedStays DEF Fits
<1>1. CASE OpenChannel(t)
  <2>1. ASSUME WentOn(t) PROVE ReadFits(t)'
    BY <1>h, <1>r, <1>1, <2>1, OpenChannelMoves, KeptReadFits DEF WentOn, Making
  <2>2. ASSUME pc'[t] = "base" /\ pos'[t] = pos[t] /\ seen'[t] = stream[Current(t)]
        PROVE  ReadFits(t)'
    <3>1. pc[t] = "open" /\ UNCHANGED stream
      BY <1>h, <1>1, OpenChannelMoves DEF OpenChannel, params
    <3>2. pc[t] \in Making /\ pc'[t] \in Making /\ form'[t] = form[t]
      BY <1>h, <1>1, <2>2, <3>1, OpenChannelMoves DEF Making
    <3> QED BY <1>h, <1>r, <2>2, <3>1, <3>2, TornStep DEF ReadFits, Fitting, Current
  <2>3. ReadFits(t)' /\ UNCHANGED destination
    BY <1>h, <1>1, <2>1, <2>2, OpenChannelMoves DEF serval
  <2> QED BY <1>u, <1>s, <1>d, <2>3 DEF Fits
<1>2. CASE ReadBase(t)
  <2>1. ASSUME pc'[t] = "format" /\ form'[t] = form[t] PROVE ReadFits(t)'
    BY <1>h, <1>r, <2>1, KeptReadFits DEF Making
  <2>2. ASSUME Returned(t, "error") PROVE ReadFits(t)'
    BY <1>h, <1>r, <2>2, KeptReadFits DEF Returned
  <2>3. ASSUME Current(t).group = "Raw" /\ WentOn(t) /\ form'[t] = form[t] \cup {EntryRead(t)}
        PROVE  ReadFits(t)'
    <3>1. Fitting(EntryRead(t), torn[t])
      BY <1>h, <1>2, <2>3, EntryReadFits DEF ReadBase
    <3> QED BY <1>h, <1>r, <2>3, <3>1, GrownReadFits DEF WentOn
  <2>4. ReadFits(t)' /\ UNCHANGED destination
    BY <1>h, <1>2, <2>1, <2>2, <2>3, ReadBaseMoves DEF serval
  <2> QED BY <1>u, <1>s, <1>d, <2>4 DEF Fits
<1>3. CASE ReadFormat(t)
  <2>1. ASSUME Returned(t, "error") PROVE ReadFits(t)'
    BY <1>h, <1>r, <2>1, KeptReadFits DEF Returned
  <2>2. ASSUME WentOn(t) /\ form'[t] = form[t] \cup {EntryFinished(t)} PROVE ReadFits(t)'
    <3>1. Fitting(EntryFinished(t), torn[t])
      BY <1>h, <1>3, EntryFinishedFits DEF ReadFormat
    <3> QED BY <1>h, <1>r, <2>2, <3>1, GrownReadFits DEF WentOn
  <2>3. ReadFits(t)' /\ UNCHANGED destination
    BY <1>h, <1>3, <2>1, <2>2, ReadFormatMoves DEF serval
  <2> QED BY <1>u, <1>s, <1>d, <2>3 DEF Fits
<1>4. CASE AllRead(t)
  <2>1. ReadFits(t)' /\ UNCHANGED destination
    BY <1>h, <1>r, <1>4, AllReadMoves, KeptReadFits DEF Returned, Making, serval
  <2> QED BY <1>u, <1>s, <1>d, <2>1 DEF Fits
<1>5. CASE PreviewSettings(t)
  <2>1. ReadFits(t)' /\ UNCHANGED destination
    BY <1>h, <1>r, <1>5, PreviewMoves, KeptReadFits DEF Returned, Making, serval
  <2> QED BY <1>u, <1>s, <1>d, <2>1 DEF Fits
<1>6. CASE Put(t)
  <2>1. pc[t] = "put" /\ pc'[t] # "put" /\ pc'[t] # "base" /\ form'[t] = {}
    BY <1>h, <1>6, PutMoves DEF Returned
  <2>2. UNCHANGED destination \/ destination'.doc = form[t]
    BY <1>h, <1>6, PutMoves DEF serval
  <2>3. destination' # destination => mixed' = torn[t]
    BY <1>h, <1>u, <2>1, MixedStep DEF Untouched
  <2>4. \A e \in destination'.doc : Fitting(e, mixed')
    BY <1>d, <1>r, <2>2, <2>3 DEF ReadFits
  <2> QED BY <1>h, <1>r, <1>u, <1>s, <2>1, <2>4, KeptReadFits DEF Fits
<1>7. CASE GetServer(t)
  <2>1. ReadFits(t)' /\ UNCHANGED destination
    BY <1>h, <1>r, <1>7, GetServerMoves, KeptReadFits DEF Placed, Making, serval
  <2> QED BY <1>u, <1>s, <1>d, <2>1 DEF Fits
<1> QED BY <1>1, <1>2, <1>3, <1>4, <1>5, <1>6, <1>7 DEF Request

LEMMA PortWritesStreams ==
  ASSUME Shape, StreamsFit, PortWrites
  PROVE  StreamsFit'
<1>t. Types /\ Placed(Port)
  BY DEF Shape, Threads
<1>1. CASE Enabling
  BY <1>1, SteadyStreams DEF Enabling
<1>2. CASE Basing
  <2>1. \A c \in Chans : c # Current(Port)' => stream'[c] = stream[c] /\ base'[c] = base[c]
    BY <1>2 DEF Basing, Current
  <2>2. pc[Port] = "rest" /\ pc'[Port] = "check"
    BY <1>2 DEF Basing
  <2> QED BY <2>1, <2>2 DEF StreamsFit
<1>3. CASE Checking
  <2>1. \A c \in Chans : Streamed(c) /\ IsFile(base'[c]) => stream'[c] = 0
    <3> TAKE c \in Chans
    <3>1. base'[c] = base[c]
      BY <1>3 DEF Checking
    <3>2. CASE stream'[c] = stream[c] /\ (c = Current(Port) => ~Streamed(c))
      BY <3>1, <3>2 DEF StreamsFit
    <3>3. CASE stream'[c] = StreamFor(base[c], stream[c])
      BY <3>1, <3>3 DEF StreamFor, IsFile
    <3> QED BY <1>3, <3>2, <3>3 DEF Checking
  <2> QED BY <2>1 DEF StreamsFit
<1>4. CASE Choosing
  BY <1>4, SteadyStreams DEF Choosing
<1>5. CASE Applying
  BY <1>5, SteadyStreams DEF Applying, params
<1> QED BY <1>t, <1>1, <1>2, <1>3, <1>4, <1>5, PortMoves DEF PortWrites

LEMMA NextFits == Shape /\ Fits /\ [Next]_vars => Fits'
<1> SUFFICES ASSUME Shape, Fits, [Next]_vars PROVE Fits'
  OBVIOUS
<1>p. Types /\ Placed(Port) /\ Placed(Poll) /\ Port \in Threads /\ Poll \in Threads
      /\ \A t \in Threads : t = Port \/ t = Poll
  BY DEF Shape, Threads
<1>r. ReadFits(Port) /\ ReadFits(Poll) /\ StreamsFit
  BY <1>p DEF Fits
<1>d. History /\ UNCHANGED destination => \A e \in destination'.doc : Fitting(e, mixed')
  BY MixedStays DEF Fits
<1>1. ASSUME NEW t \in Threads, Request(t) PROVE Fits'
  BY <1>1, RequestFits
<1>2. CASE PortWrites
  <2>1. /\ Untouched(Poll) /\ form'[Port] = form[Port] /\ UNCHANGED destination
        /\ pc[Port] \in {"rest", "check"} /\ pc'[Port] # "base"
    BY <1>p, <1>2, PortMoves
       DEF PortWrites, serval, Enabling, Basing, Checking, Choosing, Applying
  <2>2. form'[Port] = {}
    BY <1>p, <2>1 DEF Placed, Making
  <2>h. History
    BY <1>2 DEF PortWrites, WriteEnable, WriteBase, CheckBase, WriteChoice, Apply, Write
  <2>3. ReadFits(Port)' /\ ReadFits(Poll)'
    BY <1>p, <1>r, <2>1, <2>2, <2>h, KeptReadFits, UntouchedReadFits
  <2> QED BY <1>p, <1>2, <1>r, <1>d, <2>h, <2>1, <2>3, PortWritesStreams DEF Fits
<1>3. CASE PollStarts
  <2>h. History
    BY <1>3 DEF PollStarts
  <2>1. Untouched(Port) /\ pc'[Poll] = "open" /\ form'[Poll] = {} /\ UNCHANGED <<params, destination>>
    BY <1>p, <1>3, PollStartsMoves DEF Placed, Making, serval
  <2>2. ReadFits(Port)' /\ ReadFits(Poll)'
    BY <1>p, <1>r, <2>h, <2>1, KeptReadFits, UntouchedReadFits
  <2>3. StreamsFit'
    BY <1>r, <2>1, SteadyStreams DEF Untouched, params
  <2> QED BY <1>p, <1>d, <2>h, <2>1, <2>2, <2>3 DEF Fits
<1>4. CASE Outage
  <2>h. History
    BY <1>4 DEF Outage
  <2>1. Untouched(Port) /\ Untouched(Poll) /\ UNCHANGED params
        /\ (UNCHANGED destination \/ destination' = Nowhere)
    BY <1>p, <1>4, OutageMoves DEF serval
  <2>2. ReadFits(Port)' /\ ReadFits(Poll)'
    BY <1>p, <1>r, <2>h, <2>1, UntouchedReadFits
  <2>3. StreamsFit'
    BY <1>r, <2>1, SteadyStreams DEF Untouched, params
  <2>4. \A e \in destination'.doc : Fitting(e, mixed')
    BY <1>d, <2>h, <2>1 DEF Nowhere
  <2> QED BY <1>p, <2>2, <2>3, <2>4 DEF Fits
<1>5. CASE UNCHANGED vars
  <2>1. UNCHANGED <<base, stream, pc, pos, seen, form, destination, torn, mixed>>
    BY <1>5 DEF vars, params, serval, work, counts, history
  <2> QED BY <2>1 DEF Fits, StreamsFit, ReadFits, Current
<1> QED BY <1>p, <1>1, <1>2, <1>3, <1>4, <1>5 DEF Next, PortStep, PortWrites

-----------------------------------------------------------------------------
(* What Serval has: one entry per channel, and a hole counts only if there is *)
(* one.                                                                       *)

Served == OnePerChannel(destination.doc) /\ (destination.holes => HasHole(destination.doc))

LEMMA InitServed == Init => Served
BY DEF Init, Served, Nowhere, OnePerChannel

LEMMA NextServed == Shape /\ Served /\ [Next]_vars => Served'
<1> SUFFICES ASSUME Shape, Served, [Next]_vars PROVE Served'
  OBVIOUS
<1>p. Types /\ Placed(Port) /\ Port \in Threads /\ Poll \in Threads
  BY DEF Shape, Threads
<1>1. UNCHANGED destination => Served'
  BY DEF Served
<1>2. destination' = Nowhere => Served'
  BY DEF Served, Nowhere, OnePerChannel
<1>3. ASSUME NEW t \in Threads, Put(t) PROVE Served'
  <2>1. OnePerChannel(form[t])
    BY DEF Shape, Placed
  <2>2. \/ UNCHANGED destination
        \/ destination' = [doc |-> form[t], holes |-> FALSE]
        \/ HasHole(form[t]) /\ destination' = [doc |-> form[t], holes |-> TRUE]
    BY <1>p, <1>3, PutMoves DEF serval
  <2> QED BY <1>1, <2>1, <2>2 DEF Served
<1>4. ASSUME NEW t \in Threads, Request(t), ~Put(t) PROVE UNCHANGED destination
  BY <1>4 DEF Request, OpenChannel, ReadBase, ReadFormat, AllRead, PreviewSettings, GetServer, serval
<1>5. PortWrites => UNCHANGED destination
  BY <1>p, PortMoves DEF PortWrites, serval
<1>6. PollStarts => UNCHANGED destination
  BY DEF PollStarts, serval
<1>7. Outage => UNCHANGED destination \/ destination' = Nowhere
  BY DEF Outage, serval
<1>8. UNCHANGED vars => UNCHANGED destination
  BY DEF vars, serval
<1> QED BY <1>p, <1>1, <1>2, <1>3, <1>4, <1>5, <1>6, <1>7, <1>8 DEF Next, PortStep, PortWrites

\* Without a hole, the lengths of Serval's arrays tell which channels it has.
LEMMA LengthsTell ==
  ASSUME Types, ~destination.holes, ~HasHole(destination.doc)
  PROVE  \A c \in Chans : c.index < Length(c.group) <=> c \in ChansOf(destination.doc)
<1> TAKE c \in Chans
<1> DEFINE all == ChansOf(destination.doc)
           own == {d \in all : d.group = c.group}
           first == [group |-> c.group, index |-> 0]
           second == [group |-> c.group, index |-> 1]
<1>1. Length(c.group) = Cardinality(own)
  BY DEF Length
<1>2. all \subseteq Chans
  BY DEF Types, ServalTypes, ChansOf, Entries
<1>3. own \subseteq {first, second}
  BY <1>2, ChannelForm
<1>4. second \in own => first \in own
  <2>1. ASSUME second \in all PROVE first \in all
    <3>1. [second EXCEPT !.index = 0] = first /\ second.index = 1
      OBVIOUS
    <3> QED BY <2>1, <3>1 DEF HasHole
  <2> QED BY <2>1
<1>5. first # second
  OBVIOUS
<1>6. own = {} \/ own = {first} \/ own = {first, second}
  BY <1>3, <1>4
<1>7. /\ own = {} => Cardinality(own) = 0
      /\ own = {first} => Cardinality(own) = 1
      /\ own = {first, second} => Cardinality(own) = 2
  <2>1. IsFiniteSet({first}) /\ Cardinality({first}) = 1
    BY FS_Singleton
  <2>2. {first, second} = {first} \cup {second} /\ second \notin {first}
    BY <1>5
  <2>3. Cardinality({first} \cup {second}) = Cardinality({first}) + 1
    BY <2>1, <2>2, FS_AddElement
  <2>4. Cardinality({first, second}) = 2 /\ Cardinality({}) = 0
    <3> HIDE DEF own, first, second
    <3> QED BY <2>1, <2>2, <2>3, FS_EmptySet
  <2> QED BY <2>1, <2>4
<1>8. (c = first /\ c.index = 0) \/ (c = second /\ c.index = 1)
  <2>1. c.index = 0 \/ c.index = 1
    BY ChannelForm
  <2>2. c = [group |-> c.group, index |-> c.index]
    BY ChannelForm
  <2> QED BY <2>1, <2>2
<1>9. c \in all <=> c \in own
  OBVIOUS
<1> HIDE DEF own, first, second
<1> QED BY <1>1, <1>5, <1>6, <1>7, <1>8, <1>9

-----------------------------------------------------------------------------
(* AppliedOrKept. While a thread applies the parameters, nothing fails and    *)
(* the other one rests, its document has the enabled channels that it has     *)
(* behind it; after that Serval has it, or what it had.                       *)

Quiet(t) == clean[t] /\ ~failed /\ last[t].kind \in {"apply", "refresh"}

SoFar(t) ==
  /\ ~sent /\ last[t].status = "ok"
  /\ ChansOf(form[t]) = {c \in Before(t) : write[c]}
  /\ \A e \in form[t] : e.base = base[e.chan]
  /\ pc[t] \in {"base", "format"} => write[Current(t)]
  /\ pc[t] = "format" => entry[t].base = base[Current(t)]

Applied ==
  /\ Enabled # {} /\ ChansOf(destination.doc) = Enabled
  /\ \A e \in destination.doc : e.base = base[e.chan]

Outcome(t) ==
  \/ /\ last[t].status = "ok" /\ Applied /\ isSet
     /\ pc[t] = "rest" => HasHole(destination.doc) \/ read = write
  \/ ~sent /\ (last[t].status = "error" \/ Enabled = {})

Progress(t) ==
  /\ clean[t] => \A u \in Threads \ {t} : pc[u] = "rest"
  /\ pc[t] = "check" => last[t].kind = "base"
  /\ Quiet(t) /\ pc[t] \in Making => SoFar(t)
  /\ Quiet(t) /\ pc[t] \in {"get", "rest"} => Outcome(t)

LEMMA InitProgress == Init => \A t \in Threads : Progress(t)
BY DEF Init, Progress, Quiet

\* What a thread that is not interfered with knows of a step.
LEMMA CleanStep ==
  ASSUME Types, History, NEW t \in Threads, clean'[t]
  PROVE  /\ \A u \in Threads \ {t} : pc[u] = "rest" /\ pc'[u] = "rest"
         /\ UNCHANGED params \/ pc'[t] # pc[t]
         /\ UNCHANGED outages
         /\ clean[t] \/ (pc[t] = "rest" /\ pc'[t] # "rest")
BY DEF History

\* The step begins an operation of thread t, or not.
LEMMA BeginStep ==
  ASSUME Types, History, NEW t \in Threads, clean'[t], pc[t] = "rest", pc'[t] # "rest"
  PROVE  UNCHANGED serval => ~sent'
BY DEF History

LEMMA QuietStep ==
  ASSUME Types, History, NEW t \in Threads, clean'[t], ~failed',
         (pc[t] # "rest" \/ pc'[t] = "rest")
  PROVE  /\ clean[t] /\ ~failed /\ UNCHANGED failures
         /\ UNCHANGED serval /\ ~sent => ~sent'
<1>1. ~\E u \in Threads : pc[u] = "rest" /\ pc'[u] # "rest"
  BY CleanStep
<1> QED BY <1>1, CleanStep DEF History

\* At the last channel the thread has all behind it.
LEMMA BeforeAll ==
  ASSUME Types, NEW t \in Threads, pos[t] > Len(Order)
  PROVE  Before(t) = Chans
<1> DEFINE p == pos[t]
<1>1. p \in 1..Len(Order) + 1 /\ p > Len(Order)
  BY DEF Types, ThreadTypes
<1> HIDE DEF p
<1>2. 1..(p - 1) = 1..Len(Order)
  BY <1>1, OrderIsInjective
<1> QED BY <1>2, OrderIsInjective DEF Before, Chans, p

\* Going on with or without an entry for the channel.
LEMMA WentOnSoFar ==
  ASSUME Types, NEW t \in Threads, WentOn(t), SoFar(t), ~sent', UNCHANGED <<write, base>>,
         \/ ~write[Current(t)] /\ form'[t] = form[t]
         \/ /\ write[Current(t)]
            /\ \E e : /\ e.chan = Current(t) /\ e.base = base[Current(t)]
                      /\ form'[t] = form[t] \cup {e}
  PROVE  SoFar(t)'
<1>1. Before(t)' = Before(t) \cup {Current(t)} /\ pc'[t] = "open" /\ last'[t].status = "ok"
  BY BeforeNext DEF WentOn, SoFar
<1>2. CASE ~write[Current(t)] /\ form'[t] = form[t]
  BY <1>1, <1>2 DEF SoFar, ChansOf
<1>3. CASE /\ write[Current(t)]
           /\ \E e : /\ e.chan = Current(t) /\ e.base = base[Current(t)]
                     /\ form'[t] = form[t] \cup {e}
  <2>1. PICK e : /\ e.chan = Current(t) /\ e.base = base[Current(t)]
                 /\ form'[t] = form[t] \cup {e}
    BY <1>3
  <2>2. ChansOf(form'[t]) = ChansOf(form[t]) \cup {Current(t)}
    BY <2>1 DEF ChansOf
  <2>3. {c \in Before(t)' : write'[c]} = {c \in Before(t) : write[c]} \cup {Current(t)}
    BY <1>1, <1>3
  <2> QED BY <1>1, <2>1, <2>2, <2>3 DEF SoFar
<1> QED BY <1>2, <1>3

\* A thread that the step leaves alone, with what it has to do.
LEMMA UntouchedProgress ==
  ASSUME Types, History, NEW t \in Threads, Progress(t), Untouched(t),
         UNCHANGED <<read, serval>>
  PROVE  Progress(t)'
<1>1. clean'[t] => \A u \in Threads \ {t} : pc'[u] = "rest"
  BY CleanStep
<1>2. ASSUME Quiet(t)' PROVE Quiet(t) /\ ~(sent' /\ ~sent) /\ UNCHANGED <<params, failures>>
  <2>1. clean'[t] /\ ~failed' /\ (pc[t] # "rest" \/ pc'[t] = "rest") /\ UNCHANGED params
    BY <1>2, CleanStep DEF Quiet, Untouched
  <2> QED BY <1>2, <2>1, QuietStep DEF Quiet, Untouched
<1>3. ASSUME Quiet(t)', pc'[t] \in Making PROVE SoFar(t)'
  <2>1. SoFar(t) /\ ~sent' /\ UNCHANGED <<write, base>>
    BY <1>2, <1>3 DEF Progress, SoFar, Untouched, params
  <2> QED BY <2>1 DEF SoFar, Untouched, ChansOf, Before, Current
<1>4. ASSUME Quiet(t)', pc'[t] \in {"get", "rest"} PROVE Outcome(t)'
  <2>1. Outcome(t) /\ ~(sent' /\ ~sent) /\ UNCHANGED <<write, base>>
    BY <1>2, <1>4 DEF Progress, Untouched, params
  <2>2. sent' \in BOOLEAN /\ sent \in BOOLEAN
    BY HistoryStep DEF Types, HistoryTypes
  <2> QED BY <2>1, <2>2 DEF Outcome, Applied, Untouched, Enabled, ChansOf, serval
<1> QED BY <1>1, <1>3, <1>4 DEF Progress, Untouched

\* The other thread's requests: while they go on, thread t is not alone.
LEMMA DisturbedProgress ==
  ASSUME Types, History, NEW t \in Threads, Progress(t), Untouched(t), ~clean'[t]
  PROVE  Progress(t)'
BY DEF Progress, Quiet, Untouched

LEMMA RequestProgress ==
  ASSUME Shape, Served, NEW t \in Threads, Progress(t), Request(t)
  PROVE  Progress(t)'
<1>h. History /\ Types /\ Placed(t) /\ pc[t] \in Making \cup {"get"}
  BY DEF Shape, Request, OpenChannel, ReadBase, ReadFormat, AllRead, PreviewSettings, Put,
     GetServer, Making
<1>c. clean'[t] => \A u \in Threads \ {t} : pc'[u] = "rest"
  BY <1>h, CleanStep
<1>1. /\ UNCHANGED <<write, base>> /\ last'[t].kind = last[t].kind /\ pc'[t] # "check"
      /\ pc[t] = "get" => pc'[t] = "rest"
  BY <1>h, OpenChannelMoves, ReadBaseMoves, ReadFormatMoves, AllReadMoves, PreviewMoves, PutMoves,
     GetServerMoves DEF Request, params, WentOn, Returned, OpenChannel, ReadBase, ReadFormat,
     AllRead, PreviewSettings, Put, GetServer
<1> SUFFICES ASSUME Quiet(t)'
             PROVE  /\ pc'[t] \in Making => SoFar(t)'
                    /\ pc'[t] \in {"get", "rest"} => Outcome(t)'
  BY <1>c, <1>1 DEF Progress
<1>2. /\ Quiet(t) /\ UNCHANGED failures /\ (UNCHANGED serval /\ ~sent => ~sent')
      /\ last[t].kind # "data"
  <2>1. clean'[t] /\ ~failed' /\ pc[t] # "rest"
    BY <1>h DEF Quiet, Making
  <2> QED BY <1>h, <1>1, <2>1, QuietStep DEF Quiet
<1>3. pc[t] # "get" => SoFar(t)
  BY <1>h, <1>2 DEF Progress
<1>4. ASSUME SoFar(t), UNCHANGED serval, pc'[t] \in Making, UNCHANGED <<write, base>>,
             pc'[t] \notin {"base", "format"},
             pos'[t] = pos[t], form'[t] = form[t], last'[t] = last[t]
      PROVE  SoFar(t)'
  BY <1>2, <1>4 DEF SoFar, ChansOf, Before
<1>5. ASSUME SoFar(t), UNCHANGED serval, Returned(t, "error") PROVE Outcome(t)'
  BY <1>2, <1>5 DEF SoFar, Outcome, Returned
<1>6. CASE OpenChannel(t)
  <2>1. SoFar(t) /\ UNCHANGED serval /\ ~sent'
    BY <1>h, <1>2, <1>3, <1>6, OpenChannelMoves DEF OpenChannel, SoFar
  <2>2. ASSUME ~write[Current(t)], WentOn(t) PROVE SoFar(t)' /\ pc'[t] = "open"
    BY <1>h, <1>1, <1>6, <2>1, <2>2, OpenChannelMoves, WentOnSoFar DEF WentOn
  <2>3. ASSUME write[Current(t)], pc'[t] = "base", pos'[t] = pos[t] PROVE SoFar(t)' /\ pc'[t] = "base"
    <3>1. form'[t] = form[t] /\ last'[t] = last[t]
      BY <1>h, <1>6, OpenChannelMoves
    <3> QED BY <1>1, <2>1, <2>3, <3>1 DEF SoFar, ChansOf, Before, Current
  <2> QED BY <1>h, <1>6, <2>2, <2>3, OpenChannelMoves
<1>7. CASE ReadBase(t)
  <2>1. SoFar(t) /\ UNCHANGED serval /\ ~sent' /\ pc[t] = "base"
    BY <1>h, <1>2, <1>3, <1>7, ReadBaseMoves DEF ReadBase, SoFar
  <2>2. EntryRead(t).chan = Current(t) /\ EntryRead(t).base = base[Current(t)] /\ write[Current(t)]
    BY <2>1 DEF EntryRead, SoFar
  <2>3. ASSUME pc'[t] = "format", entry'[t] = EntryRead(t), pos'[t] = pos[t], form'[t] = form[t],
               last'[t] = last[t]
        PROVE  SoFar(t)'
    BY <1>1, <2>1, <2>2, <2>3 DEF SoFar, ChansOf, Before, Current
  <2>4. ASSUME WentOn(t), form'[t] = form[t] \cup {EntryRead(t)} PROVE SoFar(t)' /\ pc'[t] = "open"
    BY <1>h, <1>1, <2>1, <2>2, <2>4, WentOnSoFar DEF WentOn
  <2>5. ASSUME Returned(t, "error") PROVE Outcome(t)' /\ pc'[t] \in {"get", "rest"}
    BY <1>5, <2>1, <2>5 DEF Returned
  <2> QED BY <1>h, <1>7, <2>3, <2>4, <2>5, ReadBaseMoves DEF Making
<1>8. CASE ReadFormat(t)
  <2>1. SoFar(t) /\ UNCHANGED serval /\ ~sent' /\ pc[t] = "format"
    BY <1>h, <1>2, <1>3, <1>8, ReadFormatMoves DEF ReadFormat, SoFar
  <2>2. EntryFinished(t).chan = Current(t) /\ EntryFinished(t).base = base[Current(t)]
        /\ write[Current(t)]
    BY <1>h, <2>1 DEF EntryFinished, SoFar, Placed, Types, ThreadTypes, Entries
  <2>3. ASSUME WentOn(t), form'[t] = form[t] \cup {EntryFinished(t)}
        PROVE  SoFar(t)' /\ pc'[t] = "open"
    BY <1>h, <1>1, <2>1, <2>2, <2>3, WentOnSoFar DEF WentOn
  <2>4. ASSUME Returned(t, "error") PROVE Outcome(t)' /\ pc'[t] \in {"get", "rest"}
    BY <1>5, <2>1, <2>4 DEF Returned
  <2> QED BY <1>h, <1>8, <2>3, <2>4, ReadFormatMoves DEF Making
<1>9. CASE AllRead(t)
  <2>1. SoFar(t) /\ UNCHANGED serval /\ ~sent'
    BY <1>h, <1>2, <1>3, <1>9, AllReadMoves DEF SoFar
  <2>2. ASSUME form[t] = {}, Returned(t, "ok") PROVE Outcome(t)' /\ pc'[t] \in {"get", "rest"}
    <3>1. Enabled = {}
      BY <1>h, <1>9, <2>1, <2>2, AllReadMoves, BeforeAll DEF SoFar, ChansOf, Enabled
    <3> QED BY <1>1, <2>1, <2>2, <3>1 DEF Outcome, Enabled, Returned
  <2>3. ASSUME pc'[t] \in {"preview", "put"}, pos'[t] = pos[t], form'[t] = form[t],
               last'[t] = last[t]
        PROVE  SoFar(t)'
    BY <1>1, <1>4, <2>1, <2>3 DEF Making
  <2> QED BY <1>h, <1>9, <2>2, <2>3, AllReadMoves DEF Making
<1>10. CASE PreviewSettings(t)
  <2>1. SoFar(t) /\ UNCHANGED serval
    BY <1>h, <1>3, <1>10, PreviewMoves
  <2>2. ASSUME Returned(t, "error") PROVE Outcome(t)' /\ pc'[t] \in {"get", "rest"}
    BY <1>5, <2>1, <2>2 DEF Returned
  <2>3. ASSUME pc'[t] = "put", pos'[t] = pos[t], form'[t] = form[t], last'[t] = last[t]
        PROVE  SoFar(t)'
    BY <1>1, <1>4, <2>1, <2>3 DEF Making
  <2> QED BY <1>h, <1>10, <2>2, <2>3, PreviewMoves DEF Making
<1>11. CASE Put(t)
  <2>1. SoFar(t) /\ form[t] # {} /\ Before(t) = Chans /\ pc'[t] \in {"get", "rest"}
    BY <1>h, <1>3, <1>11, PutMoves, BeforeAll DEF Placed, Returned
  <2>2. ASSUME Returned(t, "ok"), isSet', destination'.doc = form[t] PROVE Outcome(t)'
    <3>1. ChansOf(destination.doc)' = Enabled' /\ Enabled' # {}
      BY <1>1, <2>1, <2>2 DEF SoFar, ChansOf, Enabled
    <3>2. \A e \in destination'.doc : e.base = base'[e.chan]
      BY <1>1, <2>1, <2>2 DEF SoFar
    <3>3. pc'[t] # "rest"
      BY <2>2 DEF Returned
    <3> QED BY <2>2, <3>1, <3>2, <3>3 DEF Outcome, Applied, Returned
  <2>3. \/ Returned(t, "ok") /\ isSet' /\ destination'.doc = form[t]
        \/ Returned(t, "error") /\ UNCHANGED serval
    BY <1>h, <1>2, <1>11, PutMoves
  <2> QED BY <1>5, <2>1, <2>2, <2>3 DEF Making
<1>12. CASE GetServer(t)
  <2>1. /\ pc[t] = "get" /\ pc'[t] = "rest" /\ UNCHANGED <<params, serval>>
        /\ last'[t] = last[t]
        /\ isSet => read' = [c \in Chans |-> c.index < Length(c.group)]
    BY <1>h, <1>2, <1>12, GetServerMoves
  <2>2. Outcome(t)
    BY <1>2, <2>1 DEF Progress
  <2>3. ASSUME last[t].status = "ok", Applied, isSet PROVE HasHole(destination.doc) \/ read' = write
    <3> SUFFICES ASSUME ~HasHole(destination.doc) PROVE read' = write
      OBVIOUS
    <3>1. ~destination.holes
      BY DEF Served
    <3>2. \A c \in Chans : c.index < Length(c.group) <=> c \in Enabled
      BY <1>h, <2>3, <3>1, LengthsTell DEF Applied
    <3>3. write = [c \in Chans |-> write[c]] /\ \A c \in Chans : write[c] \in BOOLEAN
      BY <1>h DEF Types, ParamTypes
    <3>4. \A c \in Chans : (c.index < Length(c.group)) = write[c]
      BY <3>2, <3>3 DEF Enabled
    <3>5. read' = [c \in Chans |-> write[c]]
      BY <2>1, <2>3, <3>4
    <3> QED BY <3>3, <3>5
  <2> QED BY <1>2, <2>1, <2>2, <2>3 DEF Outcome, Applied, Enabled, ChansOf, HasHole, Making, params, serval
<1> QED BY <1>6, <1>7, <1>8, <1>9, <1>10, <1>11, <1>12 DEF Request

\* Thread t begins to apply the parameters.
LEMMA BeginProgress ==
  ASSUME Types, History, NEW t \in Threads, Placed(t), pc[t] = "rest", pc'[t] = "open",
         pos'[t] = pos[t], form'[t] = form[t], last'[t].status = "ok", UNCHANGED serval
  PROVE  Progress(t)'
<1>1. clean'[t] => ~sent' /\ \A u \in Threads \ {t} : pc'[u] = "rest"
  BY CleanStep, BeginStep
<1>2. form'[t] = {} /\ pos'[t] = 1
  BY DEF Placed, Making
<1>3. Before(t)' = {} /\ ChansOf(form'[t]) = {}
  BY <1>2 DEF Before, ChansOf
<1>4. clean'[t] => SoFar(t)'
  BY <1>1, <1>2, <1>3 DEF SoFar
<1> QED BY <1>1, <1>4 DEF Progress, Quiet

LEMMA NextProgress ==
  ASSUME Shape, Served, \A t \in Threads : Progress(t), [Next]_vars
  PROVE  \A t \in Threads : Progress(t)'
<1>p. /\ Types /\ Placed(Port) /\ Placed(Poll) /\ Port \in Threads /\ Poll \in Threads /\ Port # Poll
      /\ \A t \in Threads : t = Port \/ t = Poll
  BY ChannelAssumption DEF Shape, Threads
<1>q. Progress(Port) /\ Progress(Poll)
  BY <1>p
<1>1. ASSUME NEW t \in Threads, Request(t) PROVE \A u \in Threads : Progress(u)'
  <2>1. History /\ pc[t] # "rest" /\ Placed(t)
    BY <1>1 DEF Shape, Request, OpenChannel, ReadBase, ReadFormat, AllRead, PreviewSettings, Put,
       GetServer
  <2>2. \A u \in Threads \ {t} : ~clean'[u] /\ Untouched(u)
    BY <1>p, <1>1, <2>1, CleanStep, RequestUntouched
  <2> QED BY <1>p, <1>1, <2>1, <2>2, RequestProgress, DisturbedProgress
<1>2. CASE PortWrites
  <2>h. History
    BY <1>2 DEF PortWrites, WriteEnable, WriteBase, CheckBase, WriteChoice, Apply, Write
  <2>1. Progress(Poll)'
    BY <1>p, <1>q, <1>2, <2>h, PortMoves, UntouchedProgress DEF PortWrites
  <2>2. Progress(Port)'
    <3>1. clean'[Port] => \A u \in Threads \ {Port} : pc'[u] = "rest"
      BY <1>p, <2>h, CleanStep
    <3>2. CASE Enabling \/ Basing \/ Choosing
      BY <3>1, <3>2 DEF Enabling, Basing, Choosing, Progress, Quiet
    <3>3. CASE Checking
      BY <1>q, <3>1, <3>3 DEF Checking, Progress, Quiet
    <3>4. CASE Applying
      BY <1>p, <1>2, <2>h, <3>4, PortMoves, BeginProgress DEF Applying, PortWrites
    <3> QED BY <1>p, <1>2, <3>2, <3>3, <3>4, PortMoves DEF PortWrites
  <2> QED BY <1>p, <2>1, <2>2
<1>3. CASE PollStarts
  <2>h. History
    BY <1>3 DEF PollStarts
  <2>1. Progress(Poll)'
    BY <1>p, <1>3, <2>h, PollStartsMoves, BeginProgress
  <2>2. ~clean'[Port]
    BY <1>p, <1>3, <2>h, CleanStep, PollStartsMoves
  <2> QED BY <1>p, <1>q, <1>3, <2>h, <2>1, <2>2, PollStartsMoves, DisturbedProgress
<1>4. CASE Outage
  <2>h. History
    BY <1>4 DEF Outage
  <2>1. ~clean'[Port] /\ ~clean'[Poll]
    BY <1>p, <1>4, <2>h, CleanStep, OutageMoves
  <2> QED BY <1>p, <1>q, <1>4, <2>h, <2>1, OutageMoves, DisturbedProgress
<1>5. CASE UNCHANGED vars
  <2>1. /\ UNCHANGED <<clean, failed, last, sent, pc, pos, form, entry, write, base, read>>
        /\ UNCHANGED <<destination, isSet>>
    BY <1>5 DEF vars, params, serval, work, counts, history
  <2> TAKE t \in Threads
  <2>2. Quiet(t)' <=> Quiet(t)
    BY <2>1 DEF Quiet
  <2>3. SoFar(t) => SoFar(t)'
    BY <2>1 DEF SoFar, ChansOf, Before, Current
  <2>4. Outcome(t) => Outcome(t)'
    BY <2>1 DEF Outcome, Applied, Enabled, ChansOf, HasHole
  <2> QED BY <2>1, <2>2, <2>3, <2>4 DEF Progress
<1> QED BY <1>p, <1>1, <1>2, <1>3, <1>4, <1>5 DEF Next, PortStep, PortWrites

-----------------------------------------------------------------------------
(* The theorems.                                                              *)

IInv == Shape /\ Fits /\ Served /\ \A t \in Threads : Progress(t)

\* What holds of the channels, the threads and Serval, whatever is written and
\* whatever fails, is kept by every step.
THEOREM Invariant == Spec => []IInv
<1>1. Init => IInv
  BY InitShape, InitFits, InitServed, InitProgress DEF IInv
<1>2. IInv /\ [Next]_vars => IInv'
  BY NextShape, NextFits, NextServed, NextProgress DEF IInv
<1> QED BY <1>1, <1>2, PTL DEF Spec

\* The variables keep their types, and a channel has one entry in a document.
THEOREM TypeCorrect == Spec => []TypeOK
<1>1. IInv => TypeOK
  <2> SUFFICES ASSUME IInv PROVE TypeOK
    OBVIOUS
  <2>1. Types /\ OnePerChannel(destination.doc)
    BY DEF IInv, Shape, Served
  <2>2. destination.doc \subseteq Entries /\ destination.holes \in BOOLEAN
    BY <2>1 DEF Types, ServalTypes
  <2>3. Cardinality(ChansOf(destination.doc)) = Cardinality(destination.doc)
    BY <2>1, <2>2, DocumentSize
  <2> QED BY <2>1, <2>2, <2>3
          DEF Types, ParamTypes, ServalTypes, ThreadTypes, CountTypes, HistoryTypes, TypeOK
<1> QED BY <1>1, Invariant, PTL

\* Serval is never given a channel whose choices do not fit its Base, but a raw
\* one whose Base was written while the document was made.
THEOREM BasesFitHolds == Spec => []BasesFit
<1>1. IInv => BasesFit
  BY DEF IInv, Fits, Fitting, IsFile, BasesFit
<1> QED BY <1>1, Invariant, PTL

\* ApplyConfig and a reconnection apply the parameters of all enabled channels
\* and of no other, or leave Serval what it had.
THEOREM AppliedOrKeptHolds == Spec => []AppliedOrKept
<1>1. IInv => AppliedOrKept
  <2> SUFFICES ASSUME IInv, NEW t \in Threads, pc[t] = "rest", Quiet(t)
               PROVE  Outcome(t)
    BY DEF AppliedOrKept, Quiet, Outcome, Applied
  <2> QED BY DEF IInv, Progress
<1> QED BY <1>1, Invariant, PTL

=============================================================================
