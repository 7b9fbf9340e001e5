------------------------------- MODULE Channels -------------------------------
(***************************************************************************)
(* The output channels of Serval (ADTimePix.cpp, serval_http.cpp): where   *)
(* raw data, images and histograms go. A channel's enable, Base and format *)
(* are parameters; fileWriter makes one document of those of all enabled   *)
(* channels and PUTs it to /server/destination, getServer tells from the   *)
(* lengths of Serval's arrays which channels are on. fileWriter runs on    *)
(* the port thread (WriteData, ApplyConfig) and, without the port lock, on *)
(* the poll thread (refreshOnReconnect), where it may read some parameters *)
(* before and some after a write; a write of a Base is itself two steps.   *)
(* The format stands for all the choices that fileWriter checks.           *)
(***************************************************************************)
EXTENDS Integers, Sequences, FiniteSets

CONSTANTS
  Port, Poll,  \* the threads
  Order,       \* the channels in fileWriter's order: [group, index]
  Bases,       \* the kinds of Base that are written
  MaxWrites, MaxOutages, MaxFailures  \* bounds

Threads == {Port, Poll}
Chans == {Order[i] : i \in DOMAIN Order}

\* "gone": file:/ and a directory that does not exist; "slashes": file://; "short":
\* at most six characters.
Kinds == {"file", "gone", "slashes", "http", "tcp", "other", "short", ""}
Formats == {"tiff", "json", "bad"}

ASSUME ChannelAssumption ==
  /\ Port # Poll /\ Bases \subseteq Kinds
  /\ Order \in Seq([group : {"Raw", "Image", "PreviewImage", "PreviewHistogram"}, index : {0, 1}])
  /\ Order # <<>> /\ Cardinality(Chans) = Len(Order)
  /\ MaxWrites \in Nat /\ MaxOutages \in Nat /\ MaxFailures \in Nat

VARIABLES
  write, base, stream, exists, format,  \* of each channel: Write*, *Base, *Stream, *FilePathExists
  sampling,     \* is PrvSamplingMode in range?
  read,         \* Write*_RBV
  destination,  \* Serval: its channels, and whether a hole before one counts as a channel
  isSet,        \* Serval: has it got a destination?
  pc, pos,      \* where a thread is, and at which channel
  seen, entry, form,  \* the stream kind it read, a channel's JSON, the document
  missed,       \* an outage that the poll thread has yet to follow up
  writes, outages, failures,
  last, sent, clean, failed, torn, mixed  \* history: see below

params == <<write, base, stream, exists, format, sampling>>
serval == <<destination, isSet>>
work == <<seen, entry, form>>
counts == <<missed, writes, outages>>
history == <<last, sent, clean, failed, torn, mixed>>
vars == <<params, read, serval, pc, pos, work, counts, failures, history>>

-----------------------------------------------------------------------------
Preview(c) == c.group \in {"PreviewImage", "PreviewHistogram"}
Streamed(c) == c.group \in {"Raw", "PreviewHistogram"}  \* has a *Stream parameter

\* A document: channel 1 of a group may be there without channel 0.
ChansOf(doc) == {e.chan : e \in doc}
HasHole(doc) ==
  \E c \in ChansOf(doc) : c.index = 1 /\ [c EXCEPT !.index = 0] \notin ChansOf(doc)

\* The length of an array in Serval's answer.
Length(g) ==
  LET own == {c \in ChansOf(destination.doc) : c.group = g}
  IN IF destination.holes /\ own # {}
     THEN IF \E c \in own : c.index = 1 THEN 2 ELSE 1
     ELSE Cardinality(own)

\* checkChannelPath: *Stream and *FilePathExists, for a Base that is not empty.
StreamFor(k, old) ==
  CASE k \in {"file", "gone"} -> 0
    [] k = "http" -> 1
    [] k = "tcp" -> 2
    [] k \in {"other", "slashes"} -> 3
    [] k \in {"short", ""} -> old
ExistsFor(k, old) == IF k = "" THEN old ELSE k \in {"file", "http", "tcp"}

Labels == {"rest", "check", "open", "base", "format", "preview", "put", "get"}
Entries == [chan : Chans, base : Kinds, format : Formats, split : BOOLEAN]
NoEntry == [chan |-> Order[1], base |-> "", format |-> "json", split |-> FALSE]

\* The variables keep their types, and a document has an entry for a channel once.
TypeOK ==
  /\ write \in [Chans -> BOOLEAN] /\ base \in [Chans -> Kinds] /\ stream \in [Chans -> 0..3]
  /\ exists \in [Chans -> BOOLEAN] /\ format \in [Chans -> Formats] /\ sampling \in BOOLEAN
  /\ read \in [Chans -> BOOLEAN] /\ isSet \in BOOLEAN
  /\ destination.doc \subseteq Entries /\ destination.holes \in BOOLEAN
  /\ Cardinality(ChansOf(destination.doc)) = Cardinality(destination.doc)
  /\ pc \in [Threads -> Labels] /\ pos \in [Threads -> 1..Len(Order) + 1]
  /\ \A t \in Threads : form[t] \subseteq Entries
  /\ writes \in 0..MaxWrites /\ outages \in 0..MaxOutages /\ failures \in 0..MaxFailures

Nowhere == [doc |-> {}, holes |-> FALSE]

\* The initialisation script has written the parameters, all Bases of one kind;
\* nothing is applied yet.
Init ==
  /\ write \in [Chans -> BOOLEAN]
  /\ \E k \in Bases \cap {"file", "gone", "tcp"} : base = [c \in Chans |-> k]
  /\ stream = [c \in Chans |-> IF Streamed(c) THEN StreamFor(base[c], 0) ELSE 0]
  /\ exists = [c \in Chans |-> ExistsFor(base[c], FALSE)]
  /\ format = [c \in Chans |-> "tiff"] /\ sampling = TRUE
  /\ read = [c \in Chans |-> FALSE] /\ destination = Nowhere /\ isSet = FALSE
  /\ pc = [t \in Threads |-> "rest"] /\ pos = [t \in Threads |-> 1]
  /\ seen = [t \in Threads |-> 0] /\ entry = [t \in Threads |-> NoEntry]
  /\ form = [t \in Threads |-> {}]
  /\ missed = FALSE /\ writes = 0 /\ outages = 0 /\ failures = 0
  /\ last = [t \in Threads |-> [kind |-> "none", status |-> "ok"]]
  /\ sent = FALSE /\ clean = [t \in Threads |-> FALSE] /\ failed = FALSE
  /\ torn = [t \in Threads |-> FALSE] /\ mixed = FALSE

-----------------------------------------------------------------------------
(***************************************************************************)
(* History. last[t]: the operation of thread t and its status; sent: the   *)
(* destination has changed, failed: a request has failed, since the last   *)
(* operation began; clean[t]: the other thread has rested and nothing was  *)
(* out since t's began; torn[t]: parameters changed while t made its       *)
(* document, or its Base was not checked yet; mixed: so was Serval's.      *)
(***************************************************************************)
Making == {"open", "base", "format", "preview", "put"}

History ==
  LET begins(t) == pc[t] = "rest" /\ pc'[t] # "rest"
      begun == \E t \in Threads : begins(t)
      rests(t) == pc[t] = "rest" /\ pc'[t] = "rest"
  IN /\ clean' = [t \in Threads |->
          /\ begins(t) \/ clean[t]
          /\ \A u \in Threads \ {t} : rests(u)
          /\ params' = params \/ pc'[t] # pc[t]
          /\ outages' = outages]
     /\ sent' = (serval' # serval \/ (sent /\ ~begun))
     /\ failed' = (failures' # failures \/ (failed /\ ~begun))
     /\ torn' = [t \in Threads |->
          /\ pc'[t] \in Making
          /\ \/ torn[t] \/ \E u \in Threads \ {t} : pc'[u] = "check"
             \/ pc[t] \in Making /\ pc'[t] = pc[t] /\ params' # params]
     /\ mixed' = IF destination' # destination
                 THEN \E t \in Threads : pc[t] = "put" /\ pc'[t] # "put" /\ torn[t]
                 ELSE mixed

Goto(t, label) == pc' = [pc EXCEPT ![t] = label]
Answers == UNCHANGED failures
Fails == failures < MaxFailures /\ failures' = failures + 1
Still == UNCHANGED counts
NoWork(t) ==
  /\ pos' = [pos EXCEPT ![t] = 1] /\ seen' = [seen EXCEPT ![t] = 0]
  /\ entry' = [entry EXCEPT ![t] = NoEntry] /\ form' = [form EXCEPT ![t] = {}]

\* fileWriter returns. ApplyConfig goes on to getServer only if it succeeded.
Return(t, status) ==
  /\ NoWork(t)
  /\ Goto(t, IF status = "error" /\ last[t].kind = "apply" THEN "rest" ELSE "get")
  /\ last' = [last EXCEPT ![t].status = status]

-----------------------------------------------------------------------------
(***************************************************************************)
(* fileWriter, channel by channel.                                         *)
(***************************************************************************)
Current(t) == Order[pos[t]]
NextChannel(t) ==
  /\ Goto(t, "open") /\ pos' = [pos EXCEPT ![t] = @ + 1]
  /\ seen' = [seen EXCEPT ![t] = 0] /\ entry' = [entry EXCEPT ![t] = NoEntry]

\* Is the channel enabled? With *Stream read before *Base.
OpenChannel(t) ==
  /\ pc[t] = "open" /\ pos[t] <= Len(Order)
  /\ \/ ~write[Current(t)] /\ NextChannel(t) /\ UNCHANGED form
     \/ /\ write[Current(t)] /\ Goto(t, "base")
        /\ seen' = [seen EXCEPT ![t] = stream[Current(t)]] /\ UNCHANGED <<pos, entry, form>>
  /\ UNCHANGED <<params, read, serval, failures, last>> /\ Still /\ History

\* Base. A raw file gets a SplitStrategy, which must be in range, and is done.
ReadBase(t) ==
  /\ pc[t] = "base"
  /\ LET c == Current(t)
         split == c.group = "Raw" /\ base[c] # "tcp" /\ seen[t] = 0
         e == [chan |-> c, base |-> base[c], format |-> "json", split |-> split]
     IN \/ c.group # "Raw" /\ Goto(t, "format") /\ entry' = [entry EXCEPT ![t] = e]
           /\ UNCHANGED <<pos, seen, form, last>>
        \/ c.group = "Raw" /\ split /\ format[c] = "bad" /\ Return(t, "error")
        \/ c.group = "Raw" /\ (split => format[c] # "bad") /\ NextChannel(t)
           /\ form' = [form EXCEPT ![t] = @ \cup {e}] /\ UNCHANGED last
  /\ UNCHANGED <<params, read, serval, failures>> /\ Still /\ History

\* Images have no tiff or png over TCP: the parameter becomes jsonimage.
FormatFor(c, k) ==
  IF c.group # "PreviewHistogram" /\ k = "tcp" /\ format[c] = "tiff" THEN "json" ELSE format[c]

\* Mutant: the Base is read again.
ReadFormatRereads(t) ==
  /\ pc[t] = "format"
  /\ LET c == Current(t)
         f == FormatFor(c, base[c])
     IN /\ format' = [format EXCEPT ![c] = f]
        /\ \/ f = "bad" /\ Return(t, "error")
           \/ /\ f # "bad" /\ NextChannel(t) /\ UNCHANGED last
              /\ form' = [form EXCEPT ![t] = @ \cup {[entry[t] EXCEPT !.format = f]}]
  /\ UNCHANGED <<write, base, stream, exists, sampling, read, serval, failures>> /\ Still /\ History

\* Mutant: a channel that does not fit is left out.
ReadFormatSkips(t) ==
  /\ pc[t] = "format" /\ NextChannel(t)
  /\ LET c == Current(t)
         f == FormatFor(c, entry[t].base)
     IN /\ format' = [format EXCEPT ![c] = f]
        /\ form' = IF f = "bad" THEN form
                   ELSE [form EXCEPT ![t] = @ \cup {[entry[t] EXCEPT !.format = f]}]
  /\ UNCHANGED <<write, base, stream, exists, sampling, read, serval, failures, last>>
  /\ Still /\ History

\* The rest of an image or histogram channel; one index out of range is an error.
ReadFormat(t) ==
  /\ pc[t] = "format"
  /\ LET c == Current(t)
         f == FormatFor(c, entry[t].base)
     IN /\ format' = [format EXCEPT ![c] = f]
        /\ \/ f = "bad" /\ Return(t, "error")
           \/ /\ f # "bad" /\ NextChannel(t) /\ UNCHANGED last
              /\ form' = [form EXCEPT ![t] = @ \cup {[entry[t] EXCEPT !.format = f]}]
  /\ UNCHANGED <<write, base, stream, exists, sampling, read, serval, failures>> /\ Still /\ History

\* After the last channel; without any, nothing is sent, which is no error.
AllRead(t) ==
  /\ pc[t] = "open" /\ pos[t] > Len(Order)
  /\ \/ form[t] = {} /\ Return(t, "ok")
     \/ /\ form[t] # {} /\ UNCHANGED <<pos, work, last>>
        /\ Goto(t, IF \E c \in ChansOf(form[t]) : Preview(c) THEN "preview" ELSE "put")
  /\ UNCHANGED <<params, read, serval, failures>> /\ Still /\ History

\* configurePreviewSettings.
PreviewSettings(t) ==
  /\ pc[t] = "preview"
  /\ \/ sampling /\ Goto(t, "put") /\ UNCHANGED <<pos, work, last>>
     \/ ~sampling /\ Return(t, "error")
  /\ UNCHANGED <<params, read, serval, failures>> /\ Still /\ History

\* Mutant: the document is added to the one Serval has.
PutAdds(t) ==
  /\ pc[t] = "put"
  /\ LET takes(holes) ==
           destination' = [doc |-> form[t] \cup destination.doc, holes |-> holes] /\ isSet' = TRUE
     IN \/ Answers /\ takes(FALSE) /\ Return(t, "ok")
        \/ Fails /\ UNCHANGED serval /\ Return(t, "error")
  /\ UNCHANGED <<params, read>> /\ Still /\ History

\* sendConfiguration: PUT /server/destination. What Serval makes of a channel 1
\* without a channel 0, an array that begins with null, is open; any PUT may fail,
\* and the answer to one that did not fail be lost.
Put(t) ==
  /\ pc[t] = "put"
  /\ LET takes(holes) == destination' = [doc |-> form[t], holes |-> holes] /\ isSet' = TRUE
     IN \/ Answers /\ takes(FALSE) /\ Return(t, "ok")
        \/ Answers /\ HasHole(form[t]) /\ takes(TRUE) /\ Return(t, "ok")
        \/ Answers /\ HasHole(form[t]) /\ UNCHANGED serval /\ Return(t, "error")
        \/ Fails /\ (takes(FALSE) \/ UNCHANGED serval) /\ Return(t, "error")
  /\ UNCHANGED <<params, read>> /\ Still /\ History

\* getServer. Without an answer, or a destination, the values of before stay.
GetServer(t) ==
  /\ pc[t] = "get" /\ Goto(t, "rest")
  /\ \/ Answers /\ isSet /\ read' = [c \in Chans |-> c.index < Length(c.group)]
     \/ Answers /\ ~isSet /\ UNCHANGED read
     \/ Fails /\ UNCHANGED read
  /\ last' = IF last[t].kind = "data" THEN [last EXCEPT ![t].status = "ok"] ELSE last
  /\ UNCHANGED <<params, serval, pos, work>> /\ Still /\ History

Request(t) ==
  \/ OpenChannel(t) \/ ReadBase(t) \/ ReadFormat(t) \/ AllRead(t) \/ PreviewSettings(t)
  \/ Put(t) \/ GetServer(t)

-----------------------------------------------------------------------------
(***************************************************************************)
(* The port thread.                                                        *)
(***************************************************************************)
Write(kind, label) ==
  /\ pc[Port] = "rest" /\ writes < MaxWrites /\ writes' = writes + 1
  /\ Goto(Port, label) /\ last' = [last EXCEPT ![Port] = [kind |-> kind, status |-> "ok"]]
  /\ UNCHANGED <<read, serval, work, missed, outages, failures>> /\ History

\* Write*: the parameter, then getServer.
WriteEnable ==
  /\ \E c \in Chans : write' = [write EXCEPT ![c] = ~@]
  /\ UNCHANGED <<base, stream, exists, format, sampling, pos>> /\ Write("enable", "get")

\* writeOctet: the Base is set before it is checked.
WriteBase ==
  /\ \E c \in Chans : \E k \in Bases \ {base[c]} :
       base' = [base EXCEPT ![c] = k] /\ pos' = [pos EXCEPT ![Port] = CHOOSE i \in DOMAIN Order : Order[i] = c]
  /\ UNCHANGED <<write, stream, exists, format, sampling>> /\ Write("base", "check")

\* Mutant: a directory that does not exist is noticed too early.
CheckBaseFirst ==
  /\ pc[Port] = "check" /\ Goto(Port, "rest") /\ pos' = [pos EXCEPT ![Port] = 1]
  /\ LET c == Current(Port)
     IN /\ stream' = IF Streamed(c) /\ base[c] # "gone"
                     THEN [stream EXCEPT ![c] = StreamFor(base[c], @)] ELSE stream
        /\ exists' = [exists EXCEPT ![c] = ExistsFor(base[c], @)]
  /\ UNCHANGED <<write, base, format, sampling, read, serval, work, failures, last>> /\ Still /\ History

\* checkChannelPath. writeOctet drops its status.
CheckBase ==
  /\ pc[Port] = "check" /\ Goto(Port, "rest") /\ pos' = [pos EXCEPT ![Port] = 1]
  /\ LET c == Current(Port)
     IN /\ stream' = IF Streamed(c) THEN [stream EXCEPT ![c] = StreamFor(base[c], @)] ELSE stream
        /\ exists' = [exists EXCEPT ![c] = ExistsFor(base[c], @)]
  /\ UNCHANGED <<write, base, format, sampling, read, serval, work, failures, last>> /\ Still /\ History

\* Parameters that are only set.
WriteChoice ==
  /\ \/ \E c \in Chans : \E f \in Formats \ {format[c]} : format' = [format EXCEPT ![c] = f] /\ UNCHANGED sampling
     \/ sampling' = ~sampling /\ UNCHANGED format
  /\ UNCHANGED <<write, base, stream, exists, pos>> /\ Write("choice", "rest")

\* WriteData, ApplyConfig: fileWriter, then getServer.
Apply == UNCHANGED <<params, pos>> /\ (Write("data", "open") \/ Write("apply", "open"))

PortStep == WriteEnable \/ WriteBase \/ CheckBase \/ WriteChoice \/ Apply \/ Request(Port)

-----------------------------------------------------------------------------
\* connectionPollThread finds the connection up again: refreshOnReconnect.
PollStarts ==
  /\ pc[Poll] = "rest" /\ missed /\ missed' = FALSE /\ Goto(Poll, "open")
  /\ last' = [last EXCEPT ![Poll] = [kind |-> "refresh", status |-> "ok"]]
  /\ UNCHANGED <<params, read, serval, pos, work, writes, outages, failures>> /\ History

\* Serval or the network is away for a while; Serval may have to start afresh.
Outage ==
  /\ outages < MaxOutages /\ outages' = outages + 1 /\ missed' = TRUE
  /\ \/ UNCHANGED serval
     \/ destination' = Nowhere /\ isSet' = FALSE
  /\ UNCHANGED <<params, read, pc, pos, work, writes, failures, last>> /\ History

Next == PortStep \/ PollStarts \/ Request(Poll) \/ Outage

Spec == Init /\ [][Next]_vars

-----------------------------------------------------------------------------
\* serval_http.cpp:1913, 1798: an image channel that goes to TCP is never asked
\* for tiff or png, wherever a write falls between the poll thread's reads; a raw
\* channel that goes to a file has its SplitStrategy, whatever its Base was before,
\* unless such a write tore the document.
BasesFit ==
  \A e \in destination.doc :
    /\ e.chan.group \notin {"Raw", "PreviewHistogram"} /\ e.base = "tcp" => e.format # "tiff"
    /\ e.chan.group = "Raw" /\ e.base \in {"file", "gone"} /\ ~mixed => e.split

Enabled == {c \in Chans : write[c]}

\* README.md:153, 148: the parameters are applied when ApplyConfig is written, and
\* again on a reconnection. If nothing fails and nobody interferes, Serval has all
\* enabled channels with the present Bases and no other channel, and the read-back
\* says so; or one thing did not fit and Serval has what it had. But without any
\* enabled channel nothing is sent, so that the last one cannot be switched off, and
\* a channel 1 alone is read back as a channel 0.
AppliedOrKept ==
  \A t \in Threads :
    (pc[t] = "rest" /\ clean[t] /\ ~failed /\ last[t].kind \in {"apply", "refresh"}) =>
      \/ /\ last[t].status = "ok" /\ Enabled # {}
         /\ ChansOf(destination.doc) = Enabled
         /\ \A e \in destination.doc : e.base = base[e.chan]
         /\ HasHole(destination.doc) \/ read = write
      \/ ~sent /\ (last[t].status = "error" \/ Enabled = {})
=============================================================================
