---------------------------- MODULE MqttHandlers ----------------------------
(***************************************************************************)
(* Which function a message is handed to: the table of MQTT::Client, which *)
(* subscribe, unsubscribe, disconnect and every lost session change.  The  *)
(* program has one entry in it; here are as many as the table takes.       *)
(***************************************************************************)
EXTENDS MqttReading

MaxHandlers == 5                \* MAX_MESSAGE_HANDLERS

\* A slot's filter is <<>> when the slot is free; a handler is a number, 0
\* for none.
NoFilter == <<>>
Free == [filter |-> NoFilter, handler |-> 0]
NoHandlers == [i \in 1..MaxHandlers |-> Free]

With(table, filter) == {i \in DOMAIN table : table[i].filter = filter}

\* setMessageHandler: the slot of the filter, or else the first free one.
RemoveHandler(table, filter) ==
    LET here == With(table, filter)
    IN  [ok |-> here # {}, table |-> IF here = {} THEN table ELSE [table EXCEPT ![Min(here)] = Free]]

AddHandler(table, filter, handler) ==
    LET here == IF With(table, filter) # {} THEN With(table, filter) ELSE With(table, NoFilter)
    IN  [ok |-> here # {},
         table |-> IF here = {} THEN table
                   ELSE [table EXCEPT ![Min(here)] = [filter |-> filter, handler |-> handler]]]

SetMessageHandler(table, filter, handler) ==
    IF handler = 0 THEN RemoveHandler(table, filter) ELSE AddHandler(table, filter, handler)

\* cleanSession clears the filters and leaves the functions.
CleanSession(table) == [i \in DOMAIN table |-> [table[i] EXCEPT !.filter = NoFilter]]

\* A client is [connected, table, id], id the last packet number.
CloseSession(c) == [c EXCEPT !.connected = FALSE, !.table = CleanSession(c.table)]
Disconnect(c) == CloseSession(c)

NextId(id) == IF id = 65535 THEN 1 ELSE id + 1

\* subscribe, granted or not, or the answer does not come.
SubscribeTo(c, filter, handler, answer) ==
    LET asked == [c EXCEPT !.id = NextId(c.id)]
        set   == SetMessageHandler(c.table, filter, handler)
    IN  IF ~c.connected THEN CloseSession(c)
        ELSE IF answer = "none" \/ (answer = "granted" /\ ~set.ok) THEN CloseSession(asked)
        ELSE IF answer = "granted" THEN [asked EXCEPT !.table = set.table] ELSE asked

UnsubscribeFrom(c, filter, answer) ==
    LET asked == [c EXCEPT !.id = NextId(c.id)]
    IN  IF ~c.connected THEN CloseSession(c)
        ELSE IF answer = "none" THEN CloseSession(asked)
        ELSE [asked EXCEPT !.table = SetMessageHandler(c.table, filter, 0).table]

\* deliverMessage: the handlers that are called, in order; the default one
\* when nothing else was.
Takes(slot, name) == slot.filter # NoFilter /\ slot.handler # 0 /\ Handles(slot.filter, name)

Delivered(table, default, name) ==
    LET mine == FlattenSeq([i \in DOMAIN table |->
                               IF Takes(table[i], name) THEN <<table[i].handler>> ELSE <<>>])
    IN  IF mine = <<>> /\ default # 0 THEN <<default>> ELSE mine
=============================================================================
