---------------------------- MODULE StoreServer ----------------------------
(***************************************************************************)
(* The TCP server of the C++ store (kvstore/src/server.cpp): main accepts  *)
(* connections, and a detached thread for each client receives a request,  *)
(* calls the store and sends the answer.                                   *)
(*                                                                         *)
(* A string is a sequence of tokens: a command word, a blank, a letter of  *)
(* a key, a value or the end of a line.  TCP keeps the order of the tokens *)
(* but not their grouping: one recv returns any number of those that have  *)
(* arrived, and the thread takes them for one request.                     *)
(*                                                                         *)
(* A call of the store is one step, as its mutex makes it.  What the store *)
(* shows is a map that may forget (see ForgetfulMap); its puts and deletes *)
(* may fail, and a put may throw (see KVStore!FilterThrows).               *)
(***************************************************************************)
EXTENDS Integers, Sequences, FiniteSetsExt

CONSTANTS
  Clients,
  Letters,       \* what keys are made of
  Keys,          \* the keys that clients use
  Values,        \* the values that clients use
  BufferCap,     \* sizeof(buffer) - 1
  MaxRequests,   \* requests of all clients
  MaxFaults      \* failing and throwing calls of the store, threads not created

Commands == {"PUT", "GET", "DELETE"}
Blanks == {"space", "newline"}

ASSUME ServerAssumption ==
  /\ Keys \subseteq Seq(Letters) \ {<<>>}
  /\ Letters \cap (Commands \cup Blanks) = {}
  /\ BufferCap \in Nat \ {0}
  /\ {MaxRequests, MaxFaults} \subseteq Nat

VARIABLES
  up,         \* the process lives
  store,      \* what the store shows: a function on the keys it finds
  at,         \* where the thread of a client is, "backlog" before it exists
  peer,       \* the client's end: "out", "in", "left", or "reset"
  inbox,      \* the tokens a client has sent that recv has not returned
  buffer,     \* what recv returned, until the request is answered
  response,   \* what the thread sends next
  sent, faults,   \* counted against their bounds
  pending,    \* history: the requests not answered yet, each with the answers it may get
  misread,    \* history: a recv did not return exactly one request
  written     \* history: the pairs that clients sent with PUT

netVars == <<peer, inbox, sent>>
threadVars == <<at, buffer, response>>
vars == <<up, store, netVars, threadVars, faults, pending, misread, written>>

----------------------------------------------------------------------------
(* Requests and answers.                                                   *)

Ok == <<"OK", "newline">>
Error == <<"ERROR", "newline">>
NotFound == <<"NOT_FOUND", "newline">>
Unknown == <<"UNKNOWN_COMMAND", "newline">>

Requests ==
  [op : {"PUT"}, key : Keys, value : Values] \cup [op : {"GET", "DELETE"}, key : Keys]

\* What a client sends: a line.
Text(r) ==
  <<r.op, "space">> \o r.key \o (IF r.op = "PUT" THEN <<"space", r.value>> ELSE <<>>) \o <<"newline">>

\* The answers a request may get from a store that shows m.
Legit(r, m) ==
  IF r.op # "GET" THEN {Ok, Error}
  ELSE {IF r.key \in DOMAIN m THEN Append(m[r.key], "newline") ELSE NotFound}

\* Mutant of Throws: the key would have to be longer.
ThrowsIfShort(s) == Len(s) <= 4 /\ s[1] \in Commands

\* Parsing.  substr throws where a command word is all there is: the key would
\* begin behind the end of the string.
Throws(s) == Len(s) = 1 /\ s[1] \in Commands

Spaces(s) == {i \in 3 .. Len(s) : s[i] = "space"}

\* Mutant of PutKey: the blank belongs to the key.
PutKeyAndBlank(s) ==
  SubSeq(s, 3, IF Spaces(s) = {} THEN Len(s) ELSE Min(Spaces(s)))

\* Without a second blank find() returns npos: the key is the rest, and pos1 + 1
\* is 0, so that the value is the whole string.
PutKey(s) ==
  SubSeq(s, 3, IF Spaces(s) = {} THEN Len(s) ELSE Min(Spaces(s)) - 1)

PutValue(s) ==
  IF Spaces(s) = {} THEN s ELSE SubSeq(s, Min(Spaces(s)) + 1, Len(s))

\* Mutant of TrimmedKey: the end of the line stays.
UntrimmedKey(s) == SubSeq(s, 3, Len(s))

\* GET and DELETE cut blanks off the end of the key; PUT does not do so.
TrimmedKey(s) ==
  SubSeq(s, 3, Max({2} \cup {i \in 3 .. Len(s) : s[i] \notin Blanks}))

----------------------------------------------------------------------------
Init ==
  /\ up = TRUE
  /\ store = <<>>
  /\ at = [c \in Clients |-> "backlog"]
  /\ peer = [c \in Clients |-> "out"]
  /\ inbox = [c \in Clients |-> <<>>]
  /\ buffer = [c \in Clients |-> <<>>]
  /\ response = [c \in Clients |-> <<>>]
  /\ sent = 0
  /\ faults = 0
  /\ pending = [c \in Clients |-> <<>>]
  /\ misread = [c \in Clients |-> FALSE]
  /\ written = {}

(* The clients.                                                            *)

Connect(c) ==
  /\ up
  /\ peer[c] = "out"
  /\ peer' = [peer EXCEPT ![c] = "in"]
  /\ UNCHANGED <<up, store, inbox, sent, threadVars, faults, pending, misread, written>>

\* A client may send without waiting for the answer to what it sent before.
Send(c, r) ==
  /\ up
  /\ peer[c] = "in"
  /\ sent < MaxRequests
  /\ sent' = sent + 1
  /\ inbox' = [inbox EXCEPT ![c] = @ \o Text(r)]
  /\ pending' = IF misread[c] THEN pending
                ELSE [pending EXCEPT ![c] = Append(@, [request |-> r, may |-> Legit(r, store)])]
  /\ written' = written \cup (IF r.op = "PUT" THEN {<<r.key, <<r.value, "newline">>>>} ELSE {})
  /\ UNCHANGED <<up, store, peer, threadVars, faults, misread>>

\* A client that leaves with answers unread resets the connection.
Leave(c) ==
  /\ up
  /\ peer[c] = "in"
  /\ peer' \in {[peer EXCEPT ![c] = "left"], [peer EXCEPT ![c] = "reset"]}
  /\ UNCHANGED <<up, store, inbox, sent, threadVars, faults, pending, misread, written>>

----------------------------------------------------------------------------
(* The server.                                                             *)

\* main(): accept() and a new thread.
Accept(c) ==
  /\ up
  /\ at[c] = "backlog"
  /\ peer[c] # "out"
  /\ at' = [at EXCEPT ![c] = "recv"]
  /\ UNCHANGED <<up, store, netVars, buffer, response, faults, pending, misread, written>>

\* The thread cannot be created: the exception leaves main().
AcceptThrows(c) ==
  /\ up
  /\ at[c] = "backlog"
  /\ peer[c] # "out"
  /\ faults < MaxFaults
  /\ faults' = faults + 1
  /\ up' = FALSE
  /\ UNCHANGED <<store, netVars, threadVars, pending, misread, written>>

Received(c, s) ==
  /\ misread' = [misread EXCEPT ![c] = @ \/ pending[c] = <<>> \/ s # Text(Head(pending[c]).request)]
  /\ pending' = IF misread'[c] THEN [pending EXCEPT ![c] = <<>>] ELSE pending

\* Mutant of Recv: the buffer is static.
RecvSharedBuffer(c) ==
  /\ up
  /\ at[c] = "recv"
  /\ \E n \in 1 .. Len(inbox[c]) :
       /\ n <= BufferCap
       /\ buffer' = [d \in Clients |-> SubSeq(inbox[c], 1, n)]
       /\ inbox' = [inbox EXCEPT ![c] = SubSeq(@, n + 1, Len(@))]
       /\ Received(c, buffer'[c])
  /\ at' = [at EXCEPT ![c] = "serve"]
  /\ UNCHANGED <<up, store, peer, sent, response, faults, written>>

Recv(c) ==
  /\ up
  /\ at[c] = "recv"
  /\ \E n \in 1 .. Len(inbox[c]) :
       /\ n <= BufferCap
       /\ buffer' = [buffer EXCEPT ![c] = SubSeq(inbox[c], 1, n)]
       /\ inbox' = [inbox EXCEPT ![c] = SubSeq(@, n + 1, Len(@))]
       /\ Received(c, buffer'[c])
  /\ at' = [at EXCEPT ![c] = "serve"]
  /\ UNCHANGED <<up, store, peer, sent, response, faults, written>>

\* Mutant of EndOfStream: bytes_read is not looked at.
EndOfStreamServed(c) ==
  /\ up
  /\ at[c] = "recv"
  /\ peer[c] = "reset" \/ (peer[c] = "left" /\ inbox[c] = <<>>)
  /\ at' = [at EXCEPT ![c] = "serve"]
  /\ UNCHANGED <<up, store, netVars, buffer, response, faults, pending, misread, written>>

\* recv returns 0, or an error once the connection is reset; the socket is closed.
EndOfStream(c) ==
  /\ up
  /\ at[c] = "recv"
  /\ peer[c] = "reset" \/ (peer[c] = "left" /\ inbox[c] = <<>>)
  /\ at' = [at EXCEPT ![c] = "done"]
  /\ inbox' = [inbox EXCEPT ![c] = <<>>]
  /\ UNCHANGED <<up, store, peer, sent, buffer, response, faults, pending, misread, written>>

\* The store comes to show m; a request that waits may get its answer from it.
Shows(m) ==
  /\ store' = m
  /\ pending' = [c \in Clients |-> [i \in 1 .. Len(pending[c]) |->
       [pending[c][i] EXCEPT !.may = @ \cup Legit(pending[c][i].request, m)]]]

Respond(c, s) ==
  /\ response' = [response EXCEPT ![c] = s]
  /\ at' = [at EXCEPT ![c] = "send"]
  /\ UNCHANGED <<up, netVars, buffer, misread, written>>

Serving(c, command) ==
  /\ up
  /\ at[c] = "serve"
  /\ buffer[c][1] = command
  /\ ~Throws(buffer[c])

ServePut(c) ==
  /\ Serving(c, "PUT")
  /\ LET k == PutKey(buffer[c])
     IN Shows([x \in DOMAIN store \cup {k} |-> IF x = k THEN PutValue(buffer[c]) ELSE store[x]])
  /\ Respond(c, Ok)
  /\ UNCHANGED faults

ServeDelete(c) ==
  /\ Serving(c, "DELETE")
  /\ Shows([x \in DOMAIN store \ {TrimmedKey(buffer[c])} |-> store[x]])
  /\ Respond(c, Ok)
  /\ UNCHANGED faults

\* The store cannot write to its log.
ServeError(c) ==
  /\ Serving(c, "PUT") \/ Serving(c, "DELETE")
  /\ faults < MaxFaults
  /\ faults' = faults + 1
  /\ Respond(c, Error)
  /\ UNCHANGED <<store, pending>>

\* Mutant of ServeGet: nothing is sent for a key that is not there.
ServeGetSilent(c) ==
  /\ Serving(c, "GET")
  /\ LET k == TrimmedKey(buffer[c])
     IN IF k \in DOMAIN store THEN Respond(c, Append(store[k], "newline"))
        ELSE /\ at' = [at EXCEPT ![c] = "recv"]
             /\ UNCHANGED <<response, up, netVars, buffer, misread, written>>
  /\ UNCHANGED <<store, pending, faults>>

ServeGet(c) ==
  /\ Serving(c, "GET")
  /\ LET k == TrimmedKey(buffer[c])
     IN Respond(c, IF k \in DOMAIN store THEN Append(store[k], "newline") ELSE NotFound)
  /\ UNCHANGED <<store, pending, faults>>

ServeUnknown(c) ==
  /\ up
  /\ at[c] = "serve"
  /\ buffer[c][1] \notin Commands
  /\ Respond(c, Unknown)
  /\ UNCHANGED <<store, pending, faults>>

\* An exception leaves the thread and ends the process.
Terminate(c) ==
  /\ up
  /\ at[c] = "serve"
  /\ \/ Throws(buffer[c]) /\ UNCHANGED faults
     \/ Serving(c, "PUT") /\ faults < MaxFaults /\ faults' = faults + 1
  /\ up' = FALSE
  /\ UNCHANGED <<store, netVars, threadVars, pending, misread, written>>

\* send(), and the loop begins again: the buffer is cleared.  The first send after
\* the client has left is answered with a reset; one after that raises SIGPIPE or,
\* if the error was not reported yet, fails.
SendResponse(c) ==
  /\ up
  /\ at[c] = "send"
  /\ peer' = [peer EXCEPT ![c] = IF @ = "left" THEN "reset" ELSE @]
  /\ \/ /\ at' = [at EXCEPT ![c] = "recv"]
        /\ buffer' = [buffer EXCEPT ![c] = <<>>]
        /\ response' = [response EXCEPT ![c] = <<>>]
        /\ pending' = IF misread[c] THEN pending ELSE [pending EXCEPT ![c] = Tail(@)]
        /\ UNCHANGED up
     \/ /\ peer[c] = "reset"
        /\ up' = FALSE
        /\ UNCHANGED <<threadVars, pending>>
  /\ UNCHANGED <<store, inbox, sent, faults, misread, written>>

\* The store lets go of a key: a flush, and then the cache.
Forget(k) ==
  /\ up
  /\ k \in DOMAIN store
  /\ Shows([x \in DOMAIN store \ {k} |-> store[x]])
  /\ UNCHANGED <<up, netVars, threadVars, faults, misread, written>>

----------------------------------------------------------------------------
Thread(c) ==
  \/ Accept(c) \/ AcceptThrows(c) \/ Recv(c) \/ EndOfStream(c)
  \/ ServePut(c) \/ ServeDelete(c) \/ ServeError(c) \/ ServeGet(c) \/ ServeUnknown(c)
  \/ Terminate(c) \/ SendResponse(c)

Next ==
  \/ \E c \in Clients : Connect(c) \/ Leave(c) \/ Thread(c)
  \/ \E c \in Clients, r \in Requests : Send(c, r)
  \/ \E k \in DOMAIN store : Forget(k)

Spec == Init /\ [][Next]_vars

\* Threads are scheduled, and what was sent arrives.
FairSpec == Spec /\ \A c \in Clients : WF_vars(Thread(c))

----------------------------------------------------------------------------
Tokens == Commands \cup Blanks \cup Letters \cup Values
Texts == Seq(Tokens)
Answers == Seq(Tokens \cup {"OK", "ERROR", "NOT_FOUND", "UNKNOWN_COMMAND"})
Owed == [request : Requests, may : SUBSET Answers]

TypeOK ==
  /\ up \in BOOLEAN
  /\ at \in [Clients -> {"backlog", "recv", "serve", "send", "done"}]
  /\ peer \in [Clients -> {"out", "in", "left", "reset"}]
  /\ inbox \in [Clients -> Texts] /\ buffer \in [Clients -> Texts]
  /\ response \in [Clients -> Answers]
  /\ pending \in [Clients -> Seq(Owed)]
  /\ misread \in [Clients -> BOOLEAN]
  /\ \A k \in DOMAIN store : k \in Texts /\ store[k] \in Texts
  /\ \A c \in Clients : at[c] = "serve" => buffer[c] # <<>>

\* What the server does with a request that was received whole: the thread works
\* on the oldest one that its client waits for, and whatever the store shows now
\* is a legitimate answer to any that waits.
ServesItsOwn ==
  \A c \in Clients : at[c] \in {"serve", "send"} /\ ~misread[c] =>
    /\ pending[c] # <<>>
    /\ at[c] = "serve" => buffer[c] = Text(Head(pending[c]).request)

StillOwed ==
  \A c \in Clients : \A i \in 1 .. Len(pending[c]) :
    LET r == pending[c][i].request
    IN /\ Legit(r, store) \subseteq pending[c][i].may
       /\ r.op = "PUT" => <<r.key, <<r.value, "newline">>>> \in written

\* A request that is received whole gets an answer of its own that an atomic map
\* would have given at some moment after it was sent: threads never mix up
\* requests, whatever other clients do or however theirs are cut.
AnswersAtomic ==
  \A c \in Clients : at[c] = "send" /\ ~misread[c] =>
    pending[c] # <<>> /\ response[c] \in Head(pending[c]).may

\* As long as every request is received whole, the store shows nothing but pairs
\* that clients wrote, and never the key or the value of one with that of another.
NoForeignData ==
  (\A c \in Clients : ~misread[c]) => \A k \in DOMAIN store : <<k, store[k]>> \in written

\* Clients that stay, and whose requests are received whole, never bring the
\* server down; only an exception of the store, or of creating a thread, can do so
\* besides them.
DiesOnlyOfSplitsAndLeavers ==
  ~up /\ faults = 0 => \E c \in Clients : misread[c] \/ peer[c] = "reset"

\* The inductive invariant: the server is in step with its clients.
ServerInv ==
  /\ TypeOK
  /\ faults \in Nat
  /\ ServesItsOwn
  /\ StillOwed
  /\ AnswersAtomic
  /\ NoForeignData
  /\ DiesOnlyOfSplitsAndLeavers

\* As long as a client stays and its requests are received whole, each of them is
\* answered, unless the process dies.
EveryRequestAnswered ==
  \A c \in Clients : pending[c] # <<>> ~> pending[c] = <<>> \/ peer[c] # "in" \/ ~up
=============================================================================
