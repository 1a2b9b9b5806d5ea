-------------------------------- MODULE Wire --------------------------------
(***************************************************************************)
(* One connection: the client program (test_client.c) and the client       *)
(* thread that serves it (handle_client, handleCmd and upload of main.c),  *)
(* joined by a stream of bytes each way.                                   *)
(*                                                                         *)
(* A stream is the sequence of the things written to it: lengths, texts,   *)
(* sizes, file contents.  Nothing in it says which is which, so a reader   *)
(* that expects another thing than the next one, or gets only a part of    *)
(* it, is astray for good: from then on it takes some bytes for others.    *)
(*                                                                         *)
(* A definition no action uses is a plausible slip in the definition that  *)
(* follows it, kept to show that a property would notice.                  *)
(***************************************************************************)
EXTENDS Integers, Sequences

CONSTANT MaxCmds  \* bound: how many commands the user types

ASSUME MaxCmdsAssumption == MaxCmds \in Nat

VARIABLES cpc,    \* the client: where it is
          n,      \*   how many commands it sent: the last one is number n
          kind,   \*   and the kind of that one
          spc,    \* the client thread: what it reads or does next
          cmd,    \*   and the item it read last
          c2s,    \* the stream to the server: items
          s2c,    \* the stream to the client: the numbers of the commands
                  \*   responses are for
          causes  \* history: what has upset the exchange

client == <<cpc, n, kind>>
server == <<spc, cmd>>
vars   == <<client, server, c2s, s2c, causes>>

(* UPLOAD of a file, of an empty one, of one the client cannot open (or    *)
(* without a name), of one it cannot read to the end; DOWNLOAD; DELETE and *)
(* LIST; what is no command.                                               *)
Uploads == {"UPLOAD", "EMPTY", "NOFILE", "CUT"}
Kinds   == Uploads \cup {"AUTH", "DOWNLOAD", "OTHER", "JUNK"}

Item(part) == [part |-> part, no |-> n, kind |-> kind]
NoItem     == [part |-> "none", no |-> 0, kind |-> "JUNK"]

Init == /\ cpc = "ready" /\ n = 0 /\ kind = "JUNK"
        /\ spc = "authlen" /\ cmd = NoItem
        /\ c2s = <<>> /\ s2c = <<>> /\ causes = {}

Upset(what) == causes' = causes \cup {what}
-----------------------------------------------------------------------------
(* The client program                                                      *)

(* A line is read, its length and its text are sent.  Only an UPLOAD with  *)
(* a file that opens has more to send; every other command but UPLOAD      *)
(* waits for a response.                                                   *)
TypeCommand(k) ==
  /\ cpc = "ready" /\ n < MaxCmds
  /\ n' = n + 1 /\ kind' = k
  /\ c2s' = c2s \o <<[part |-> "len",  no |-> n + 1, kind |-> k],
                     [part |-> "text", no |-> n + 1, kind |-> k]>>
  /\ IF k = "NOFILE" THEN Upset("unsent") ELSE UNCHANGED causes
  /\ cpc' = CASE k = "NOFILE"                     -> "ready"
              [] k \in {"UPLOAD", "EMPTY", "CUT"} -> "sendsize"
              [] OTHER                            -> "awaiting"
  /\ UNCHANGED <<server, s2c>>

(* handle_upload sends the size of the file.  When fread comes short it    *)
(* returns without the content; when there is no content, send_all returns *)
(* 0, which is taken for a failure.                                        *)
SendSize ==
  /\ cpc = "sendsize"
  /\ c2s' = Append(c2s, Item("size"))
  /\ CASE kind = "EMPTY"  -> cpc' = "ready" /\ Upset("empty")
       [] kind = "CUT"    -> cpc' = "ready" /\ Upset("unsent")
       [] kind = "UPLOAD" -> cpc' = "senddata" /\ UNCHANGED causes
  /\ UNCHANGED <<n, kind, server, s2c>>

SendData ==
  /\ cpc = "senddata"
  /\ c2s' = Append(c2s, Item("data"))
  /\ cpc' = "awaiting"
  /\ UNCHANGED <<n, kind, server, s2c, causes>>

AckAndResponse == IF kind = "UPLOAD" THEN "awaiting" ELSE "ready"
OneResponse    == "ready"

(* Whatever it is, the next response is taken for the answer. *)
Receive ==
  /\ cpc = "awaiting" /\ s2c # <<>>
  /\ s2c' = Tail(s2c)
  /\ cpc' = OneResponse
  /\ UNCHANGED <<n, kind, server, c2s, causes>>

(* The server has closed the connection. *)
GiveUp ==
  /\ cpc = "awaiting" /\ s2c = <<>> /\ spc \in {"closed", "killed"}
  /\ cpc' = "ready"
  /\ UNCHANGED <<n, kind, server, c2s, s2c, causes>>

(* The user types quit, or kills the client. *)
Quit == /\ cpc # "gone" /\ cpc' = "gone"
        /\ UNCHANGED <<n, kind, server, c2s, s2c, causes>>
-----------------------------------------------------------------------------
(* The client thread                                                       *)

Goto(place) == spc' = place

TwiceOver(no) == <<no, no>>
Responses(no) == <<no>>

(* A response to a client that is gone: the kernel answers the first of    *)
(* its two sends with a reset, and the second raises SIGPIPE.              *)
Respond(no, place) ==
  \/ s2c' = s2c \o Responses(no) /\ Goto(place)
  \/ cpc = "gone" /\ Goto("killed") /\ UNCHANGED s2c

(* A plain recv, or recv_all for the content of an upload. *)
Expect(part) == c2s # <<>> /\ Head(c2s).part = part
Take == c2s' = Tail(c2s) /\ cmd' = Head(c2s)

Places == [authlen |-> "len", authtext |-> "text", len |-> "len",
           text |-> "text", size |-> "size", data |-> "data"]

(* The next thing is not what the thread expects. *)
GoAstray ==
  /\ spc \in DOMAIN Places /\ c2s # <<>>
  /\ Head(c2s).part # Places[spc]
  /\ Goto("astray")
  /\ UNCHANGED <<client, cmd, c2s, s2c, causes>>

(* recv returns a part of what was asked for; recv_all does not.           *)
ShortRead ==
  /\ spc \in DOMAIN Places \ {"data"} /\ Expect(Places[spc])
  /\ Goto("astray") /\ Upset("short")
  /\ UNCHANGED <<client, cmd, c2s, s2c>>

ReadLen ==
  /\ spc \in {"authlen", "len"} /\ Expect("len")
  /\ Take
  /\ Goto(IF spc = "len" THEN "text" ELSE "authtext")
  /\ UNCHANGED <<client, s2c, causes>>

(* signup_login succeeds or not; anything but SIGNUP and LOGIN does not.   *)
Authenticate ==
  /\ spc = "authtext" /\ Expect("text")
  /\ Take
  /\ \/ Head(c2s).kind = "AUTH" /\ Respond(Head(c2s).no, "len")
     \/ Respond(Head(c2s).no, "closing")
  /\ UNCHANGED <<client, causes>>

(* handleCmd, and what its answer leads to. *)
RefusedUnread(k) == {"size", "invalid"}
UploadNext(k)    == {"size"}
After(k) == IF k \in Uploads THEN UploadNext(k)
            ELSE IF k \in {"DOWNLOAD", "OTHER"} THEN {"execute"} ELSE {"invalid"}

ReadText ==
  /\ spc = "text" /\ Expect("text")
  /\ Take
  /\ \E place \in After(Head(c2s).kind) : Goto(place)
  /\ UNCHANGED <<client, s2c, causes>>

(* upload; for recv_all too, 0 bytes are a failure.  Without memory for    *)
(* the content it is left unread.                                          *)
ReadSize ==
  /\ spc = "size" /\ Expect("size")
  /\ Take
  /\ IF Head(c2s).kind = "EMPTY" THEN Goto("invalid") /\ UNCHANGED causes
     ELSE \/ Goto("data") /\ UNCHANGED causes
          \/ Goto("invalid") /\ Upset("memory")
  /\ UNCHANGED <<client, s2c>>

ReadData ==
  /\ spc = "data" /\ Expect("data")
  /\ Take /\ Goto("execute")
  /\ UNCHANGED <<client, s2c, causes>>

(* INVALID COMMAND *)
Reject ==
  /\ spc = "invalid"
  /\ Respond(cmd.no, "len")
  /\ UNCHANGED <<client, cmd, c2s, causes>>

(* A worker has executed the command.  An empty file is a response of      *)
(* length 0, which is not sent.                                            *)
Execute ==
  /\ spc = "execute"
  /\ \/ Respond(cmd.no, "len") /\ UNCHANGED causes
     \/ cmd.kind = "DOWNLOAD" /\ Goto("len") /\ UNCHANGED s2c /\ Upset("silent")
  /\ UNCHANGED <<client, cmd, c2s>>

(* recv returns 0 when the client is gone and all it sent was read. *)
Never      == FALSE
StreamEnds == c2s = <<>> /\ cpc = "gone"

(* A length that does not come ends the session, and so does a text; an    *)
(* upload that does not come is first answered as an invalid command.      *)
EndOfStream ==
  /\ StreamEnds
  /\ \/ spc \in {"authlen", "authtext", "len", "text", "astray"} /\ Goto("closing")
     \/ spc \in {"size", "data"} /\ Goto("invalid")
  /\ UNCHANGED <<client, cmd, c2s, s2c, causes>>

(* Bytes taken for others: a response, or none, or the end.                *)
Stray ==
  /\ spc = "astray" /\ c2s # <<>>
  /\ c2s' = Tail(c2s)
  /\ \/ Respond(cmd.no, "astray")
     \/ Goto("astray") /\ UNCHANGED s2c
     \/ Goto("closing") /\ UNCHANGED s2c
  /\ UNCHANGED <<client, cmd, causes>>

(* close; with input left unread, it resets the connection, and responses  *)
(* on their way may be lost.                                               *)
Close ==
  /\ spc = "closing" /\ Goto("closed")
  /\ UNCHANGED s2c \/ (c2s # <<>> /\ s2c' = <<>>)
  /\ UNCHANGED <<client, cmd, c2s, causes>>

ClientStep == SendSize \/ SendData \/ Receive \/ GiveUp
ServerStep == \/ GoAstray \/ ShortRead \/ ReadLen \/ Authenticate \/ ReadText
              \/ ReadSize \/ ReadData \/ Reject \/ Execute
              \/ EndOfStream \/ Stray \/ Close

Next == \/ \E k \in Kinds : TypeCommand(k)
        \/ Quit \/ ClientStep \/ ServerStep

(* Nobody makes the user type; both programs go on when they can. *)
Spec == Init /\ [][Next]_vars /\ WF_vars(ClientStep) /\ WF_vars(ServerStep)
-----------------------------------------------------------------------------
(* Properties                                                              *)

(* Three things only make the server take some bytes for others: a recv    *)
(* that returned a part (main.c:349, 428, 430, 451, 457), a client that    *)
(* announced an upload and did not send it, and an upload too large for    *)
(* malloc (main.c:350).                                                    *)
FramingKept == spc = "astray" => causes \cap {"short", "unsent", "memory"} # {}

(* A response is for the command the client sent last, and none is left    *)
(* for the next command to find, unless the server went astray or a client *)
(* uploaded an empty file and did not wait for the answer.                 *)
OwnAnswer ==
  causes \subseteq {"silent"} =>
    \A i \in DOMAIN s2c : s2c[i] = n /\ cpc # "ready"

(* A client that waits is answered (or the connection closed), unless the  *)
(* server went astray or the file was empty.                               *)
Answered ==
  cpc = "awaiting" ~> \/ cpc # "awaiting"
                      \/ causes \cap {"short", "unsent", "memory", "silent"} # {}

(* Whatever the client did, when it is gone its client thread is free for  *)
(* another connection, unless SIGPIPE ended the server.                    *)
ThreadFreed == cpc = "gone" ~> spc \in {"closed", "killed"}
=============================================================================
