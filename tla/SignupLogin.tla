---------------------------- MODULE SignupLogin ----------------------------
(***************************************************************************)
(* signup_login of main.c with signup, login and get_user_id of storage.c: *)
(* how client threads create users and let them in, several at once.  It   *)
(* is the Authenticate step of ThreadPools looked at closely.              *)
(*                                                                         *)
(* A user is spread over three places that no transaction joins: a row of  *)
(* users, a row of quotas and a folder.  Every call of the database opens  *)
(* it anew and is one action; it may be refused, because the file cannot   *)
(* be opened or another connection's lock is met.                          *)
(*                                                                         *)
(* A definition no action uses is a plausible slip in the definition that  *)
(* follows it, kept to show that a property would notice.                  *)
(***************************************************************************)
EXTENDS Integers

CONSTANTS Threads,           \* the client threads
          Names, Passwords,  \* what clients may send (1 to 256 characters)
          MaxId,             \* bound: how many ids are handed out
          folderOf,          \* folderOf[n][i]: the text "<username><user_id>"
          MaxCalls,          \* bound: how many connections are authenticated
          MayRefuse,         \* whether the database or mkdir may refuse a call
          MayCrash,          \* whether the server may be killed
          NoCall, Nowhere

Ids  == 1 .. MaxId
NoId == -1
Folders == UNION {{folderOf[n][i] : i \in Ids} : n \in Names}

(* One name with two ids, or two names with one id, make two texts; two    *)
(* names with two ids may make the same one ("a" and 11, "a1" and 1).      *)
ASSUME FolderAssumption ==
  /\ MaxId \in Nat /\ MaxCalls \in Nat
  /\ MayRefuse \in BOOLEAN /\ MayCrash \in BOOLEAN
  /\ folderOf \in [Names -> [Ids -> Folders]]
  /\ \A n \in Names : \A i, j \in Ids : folderOf[n][i] = folderOf[n][j] => i = j
  /\ \A m, n \in Names : \A i \in Ids : folderOf[m][i] = folderOf[n][i] => m = n

Calls == [op : {"SIGNUP", "LOGIN"}, name : Names, pass : Passwords]

ASSUME NamesAssumption == Nowhere \notin Folders /\ NoCall \notin Calls

VARIABLES users,    \* the rows of table users
          quotas,   \* the user ids that have a row in table quotas
          folders,  \* the directories that exist
          lastId,   \* what AUTOINCREMENT remembers
          pc, call, \* per client thread: where it is, what its client sent
          ok,       \* jaanDeyo, and the variable of that name in signup
          id,       \* the user id read last; in a session, Gahak.user_id
          home,     \* in a session, the directory its commands use
          calls,    \* how many connections were taken
          welcomed, \* history: the names whose SIGNUP succeeded
          spoiled   \* history: <<n, part>> when a failure, a crash or another
                    \*   SIGNUP cost the new user n one of Parts

tables  == <<users, quotas, lastId>>
history == <<welcomed, spoiled>>
vars    == <<tables, folders, pc, call, ok, id, home, calls, history>>

Parts == {"quota", "folder", "answer"}
Rows  == [name : Names, pass : Passwords, id : Ids]

Name(t)    == call[t].name
RowsOf(n)  == {r \in users : r.name = n}
Exists(n)  == RowsOf(n) # {}

Init == /\ users = {} /\ quotas = {} /\ folders = {} /\ lastId = 0
        /\ pc   = [t \in Threads |-> "idle"]
        /\ call = [t \in Threads |-> NoCall]
        /\ ok   = [t \in Threads |-> FALSE]
        /\ id   = [t \in Threads |-> NoId]
        /\ home = [t \in Threads |-> Nowhere]
        /\ calls = 0
        /\ welcomed = {} /\ spoiled = {}

Goto(t, from, to) == /\ pc[t] = from
                     /\ pc' = [pc EXCEPT ![t] = to]
Found(t, i)  == id' = [id EXCEPT ![t] = i]
Decide(t, b) == ok' = [ok EXCEPT ![t] = b]

(* What the SIGNUP that inserted its user has still to do, and where. *)
DueAt == [quota  |-> {"quotaid", "quota"},
          folder |-> {"quotaid", "quota", "getid", "mkdir"},
          answer |-> {"quotaid", "quota", "getid", "mkdir", "answer"}]

Owed(t) == {part \in Parts : /\ ok[t] /\ call[t].op = "SIGNUP"
                             /\ pc[t] \in DueAt[part]}

Lost(n, parts)   == {<<n, part>> : part \in parts}
Spoils(n, parts) == spoiled' = spoiled \cup Lost(n, parts)
-----------------------------------------------------------------------------
(* A client thread has received SIGNUP or LOGIN. *)
Receive(t) ==
  /\ calls < MaxCalls
  /\ \E c \in Calls :
       /\ Goto(t, "idle", IF c.op = "SIGNUP" THEN "exists" ELSE "loginid")
       /\ call' = [call EXCEPT ![t] = c]
  /\ calls' = calls + 1
  /\ UNCHANGED <<tables, folders, ok, id, home, history>>

(* signup looks for the name.  A refused prepare ends signup; a refused    *)
(* step is taken for "not there".                                          *)
CheckExists(t) ==
  /\ \/ Goto(t, "exists", "insert") /\ (MayRefuse \/ ~Exists(Name(t)))
     \/ Goto(t, "exists", "getid")  /\ (MayRefuse \/ Exists(Name(t)))
  /\ UNCHANGED <<tables, folders, call, ok, id, home, calls, history>>

(* The UNIQUE column of table users. *)
UniqueIgnored(n) == TRUE
Unique(n)        == ~Exists(n)

(* signup's INSERT is done, or refused by the column or by a lock. *)
InsertUser(t) ==
  /\ \/ /\ Goto(t, "insert", "quotaid")
        /\ Unique(Name(t)) /\ lastId < MaxId
        /\ users' = users \cup {[name |-> Name(t), pass |-> call[t].pass,
                                 id |-> lastId + 1]}
        /\ lastId' = lastId + 1
        /\ Decide(t, TRUE)
     \/ /\ Goto(t, "insert", "getid")
        /\ MayRefuse \/ ~Unique(Name(t))
        /\ UNCHANGED <<users, lastId, ok>>
  /\ UNCHANGED <<quotas, folders, call, id, home, calls, history>>

(* get_user_id: -1 for a name that is not there, and when refused. *)
UserIds(n) == {r.id : r \in RowsOf(n)}
                \cup (IF MayRefuse \/ ~Exists(n) THEN {NoId} ELSE {})

Always(i) == TRUE
HasId(i)  == i # NoId

(* signup reads back the id its INSERT made; without it, no quota row. *)
QuotaUserId(t) ==
  /\ pc[t] = "quotaid"
  /\ \E i \in UserIds(Name(t)) :
       /\ Found(t, i)
       /\ IF HasId(i)
            THEN Goto(t, "quotaid", "quota") /\ UNCHANGED spoiled
            ELSE Goto(t, "quotaid", "getid") /\ Spoils(Name(t), {"quota"})
  /\ UNCHANGED <<tables, folders, call, ok, home, calls, welcomed>>

LastInserted(t) == lastId
NewUser(t)      == id[t]

(* signup's second INSERT, whose failure is only printed. *)
InsertQuota(t) ==
  /\ Goto(t, "quota", "getid")
  /\ \/ quotas' = quotas \cup {NewUser(t)} /\ UNCHANGED spoiled
     \/ MayRefuse /\ UNCHANGED quotas /\ Spoils(Name(t), {"quota"})
  /\ UNCHANGED <<users, lastId, folders, call, ok, id, home, calls, welcomed>>

(* signup_login asks for the id again, whatever signup returned. *)
GetUserId(t) ==
  /\ pc[t] = "getid"
  /\ \E i \in UserIds(Name(t)) :
       /\ Found(t, i)
       /\ \/ i # NoId /\ Goto(t, "getid", "mkdir") /\ UNCHANGED <<ok, spoiled>>
          \/ /\ i = NoId /\ Goto(t, "getid", "answer")
             /\ Decide(t, FALSE) /\ Spoils(Name(t), Owed(t))
  /\ UNCHANGED <<tables, folders, call, home, calls, welcomed>>

FolderOfLast(t) == folderOf[Name(t)][lastId]
FolderOf(t)     == folderOf[Name(t)][id[t]]

MkdirDecides(t) == TRUE
NeedsQuota(t)   == ok[t] /\ id[t] \in quotas
Succeeds(t)     == ok[t]

(* mkdir is called by every SIGNUP of a name that exists; when it fails    *)
(* (the folder is there, or any other reason) so does the SIGNUP.  One     *)
(* that lost the name to another can be the one that makes the folder.     *)
MakeFolder(t) ==
  /\ Goto(t, "mkdir", "answer")
  /\ home' = [home EXCEPT ![t] = folderOf[Name(t)][id[t]]]
  /\ \/ /\ FolderOf(t) \notin folders
        /\ folders' = folders \cup {FolderOf(t)}
        /\ Decide(t, Succeeds(t))
        /\ IF ok[t] THEN UNCHANGED spoiled ELSE Spoils(Name(t), {"answer"})
     \/ /\ FolderOf(t) \in folders
        /\ Decide(t, FALSE)
        /\ UNCHANGED <<folders, spoiled>>
     \/ /\ MayRefuse /\ FolderOf(t) \notin folders
        /\ Decide(t, FALSE) /\ Spoils(Name(t), Owed(t))
        /\ UNCHANGED folders
  /\ UNCHANGED <<tables, call, id, calls, welcomed>>

(* LOGIN reads the id first.  Nothing terminates the name strncpy leaves   *)
(* in Gahak.username, which main did not clear: what follows it may be     *)
(* other bytes, and the directory one that does not exist.                 *)
LoginUserId(t) ==
  /\ Goto(t, "loginid", "password")
  /\ \E i \in UserIds(Name(t)) :
       /\ Found(t, i)
       /\ \E h \in {Nowhere} \cup
                   (IF i = NoId THEN {} ELSE {folderOf[Name(t)][i]}) :
            home' = [home EXCEPT ![t] = h]
  /\ UNCHANGED <<tables, folders, call, ok, calls, history>>

(* login, which opens the database anew. *)
CheckPassword(t) ==
  /\ Goto(t, "password", "answer")
  /\ LET right == \E r \in RowsOf(Name(t)) : r.pass = call[t].pass
     IN  Decide(t, right) \/ (MayRefuse /\ Decide(t, FALSE))
  /\ UNCHANGED <<tables, folders, call, id, home, calls, history>>

Forget(t) == /\ call' = [call EXCEPT ![t] = NoCall]
             /\ ok'   = [ok EXCEPT ![t] = FALSE]
             /\ id'   = [id EXCEPT ![t] = NoId]
             /\ home' = [home EXCEPT ![t] = Nowhere]

(* AUTH SUCCESS *)
Admit(t) ==
  /\ ok[t] /\ Goto(t, "answer", "session")
  /\ welcomed' = IF call[t].op = "SIGNUP" THEN welcomed \cup {Name(t)}
                 ELSE welcomed
  /\ UNCHANGED <<tables, folders, call, ok, id, home, calls, spoiled>>

(* AUTH FAILED, and the connection is closed. *)
TurnAway(t) ==
  /\ ~ok[t] /\ Goto(t, "answer", "idle")
  /\ Forget(t)
  /\ UNCHANGED <<tables, folders, calls, history>>

(* The end of a session. *)
HangUp(t) == /\ Goto(t, "session", "idle")
             /\ Forget(t)
             /\ UNCHANGED <<tables, folders, calls, history>>

(* The process is killed and started again: tables and folders stay. *)
Crash == /\ MayCrash
         /\ pc'   = [t \in Threads |-> "idle"]
         /\ call' = [t \in Threads |-> NoCall]
         /\ ok'   = [t \in Threads |-> FALSE]
         /\ id'   = [t \in Threads |-> NoId]
         /\ home' = [t \in Threads |-> Nowhere]
         /\ spoiled' = spoiled \cup UNION {Lost(Name(t), Owed(t)) :
                                          t \in {u \in Threads : ok[u]}}
         /\ UNCHANGED <<tables, folders, calls, welcomed>>

Signup(t) == \/ CheckExists(t) \/ InsertUser(t) \/ QuotaUserId(t)
             \/ InsertQuota(t) \/ GetUserId(t) \/ MakeFolder(t)
Login(t)  == LoginUserId(t) \/ CheckPassword(t)

Next == \/ Crash
        \/ \E t \in Threads : \/ Receive(t) \/ Signup(t) \/ Login(t)
                               \/ Admit(t) \/ TurnAway(t) \/ HangUp(t)

Spec == Init /\ [][Next]_vars
-----------------------------------------------------------------------------
(* Properties                                                              *)

Places == {"idle", "exists", "insert", "quotaid", "quota", "getid", "mkdir",
           "loginid", "password", "answer", "session"}

TypeOK == /\ users \subseteq Rows /\ quotas \subseteq Ids
          /\ folders \subseteq Folders /\ lastId \in 0 .. MaxId
          /\ pc   \in [Threads -> Places]
          /\ call \in [Threads -> Calls \cup {NoCall}]
          /\ ok   \in [Threads -> BOOLEAN]
          /\ id   \in [Threads -> Ids \cup {NoId}]
          /\ home \in [Threads -> Folders \cup {Nowhere}]
          /\ calls \in Nat
          /\ welcomed \subseteq Names /\ spoiled \subseteq Names \X Parts

(* However many sign-ups of a name saw it free, one user has it, and an    *)
(* id is one user's.                                                       *)
OneUserPerName ==
  \A q, r \in users : q.name = r.name \/ q.id = r.id => q = r

(* A session is one of a user whose password its client sent.  Its id is   *)
(* that user's, or -1 when LOGIN read it in vain; its directory is that    *)
(* user's, or none.  One that a SIGNUP opened has both, and they exist.    *)
AuthSound ==
  \A t \in Threads : pc[t] = "session" =>
    \E r \in RowsOf(Name(t)) :
      /\ r.pass = call[t].pass
      /\ id[t] \in {r.id, NoId}
      /\ home[t] \in {folderOf[r.name][r.id], Nowhere}
      /\ call[t].op = "SIGNUP" => id[t] = r.id /\ home[t] \in folders

(* Somebody is about to do this part for the user of this row, or it was   *)
(* lost to a failure, a crash or another SIGNUP.                           *)
Excused(r, part) == \/ <<r.name, part>> \in spoiled
                    \/ \E t \in Threads : /\ call[t] # NoCall
                                          /\ Name(t) = r.name
                                          /\ part \in Owed(t)

(* Whatever sign-ups run at once, a user has a quota row unless a call of  *)
(* his own SIGNUP was refused or the server died in it.                    *)
QuotaPromised == \A r \in users : r.id \in quotas \/ Excused(r, "quota")

(* Likewise a folder.                                                      *)
FolderPromised ==
  \A r \in users : folderOf[r.name][r.id] \in folders \/ Excused(r, "folder")

(* A SIGNUP that created its user is answered AUTH SUCCESS, unless a call  *)
(* was refused, the server died, another SIGNUP of the name made the       *)
(* folder first, or it is also the folder of another user.                 *)
Shared(r) == \E q \in users : /\ q # r
                              /\ folderOf[q.name][q.id] = folderOf[r.name][r.id]

CreatorWelcomed ==
  \A r \in users : r.name \in welcomed \/ Excused(r, "answer") \/ Shared(r)

(* README.md:75, "server creates per-user directories as                   *)
(* <username><user_id>": two users never work in one directory.            *)
FolderPrivate ==
  \A t, u \in Threads :
    /\ pc[t] = "session" /\ pc[u] = "session"
    /\ home[t] = home[u] /\ home[t] \in folders
    => id[t] = id[u]
=============================================================================
