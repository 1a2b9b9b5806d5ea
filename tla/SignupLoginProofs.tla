------------------------ MODULE SignupLoginProofs ------------------------
(***************************************************************************)
(* Proofs about SignupLogin for any number of client threads, names,       *)
(* passwords and ids, with calls of the database refused and crashes.      *)
(***************************************************************************)
EXTENDS SignupLogin, TLAPS

SignupPlaces == {"exists", "insert", "quotaid", "quota", "getid", "mkdir"}
LoginPlaces  == {"loginid", "password"}

(* The user t let in, or is about to, has sent the password of a row. *)
HasRow(t) == \E r \in users : r.name = Name(t) /\ r.pass = call[t].pass

(* The id t has read is that of its user. *)
OwnId(t)   == \E r \in users : r.name = Name(t) /\ r.id = id[t]
OwnHome(t) == \E r \in users : /\ r.name = Name(t)
                               /\ home[t] = folderOf[r.name][r.id]

(* What holds of a thread, by where it is. *)
ThreadInv(t) ==
  /\ pc[t] = "idle" <=> call[t] = NoCall
  /\ pc[t] \in SignupPlaces => call[t].op = "SIGNUP"
  /\ pc[t] \in LoginPlaces => call[t].op = "LOGIN"
  /\ pc[t] \in {"idle", "exists", "insert"} \cup LoginPlaces => ~ok[t]
  /\ pc[t] \in {"quotaid", "quota", "session"} => ok[t]
  /\ ok[t] => HasRow(t)
  /\ pc[t] \in {"quota", "mkdir"} => OwnId(t)
  /\ pc[t] \in {"answer", "session"} /\ ok[t] /\ call[t].op = "SIGNUP"
       => OwnId(t) /\ OwnHome(t) /\ home[t] \in folders
  /\ pc[t] \in {"password", "answer", "session"} /\ call[t].op = "LOGIN"
       => /\ id[t] = NoId \/ OwnId(t)
          /\ home[t] = Nowhere \/ OwnHome(t)

IdsUsed == \A r \in users : r.id <= lastId

IInv == /\ TypeOK /\ IdsUsed /\ OneUserPerName
        /\ \A t \in Threads : ThreadInv(t)

LEMMA FolderFacts ==
  /\ MaxId \in Nat /\ Nowhere \notin Folders /\ NoCall \notin Calls
  /\ \A n \in Names, i \in Ids : folderOf[n][i] \in Folders
  /\ NoId \notin Ids
  <1>1. NoId \notin Ids
    BY FolderAssumption DEF Ids, NoId
  <1> QED
    BY <1>1, FolderAssumption, NamesAssumption

LEMMA Types ==
  ASSUME TypeOK
  PROVE  /\ \A t \in Threads : call[t] # NoCall => Name(t) \in Names
         /\ \A n \in Names, parts \in SUBSET Parts :
              Lost(n, parts) \subseteq Names \X Parts
         /\ \A t \in Threads : Owed(t) \in SUBSET Parts
         /\ \A n \in Names : UserIds(n) \subseteq Ids \cup {NoId}
  <1>1. \A t \in Threads : call[t] # NoCall => Name(t) \in Names
    BY DEF TypeOK, Name, Calls
  <1>2. \A n \in Names, parts \in SUBSET Parts :
          Lost(n, parts) \subseteq Names \X Parts
    BY DEF Lost
  <1>3. \A t \in Threads : Owed(t) \in SUBSET Parts
    BY DEF Owed
  <1>4. \A n \in Names : UserIds(n) \subseteq Ids \cup {NoId}
    BY DEF UserIds, RowsOf, TypeOK, Rows
  <1> QED
    BY <1>1, <1>2, <1>3, <1>4

(* A thread that does nothing loses nothing: rows and folders only come.   *)
LEMMA OtherThread ==
  ASSUME NEW u \in Threads, ThreadInv(u),
         users \subseteq users', folders \subseteq folders',
         pc'[u] = pc[u], call'[u] = call[u], ok'[u] = ok[u],
         id'[u] = id[u], home'[u] = home[u]
  PROVE  ThreadInv(u)'
  BY DEF ThreadInv, HasRow, OwnId, OwnHome, Name
-----------------------------------------------------------------------------
LEMMA IInvInit == Init => IInv
  <1> SUFFICES ASSUME Init PROVE IInv
    OBVIOUS
  <1>1. TypeOK
    BY FolderFacts DEF Init, TypeOK, Places
  <1>2. IdsUsed /\ OneUserPerName
    BY DEF Init, IdsUsed, OneUserPerName
  <1>3. ASSUME NEW t \in Threads PROVE ThreadInv(t)
    BY DEF Init, ThreadInv, SignupPlaces, LoginPlaces
  <1> QED
    BY <1>1, <1>2, <1>3 DEF IInv

(* A step of t that inserts no user. *)
LEMMA OneThread ==
  ASSUME IInv, NEW t \in Threads, TypeOK', UNCHANGED <<users, lastId>>,
         folders \subseteq folders', ThreadInv(t)',
         \A u \in Threads \ {t} :
           /\ pc'[u] = pc[u] /\ call'[u] = call[u] /\ ok'[u] = ok[u]
           /\ id'[u] = id[u] /\ home'[u] = home[u]
  PROVE  IInv'
  <1>1. (IdsUsed /\ OneUserPerName)'
    BY DEF IInv, IdsUsed, OneUserPerName
  <1>2. ASSUME NEW u \in Threads, u # t PROVE ThreadInv(u)'
    BY <1>2, OtherThread DEF IInv
  <1> QED
    BY <1>1, <1>2 DEF IInv

LEMMA InsertKeeps ==
  ASSUME IInv, NEW t \in Threads, InsertUser(t)
  PROVE  IInv'
  <1> USE FolderFacts DEF history
  <1>0. TypeOK /\ IdsUsed /\ OneUserPerName /\ call[t] \in Calls
    BY DEF IInv, InsertUser, Goto, ThreadInv, TypeOK
  <1>1. CASE Goto(t, "insert", "getid") /\ UNCHANGED <<users, lastId, ok>>
    <2>1. TypeOK'
      BY <1>0, <1>1 DEF InsertUser, Goto, TypeOK, Places
    <2>2. ThreadInv(t)'
      BY <1>0, <1>1 DEF IInv, InsertUser, Goto, ThreadInv, TypeOK, SignupPlaces,
         LoginPlaces, HasRow, Name
    <2> QED
      BY <1>0, <1>1, <2>1, <2>2, OneThread DEF InsertUser, Goto, TypeOK
  <1>2. CASE ~(Goto(t, "insert", "getid") /\ UNCHANGED <<users, lastId, ok>>)
    <2> DEFINE new == [name |-> Name(t), pass |-> call[t].pass, id |-> lastId + 1]
    <2>1. /\ Goto(t, "insert", "quotaid") /\ Unique(Name(t)) /\ lastId < MaxId
          /\ users' = users \cup {new} /\ lastId' = lastId + 1
          /\ Decide(t, TRUE) /\ UNCHANGED <<quotas, folders, call, id, home, calls, history>>
      BY <1>2 DEF InsertUser
    <2>2. new \in Rows /\ lastId \in Nat
      BY <1>0, <2>1 DEF Rows, TypeOK, Calls, Name, Ids
    <2>3. TypeOK'
      BY <1>0, <2>1, <2>2 DEF Goto, TypeOK, Places, Decide
    <2>4. IdsUsed'
      BY <1>0, <2>1, <2>2 DEF IdsUsed, TypeOK, Rows, Ids
    <2>5. ASSUME NEW r \in users PROVE r.name # Name(t) /\ r.id # lastId + 1
      BY <1>0, <2>1, <2>2, <2>5 DEF Unique, Exists, RowsOf, IdsUsed, TypeOK, Rows, Ids
    <2>6. OneUserPerName'
      BY <1>0, <2>1, <2>5 DEF OneUserPerName
    <2>7. ThreadInv(t)'
      <3>1. HasRow(t)'
        <4>1. new \in users' /\ call' = call
          BY <2>1
        <4> QED
          BY <4>1 DEF HasRow, Name
      <3>2. /\ pc'[t] = "quotaid" /\ ok'[t] /\ call'[t] = call[t]
            /\ call[t].op = "SIGNUP" /\ call[t] # NoCall
        BY <1>0, <2>1 DEF IInv, Goto, ThreadInv, TypeOK, SignupPlaces, Decide
      <3> QED
        BY <3>1, <3>2 DEF ThreadInv, SignupPlaces, LoginPlaces
    <2>8. ASSUME NEW u \in Threads, u # t PROVE ThreadInv(u)'
      BY <1>0, <2>1, <2>8, OtherThread DEF IInv, Goto, TypeOK, Decide
    <2> QED
      BY <2>3, <2>4, <2>6, <2>7, <2>8 DEF IInv
  <1> QED
    BY <1>1, <1>2
LEMMA ReceiveKeeps ==
  ASSUME IInv, NEW t \in Threads, Receive(t)
  PROVE  IInv'
  <1> USE FolderFacts DEF history, tables, Goto
  <1>0. TypeOK /\ ThreadInv(t) /\ pc[t] \in Places
    BY DEF IInv, TypeOK
  <1>1. TypeOK'
    BY <1>0 DEF Receive, TypeOK, Places, Calls
  <1>2. ThreadInv(t)'
    <2>1. PICK c \in Calls :
            /\ Goto(t, "idle", IF c.op = "SIGNUP" THEN "exists" ELSE "loginid")
            /\ call' = [call EXCEPT ![t] = c]
      BY DEF Receive
    <2>2. c # NoCall /\ c.op \in {"SIGNUP", "LOGIN"}
      BY DEF Calls
    <2> QED
      BY <1>0, <2>1, <2>2 DEF Receive, TypeOK, ThreadInv, SignupPlaces,
         LoginPlaces
  <1> QED
    BY <1>0, <1>1, <1>2, OneThread DEF Receive, TypeOK

LEMMA CheckExistsKeeps ==
  ASSUME IInv, NEW t \in Threads, CheckExists(t)
  PROVE  IInv'
  <1> USE FolderFacts DEF history, tables, Goto
  <1>0. TypeOK /\ ThreadInv(t) /\ pc[t] \in Places
    BY DEF IInv, TypeOK
  <1>1. TypeOK'
    BY <1>0 DEF CheckExists, TypeOK, Places, Calls
  <1>2. ThreadInv(t)'
    BY <1>0 DEF CheckExists, TypeOK, ThreadInv, SignupPlaces, LoginPlaces, HasRow,
       Name
  <1> QED
    BY <1>0, <1>1, <1>2, OneThread DEF CheckExists, TypeOK

LEMMA InsertQuotaKeeps ==
  ASSUME IInv, NEW t \in Threads, InsertQuota(t)
  PROVE  IInv'
  <1> USE FolderFacts DEF history, tables, Goto, NewUser, Spoils
  <1>0. TypeOK /\ ThreadInv(t) /\ pc[t] \in Places
    BY DEF IInv, TypeOK
  <1>t. call[t] # NoCall /\ Name(t) \in Names /\ {"quota"} \subseteq Parts
    BY <1>0, Types DEF InsertQuota, ThreadInv, Parts
  <1>i. id[t] \in Ids
    BY <1>0 DEF InsertQuota, ThreadInv, OwnId, TypeOK, Rows
  <1>1. TypeOK'
    BY <1>0, <1>t, <1>i, Types DEF InsertQuota, TypeOK, Places
  <1>2. ThreadInv(t)'
    BY <1>0 DEF InsertQuota, TypeOK, ThreadInv, SignupPlaces, LoginPlaces, HasRow,
       Name, OwnId
  <1> QED
    BY <1>0, <1>1, <1>2, OneThread DEF InsertQuota, TypeOK

LEMMA QuotaUserIdKeeps ==
  ASSUME IInv, NEW t \in Threads, QuotaUserId(t)
  PROVE  IInv'
  <1> USE FolderFacts DEF history, tables, Goto, Found, HasId, Spoils
  <1>0. TypeOK /\ ThreadInv(t) /\ pc[t] \in Places
    BY DEF IInv, TypeOK
  <1>t. call[t] # NoCall /\ Name(t) \in Names /\ {"quota"} \subseteq Parts
    BY <1>0, Types DEF QuotaUserId, ThreadInv, Parts
  <1>1. TypeOK'
    BY <1>0, <1>t, Types DEF QuotaUserId, TypeOK, Places
  <1>2. ThreadInv(t)'
    BY <1>0 DEF QuotaUserId, TypeOK, ThreadInv, SignupPlaces, LoginPlaces, HasRow,
       Name, OwnId, UserIds, RowsOf
  <1> QED
    BY <1>0, <1>1, <1>2, OneThread DEF QuotaUserId, TypeOK

LEMMA GetUserIdKeeps ==
  ASSUME IInv, NEW t \in Threads, GetUserId(t)
  PROVE  IInv'
  <1> USE FolderFacts DEF history, tables, Goto, Found, Decide, Spoils
  <1>0. TypeOK /\ ThreadInv(t) /\ pc[t] \in Places
    BY DEF IInv, TypeOK
  <1>t. call[t] # NoCall /\ Name(t) \in Names
    BY <1>0, Types DEF GetUserId, ThreadInv
  <1>1. TypeOK'
    <2>1. PICK i \in UserIds(Name(t)) :
            /\ Found(t, i)
            /\ \/ /\ i # NoId /\ Goto(t, "getid", "mkdir")
                  /\ UNCHANGED <<ok, spoiled>>
               \/ /\ i = NoId /\ Goto(t, "getid", "answer")
                  /\ Decide(t, FALSE) /\ Spoils(Name(t), Owed(t))
      BY DEF GetUserId
    <2>2. i \in Ids \cup {NoId}
      BY <1>0, <1>t, <2>1, Types
    <2>3. /\ UNCHANGED <<users, quotas, lastId, folders, call, home, calls, welcomed>>
          /\ id' \in [Threads -> Ids \cup {NoId}] /\ pc' \in [Threads -> Places]
      BY <1>0, <2>1, <2>2 DEF GetUserId, TypeOK, Places
    <2>4. ok' \in [Threads -> BOOLEAN]
      BY <1>0, <2>1 DEF TypeOK
    <2>5. spoiled' \subseteq Names \X Parts
      BY <1>0, <1>t, <2>1, Types DEF TypeOK
    <2> QED
      BY <1>0, <2>3, <2>4, <2>5 DEF TypeOK
  <1>2. ThreadInv(t)'
    BY <1>0 DEF GetUserId, TypeOK, ThreadInv, SignupPlaces, LoginPlaces, HasRow,
       Name, OwnId, UserIds, RowsOf
  <1> QED
    BY <1>0, <1>1, <1>2, OneThread DEF GetUserId, TypeOK

LEMMA MakeFolderKeeps ==
  ASSUME IInv, NEW t \in Threads, MakeFolder(t)
  PROVE  IInv'
  <1> USE FolderFacts DEF history, tables, Goto, FolderOf, Decide, Succeeds, Spoils
  <1>0. TypeOK /\ ThreadInv(t) /\ pc[t] \in Places
    BY DEF IInv, TypeOK
  <1>t. call[t] # NoCall /\ Name(t) \in Names /\ {"answer"} \subseteq Parts
    BY <1>0, Types DEF MakeFolder, ThreadInv, Parts
  <1>i. id[t] \in Ids
    BY <1>0 DEF MakeFolder, ThreadInv, OwnId, TypeOK, Rows
  <1>1. TypeOK'
    <2>1. folderOf[Name(t)][id[t]] \in Folders
      BY <1>t, <1>i
    <2>2. Lost(Name(t), Owed(t)) \cup Lost(Name(t), {"answer"})
            \subseteq Names \X Parts
      BY <1>0, <1>t, Types
    <2>3. spoiled' \subseteq Names \X Parts
      BY <1>0, <2>2 DEF MakeFolder, TypeOK
    <2>4. /\ pc' \in [Threads -> Places] /\ ok' \in [Threads -> BOOLEAN]
          /\ home' \in [Threads -> Folders \cup {Nowhere}]
          /\ folders' \subseteq Folders
      BY <1>0, <2>1 DEF MakeFolder, TypeOK, Places
    <2> QED
      BY <1>0, <2>3, <2>4 DEF MakeFolder, TypeOK
  <1>2. ThreadInv(t)'
    BY <1>0 DEF MakeFolder, TypeOK, ThreadInv, SignupPlaces, LoginPlaces, HasRow,
       Name, OwnId, OwnHome
  <1> QED
    BY <1>0, <1>1, <1>2, OneThread DEF MakeFolder, TypeOK

LEMMA LoginUserIdKeeps ==
  ASSUME IInv, NEW t \in Threads, LoginUserId(t)
  PROVE  IInv'
  <1> USE FolderFacts DEF history, tables, Goto, Found
  <1>0. TypeOK /\ ThreadInv(t) /\ pc[t] \in Places
    BY DEF IInv, TypeOK
  <1>t. call[t] # NoCall /\ Name(t) \in Names
    BY <1>0, Types DEF LoginUserId, ThreadInv
  <1>1. TypeOK'
    BY <1>0, <1>t, Types DEF LoginUserId, TypeOK, Places
  <1>2. ThreadInv(t)'
    BY <1>0 DEF LoginUserId, TypeOK, ThreadInv, SignupPlaces, LoginPlaces, HasRow,
       Name, OwnId, OwnHome, UserIds, RowsOf
  <1> QED
    BY <1>0, <1>1, <1>2, OneThread DEF LoginUserId, TypeOK

LEMMA CheckPasswordKeeps ==
  ASSUME IInv, NEW t \in Threads, CheckPassword(t)
  PROVE  IInv'
  <1> USE FolderFacts DEF history, tables, Goto, Decide
  <1>0. TypeOK /\ ThreadInv(t) /\ pc[t] \in Places
    BY DEF IInv, TypeOK
  <1>1. TypeOK'
    BY <1>0 DEF CheckPassword, TypeOK, Places, Calls
  <1>2. ThreadInv(t)'
    BY <1>0 DEF CheckPassword, TypeOK, ThreadInv, SignupPlaces, LoginPlaces, HasRow,
       Name, OwnId, OwnHome, RowsOf
  <1> QED
    BY <1>0, <1>1, <1>2, OneThread DEF CheckPassword, TypeOK

LEMMA AdmitKeeps ==
  ASSUME IInv, NEW t \in Threads, Admit(t)
  PROVE  IInv'
  <1> USE FolderFacts DEF history, tables, Goto
  <1>0. TypeOK /\ ThreadInv(t) /\ pc[t] \in Places
    BY DEF IInv, TypeOK
  <1>t. call[t] # NoCall /\ Name(t) \in Names
    BY <1>0, Types DEF Admit, ThreadInv
  <1>1. TypeOK'
    BY <1>0, <1>t, Types DEF Admit, TypeOK, Places
  <1>2. ThreadInv(t)'
    BY <1>0 DEF Admit, TypeOK, ThreadInv, SignupPlaces, LoginPlaces, HasRow,
       Name, OwnId, OwnHome
  <1> QED
    BY <1>0, <1>1, <1>2, OneThread DEF Admit, TypeOK

LEMMA TurnAwayKeeps ==
  ASSUME IInv, NEW t \in Threads, TurnAway(t)
  PROVE  IInv'
  <1> USE FolderFacts DEF history, tables, Goto, Forget
  <1>0. TypeOK /\ ThreadInv(t) /\ pc[t] \in Places
    BY DEF IInv, TypeOK
  <1>1. TypeOK'
    BY <1>0 DEF TurnAway, TypeOK, Places, Calls
  <1>2. ThreadInv(t)'
    BY <1>0 DEF TurnAway, TypeOK, ThreadInv, SignupPlaces, LoginPlaces, HasRow,
       Name, OwnId, OwnHome
  <1> QED
    BY <1>0, <1>1, <1>2, OneThread DEF TurnAway, TypeOK

LEMMA HangUpKeeps ==
  ASSUME IInv, NEW t \in Threads, HangUp(t)
  PROVE  IInv'
  <1> USE FolderFacts DEF history, tables, Goto, Forget
  <1>0. TypeOK /\ ThreadInv(t) /\ pc[t] \in Places
    BY DEF IInv, TypeOK
  <1>1. TypeOK'
    BY <1>0 DEF HangUp, TypeOK, Places, Calls
  <1>2. ThreadInv(t)'
    BY <1>0 DEF HangUp, TypeOK, ThreadInv, SignupPlaces, LoginPlaces, HasRow,
       Name, OwnId, OwnHome
  <1> QED
    BY <1>0, <1>1, <1>2, OneThread DEF HangUp, TypeOK

LEMMA CrashKeeps ==
  ASSUME IInv, Crash
  PROVE  IInv'
  <1> USE FolderFacts
  <1>1. UNION {Lost(Name(t), Owed(t)) : t \in {u \in Threads : ok[u]}}
          \subseteq Names \X Parts
    <2> SUFFICES ASSUME NEW t \in Threads, ok[t]
                 PROVE  Lost(Name(t), Owed(t)) \subseteq Names \X Parts
      OBVIOUS
    <2>1. call[t] # NoCall
      BY DEF IInv, ThreadInv
    <2> QED
      BY <2>1, Types DEF IInv
  <1>2. TypeOK'
    BY <1>1 DEF IInv, Crash, TypeOK, Places, tables
  <1>3. (IdsUsed /\ OneUserPerName)'
    BY DEF IInv, Crash, IdsUsed, OneUserPerName, tables
  <1>4. ASSUME NEW u \in Threads PROVE ThreadInv(u)'
    BY DEF Crash, ThreadInv, SignupPlaces, LoginPlaces
  <1> QED
    BY <1>2, <1>3, <1>4 DEF IInv

LEMMA StutterKeeps ==
  ASSUME IInv, UNCHANGED vars
  PROVE  IInv'
  <1> USE DEF vars, tables, history
  <1>1. TypeOK'
    BY DEF IInv, TypeOK
  <1>2. (IdsUsed /\ OneUserPerName)'
    BY DEF IInv, IdsUsed, OneUserPerName
  <1>3. ASSUME NEW u \in Threads PROVE ThreadInv(u)'
    BY OtherThread DEF IInv
  <1> QED
    BY <1>1, <1>2, <1>3 DEF IInv

LEMMA IInvNext == IInv /\ [Next]_vars => IInv'
  <1> SUFFICES ASSUME IInv, [Next]_vars PROVE IInv'
    OBVIOUS
  <1>1. CASE Crash
    BY <1>1, CrashKeeps
  <1>2. ASSUME NEW t \in Threads, Signup(t) PROVE IInv'
    BY <1>2, CheckExistsKeeps, InsertKeeps, QuotaUserIdKeeps, InsertQuotaKeeps,
       GetUserIdKeeps, MakeFolderKeeps DEF Signup
  <1>3. ASSUME NEW t \in Threads, Login(t) PROVE IInv'
    BY <1>3, LoginUserIdKeeps, CheckPasswordKeeps DEF Login
  <1>4. ASSUME NEW t \in Threads, Receive(t) \/ Admit(t) \/ TurnAway(t) \/ HangUp(t)
        PROVE  IInv'
    BY <1>4, ReceiveKeeps, AdmitKeeps, TurnAwayKeeps, HangUpKeeps
  <1>5. CASE UNCHANGED vars
    BY <1>5, StutterKeeps
  <1> QED
    BY <1>1, <1>2, <1>3, <1>4, <1>5 DEF Next

LEMMA IInvAlways == Spec => []IInv
  BY IInvInit, IInvNext, PTL DEF Spec
-----------------------------------------------------------------------------
(* The tables, the folders and what client threads keep are what signup,   *)
(* login and signup_login take them for.                                   *)
THEOREM TypeCorrect == Spec => []TypeOK
  <1>1. IInv => TypeOK
    BY DEF IInv
  <1> QED
    BY <1>1, IInvAlways, PTL

(* However sign-ups interleave, a name and an id are one user's.           *)
THEOREM OneUser == Spec => []OneUserPerName
  <1>1. IInv => OneUserPerName
    BY DEF IInv
  <1> QED
    BY <1>1, IInvAlways, PTL

(* Every session that signup_login lets in is one of a user whose password *)
(* was sent, with that user's id and directory or none.                    *)
THEOREM SessionsSound == Spec => []AuthSound
  <1>1. IInv => AuthSound
    <2> SUFFICES ASSUME IInv, NEW t \in Threads, pc[t] = "session"
                 PROVE  \E r \in RowsOf(Name(t)) :
                          /\ r.pass = call[t].pass
                          /\ id[t] \in {r.id, NoId}
                          /\ home[t] \in {folderOf[r.name][r.id], Nowhere}
                          /\ call[t].op = "SIGNUP" =>
                               id[t] = r.id /\ home[t] \in folders
      BY DEF AuthSound
    <2>1. ThreadInv(t) /\ ok[t] /\ call[t].op \in {"SIGNUP", "LOGIN"}
      BY DEF IInv, ThreadInv, TypeOK, Calls
    <2>2. PICK r \in users : r.name = Name(t) /\ r.pass = call[t].pass
      BY <2>1 DEF ThreadInv, HasRow
    <2>3. \A q \in users : q.name = Name(t) => q = r
      BY <2>2 DEF IInv, OneUserPerName
    <2>4. OwnId(t) => id[t] = r.id
      BY <2>3 DEF OwnId
    <2>5. OwnHome(t) => home[t] = folderOf[r.name][r.id]
      BY <2>3 DEF OwnHome
    <2>6. CASE call[t].op = "SIGNUP"
      BY <2>1, <2>2, <2>4, <2>5, <2>6 DEF ThreadInv, RowsOf
    <2>7. CASE call[t].op = "LOGIN"
      BY <2>1, <2>2, <2>4, <2>5, <2>7 DEF ThreadInv, RowsOf
    <2> QED
      BY <2>1, <2>6, <2>7
  <1> QED
    BY <1>1, IInvAlways, PTL
-----------------------------------------------------------------------------
(* What a new user is promised.                                            *)

Step(t) == \/ Receive(t) \/ Signup(t) \/ Login(t)
           \/ Admit(t) \/ TurnAway(t) \/ HangUp(t)

Folder(r) == folderOf[r.name][r.id]

(* t is about to do this part for the user of this row. *)
DoesFor(t, r, part) == call[t] # NoCall /\ Name(t) = r.name /\ part \in Owed(t)

(* A step of t is one thread's, and takes nothing back. *)
LEMMA StepFrame ==
  ASSUME TypeOK, NEW t \in Threads, Step(t)
  PROVE  /\ users \subseteq users' /\ quotas \subseteq quotas'
         /\ folders \subseteq folders' /\ spoiled \subseteq spoiled'
         /\ welcomed \subseteq welcomed'
         /\ \A u \in Threads \ {t} :
              pc'[u] = pc[u] /\ call'[u] = call[u] /\ ok'[u] = ok[u]
  <1> USE DEF TypeOK, Goto, tables, history, Found, Decide, Spoils, Forget
  <1>1. CASE Receive(t) \/ Login(t)
    BY <1>1 DEF Receive, Login, LoginUserId, CheckPassword
  <1>2. CASE Signup(t)
    BY <1>2 DEF Signup, CheckExists, InsertUser, QuotaUserId, InsertQuota,
       GetUserId, MakeFolder
  <1>3. CASE Admit(t) \/ TurnAway(t) \/ HangUp(t)
    BY <1>3 DEF Admit, TurnAway, HangUp
  <1> QED
    BY <1>1, <1>2, <1>3 DEF Step

(* What t owes, it still owes after its step, or has done, or has lost.    *)
LEMMA OwedStep ==
  ASSUME IInv, NEW t \in Threads, Step(t), NEW part \in Owed(t)
  PROVE  \/ part \in Owed(t)' /\ call'[t] = call[t]
         \/ <<Name(t), part>> \in spoiled'
         \/ part = "quota" /\ OwnId(t) /\ id[t] \in quotas'
         \/ part = "folder" /\ OwnId(t) /\ FolderOf(t) \in folders'
         \/ part = "answer" /\ Name(t) \in welcomed'
         \/ /\ part = "answer" /\ OwnId(t) /\ pc[t] = "mkdir"
            /\ FolderOf(t) \in folders
  <1>1. /\ TypeOK /\ ThreadInv(t) /\ ok[t] /\ call[t].op = "SIGNUP"
        /\ part \in Parts /\ pc[t] \in DueAt[part]
    BY DEF IInv, Owed
  <1>2. pc[t] \in {"quotaid", "quota", "getid", "mkdir", "answer"}
    BY <1>1 DEF Parts, DueAt
  <1> USE DEF TypeOK, Goto, Parts, DueAt
  <1>3. CASE QuotaUserId(t)
    BY <1>1, <1>3 DEF QuotaUserId, Owed, Spoils, Lost
  <1>4. CASE InsertQuota(t)
    BY <1>1, <1>4 DEF InsertQuota, Owed, Spoils, Lost, NewUser, ThreadInv
  <1>5. CASE GetUserId(t)
    BY <1>1, <1>5 DEF GetUserId, Owed, Spoils, Lost, Found, Decide
  <1>6. CASE MakeFolder(t)
    BY <1>1, <1>6 DEF MakeFolder, Owed, Spoils, Lost, Decide, Succeeds, ThreadInv
  <1>7. CASE Admit(t)
    BY <1>1, <1>7 DEF Admit
  <1>8. ~(Receive(t) \/ CheckExists(t) \/ InsertUser(t) \/ LoginUserId(t)
          \/ CheckPassword(t) \/ TurnAway(t) \/ HangUp(t))
    BY <1>1, <1>2 DEF Receive, CheckExists, InsertUser, LoginUserId,
       CheckPassword, TurnAway, HangUp
  <1> QED
    BY <1>3, <1>4, <1>5, <1>6, <1>7, <1>8 DEF Step, Signup, Login

(* Somebody who does a part for an old row goes on doing so, or lost it,   *)
(* or did it.                                                              *)
LEMMA DoesStep ==
  ASSUME IInv, NEW t \in Threads, Step(t), NEW r \in users,
         NEW u \in Threads, NEW part \in Parts, DoesFor(u, r, part)
  PROVE  \/ DoesFor(u, r, part)'
         \/ <<r.name, part>> \in spoiled'
         \/ part = "quota" /\ r.id \in quotas'
         \/ part = "folder" /\ Folder(r) \in folders'
         \/ part = "answer" /\ r.name \in welcomed'
         \/ part = "answer" /\ pc[u] = "mkdir" /\ Folder(r) \in folders
  <1>1. CASE u # t
    BY <1>1, StepFrame DEF IInv, DoesFor, Owed, Name
  <1>2. CASE u = t
    <2>1. OwnId(t) => id[t] = r.id
      BY <1>2 DEF OwnId, IInv, OneUserPerName, DoesFor
    <2>2. OwnId(t) => FolderOf(t) = Folder(r)
      BY <1>2, <2>1 DEF FolderOf, Folder, DoesFor
    <2>3. part \in Owed(t)
      BY <1>2 DEF DoesFor
    <2>4. part \in Owed(t)' /\ call'[t] = call[t] => DoesFor(t, r, part)'
      BY <1>2 DEF DoesFor, Name
    <2>5. Name(t) = r.name
      BY <1>2 DEF DoesFor
    <2> QED
      BY <1>2, <2>1, <2>2, <2>3, <2>4, <2>5, OwedStep
  <1> QED
    BY <1>1, <1>2

(* A step adds a row only for a thread that has everything to do for it.   *)
LEMMA NewRow ==
  ASSUME IInv, NEW t \in Threads, Step(t), NEW r \in users', r \notin users
  PROVE  /\ InsertUser(t) /\ ~Exists(Name(t)) /\ Name(t) = r.name
         /\ Owed(t)' = Parts /\ call' = call /\ call[t] # NoCall
         /\ \A part \in Parts : DoesFor(t, r, part)'
         /\ pc'[t] = "quotaid" /\ folders' = folders /\ welcomed' = welcomed
  <1>1. InsertUser(t) /\ users' # users
    BY DEF Step, Signup, Login, Receive, CheckExists, InsertUser, QuotaUserId,
       InsertQuota, GetUserId, MakeFolder, LoginUserId, CheckPassword, Admit,
       TurnAway, HangUp, tables
  <1>2. /\ Goto(t, "insert", "quotaid") /\ Unique(Name(t)) /\ Decide(t, TRUE)
        /\ users' = users \cup {[name |-> Name(t), pass |-> call[t].pass,
                                 id |-> lastId + 1]}
        /\ call' = call /\ folders' = folders /\ welcomed' = welcomed
    BY <1>1 DEF InsertUser, history
  <1>3. TypeOK /\ ThreadInv(t) /\ call[t] # NoCall /\ call[t].op = "SIGNUP"
    BY <1>2 DEF IInv, ThreadInv, Goto, SignupPlaces
  <1>4. r.name = Name(t) /\ ~Exists(Name(t))
    BY <1>2 DEF Unique
  <1>5. pc'[t] = "quotaid" /\ ok'[t]
    BY <1>2, <1>3 DEF Goto, Decide, TypeOK
  <1>6. Owed(t)' = Parts
    BY <1>2, <1>3, <1>5 DEF Owed, Parts, DueAt
  <1>7. \A part \in Parts : DoesFor(t, r, part)'
    BY <1>2, <1>3, <1>4, <1>6 DEF DoesFor, Name
  <1> QED
    BY <1>1, <1>2, <1>3, <1>4, <1>5, <1>6, <1>7

LEMMA ExcusedAgain ==
  ASSUME NEW r, NEW part \in Parts
  PROVE  Excused(r, part) <=> \/ <<r.name, part>> \in spoiled
                             \/ \E t \in Threads : DoesFor(t, r, part)
  BY DEF Excused, DoesFor

(* A crash loses what was being done.                                      *)
LEMMA CrashLoses ==
  ASSUME IInv, Crash, NEW t \in Threads, NEW part \in Owed(t)
  PROVE  <<Name(t), part>> \in spoiled'
  <1>1. ok[t] /\ <<Name(t), part>> \in Lost(Name(t), Owed(t))
    BY DEF Owed, Lost
  <1>2. spoiled' = spoiled \cup UNION {Lost(Name(u), Owed(u)) :
                                      u \in {v \in Threads : ok[v]}}
    BY DEF Crash
  <1> QED
    BY <1>1, <1>2

(* Who is excused stays so until the part is done.                         *)
LEMMA PromiseStep ==
  ASSUME IInv, [Next]_vars, NEW r \in users, NEW part \in {"quota", "folder"},
         Excused(r, part)
  PROVE  \/ Excused(r, part)'
         \/ part = "quota" /\ r.id \in quotas'
         \/ part = "folder" /\ Folder(r) \in folders'
  <1>1. part \in Parts /\ part # "answer"
    BY DEF Parts
  <1>2. CASE Crash
    <2>1. spoiled \subseteq spoiled'
      BY <1>2 DEF Crash
    <2> QED
      BY <1>1, <1>2, <2>1, CrashLoses, ExcusedAgain DEF Excused
  <1>3. ASSUME NEW t \in Threads, Step(t)
        PROVE  \/ Excused(r, part)'
               \/ part = "quota" /\ r.id \in quotas'
               \/ part = "folder" /\ Folder(r) \in folders'
    <2>1. CASE <<r.name, part>> \in spoiled
      BY <1>3, <2>1, StepFrame DEF IInv, Excused
    <2>2. CASE \E u \in Threads : DoesFor(u, r, part)
      <3>1. PICK u \in Threads : DoesFor(u, r, part)
        BY <2>2
      <3>2. DoesFor(u, r, part)' \/ <<r.name, part>> \in spoiled'
              => Excused(r, part)'
        BY DEF DoesFor, Excused
      <3> QED
        BY <1>1, <1>3, <3>1, <3>2, DoesStep
    <2> QED
      BY <1>1, <2>1, <2>2, ExcusedAgain
  <1>4. CASE UNCHANGED vars
    BY <1>4 DEF vars, history, Excused, Owed, Name
  <1> QED
    BY <1>2, <1>3, <1>4 DEF Next, Step

(* Rows, quota rows and folders are never taken back.                      *)
LEMMA NothingBack ==
  ASSUME IInv, [Next]_vars
  PROVE  users \subseteq users' /\ quotas \subseteq quotas' /\ folders \subseteq folders'
  <1>1. CASE Crash
    BY <1>1 DEF Crash, tables
  <1>2. ASSUME NEW t \in Threads, Step(t)
        PROVE  /\ users \subseteq users' /\ quotas \subseteq quotas'
               /\ folders \subseteq folders'
    BY <1>2, StepFrame DEF IInv
  <1>3. CASE UNCHANGED vars
    BY <1>3 DEF vars, tables
  <1> QED
    BY <1>1, <1>2, <1>3 DEF Next, Step

(* The user of a row that was not there is excused for everything.         *)
LEMMA NewExcused ==
  ASSUME IInv, [Next]_vars, NEW r \in users', r \notin users, NEW part \in Parts
  PROVE  Excused(r, part)'
  <1>1. PICK t \in Threads : Step(t)
    BY DEF Next, Step, Crash, tables, vars
  <1> QED
    BY <1>1, NewRow DEF DoesFor, Excused

(* A user has a quota row unless a call of his own SIGNUP was refused or   *)
(* the server died in it: concurrent sign-ups never take it from him.      *)
THEOREM QuotaKept == Spec => []QuotaPromised
  <1>1. Init => QuotaPromised
    BY DEF Init, QuotaPromised
  <1>2. IInv /\ QuotaPromised /\ [Next]_vars => QuotaPromised'
    <2> SUFFICES ASSUME IInv, QuotaPromised, [Next]_vars, NEW r \in users'
                 PROVE  r.id \in quotas' \/ Excused(r, "quota")'
      BY DEF QuotaPromised
    <2>1. CASE r \in users
      BY <2>1, NothingBack, PromiseStep DEF QuotaPromised
    <2>2. CASE r \notin users
      BY <2>2, NewExcused DEF Parts
    <2> QED
      BY <2>1, <2>2
  <1> QED
    BY <1>1, <1>2, IInvAlways, PTL DEF Spec

(* Likewise a folder of the name main.c builds from his name and id.       *)
THEOREM FolderKept == Spec => []FolderPromised
  <1>1. Init => FolderPromised
    BY DEF Init, FolderPromised
  <1>2. IInv /\ FolderPromised /\ [Next]_vars => FolderPromised'
    <2> SUFFICES ASSUME IInv, FolderPromised, [Next]_vars, NEW r \in users'
                 PROVE  Folder(r) \in folders' \/ Excused(r, "folder")'
      BY DEF FolderPromised, Folder
    <2>1. CASE r \in users
      BY <2>1, NothingBack, PromiseStep DEF FolderPromised, Folder
    <2>2. CASE r \notin users
      BY <2>2, NewExcused DEF Parts
    <2> QED
      BY <2>1, <2>2
  <1> QED
    BY <1>1, <1>2, IInvAlways, PTL DEF Spec
-----------------------------------------------------------------------------
(* The welcome.  It takes knowing whose folder each folder is.             *)

(* t has inserted its user and not yet answered. *)
Creator(t) == call[t] # NoCall /\ "answer" \in Owed(t)

OneCreator ==
  \A t, u \in Threads : Creator(t) /\ Creator(u) /\ Name(t) = Name(u) => t = u

NotYetWelcome == \A t \in Threads : Creator(t) => Name(t) \notin welcomed

WelcomedExist == \A n \in welcomed : Exists(n)

FoldersOwned == \A f \in folders : \E q \in users : f = Folder(q)

(* Why the folder of a user is there. *)
FolderReason(r) ==
  \/ Shared(r)
  \/ <<r.name, "answer">> \in spoiled
  \/ r.name \in welcomed
  \/ \E t \in Threads : Creator(t) /\ pc[t] = "answer" /\ Name(t) = r.name

FoldersExplained == \A r \in users : Folder(r) \in folders => FolderReason(r)

CInv == /\ OneCreator /\ NotYetWelcome /\ WelcomedExist
        /\ FoldersOwned /\ FoldersExplained /\ CreatorWelcomed

LEMMA CreatorRow ==
  ASSUME IInv, NEW t \in Threads, Creator(t)
  PROVE  Exists(Name(t)) /\ call[t].op = "SIGNUP" /\ ok[t]
  BY DEF IInv, ThreadInv, HasRow, Exists, RowsOf, Creator, Owed

(* Only InsertUser makes a creator. *)
LEMMA CreatorBefore ==
  ASSUME IInv, NEW t \in Threads, Step(t), NEW u \in Threads, Creator(u)'
  PROVE  /\ Name(u)' = Name(u)
         /\ \/ Creator(u)
            \/ u = t /\ ~Exists(Name(t)) /\ welcomed' = welcomed
  <1>1. CASE u # t
    BY <1>1, StepFrame DEF IInv, Creator, Owed, Name
  <1>2. CASE u = t
    <2>1. /\ TypeOK /\ ThreadInv(t) /\ call'[t] # NoCall /\ ok'[t]
          /\ call'[t].op = "SIGNUP"
          /\ pc'[t] \in {"quotaid", "quota", "getid", "mkdir", "answer"}
      BY <1>2 DEF IInv, Creator, Owed, DueAt
    <2>2. ok[t] /\ pc[t] \in {"quotaid", "quota", "getid", "mkdir"}
            /\ call' = call => Creator(t)
      BY <1>2, <2>1 DEF Creator, Owed, Parts, DueAt
    <2> USE DEF Goto, TypeOK
    <2>3. CASE Receive(t) \/ CheckExists(t) \/ Login(t)
      BY <2>1, <2>3 DEF Receive, CheckExists, Login, LoginUserId, CheckPassword,
         ThreadInv, LoginPlaces
    <2>4. CASE InsertUser(t)
      BY <1>2, <2>1, <2>4 DEF InsertUser, ThreadInv, Unique, Name, history
    <2>5. CASE QuotaUserId(t) \/ InsertQuota(t) \/ GetUserId(t) \/ MakeFolder(t)
      BY <1>2, <2>1, <2>2, <2>5 DEF QuotaUserId, InsertQuota, GetUserId,
         MakeFolder, Decide, Succeeds, Name
    <2>6. CASE Admit(t) \/ TurnAway(t) \/ HangUp(t)
      BY <2>1, <2>6 DEF Admit, TurnAway, HangUp, Forget
    <2> QED
      BY <2>3, <2>4, <2>5, <2>6 DEF Step, Signup
  <1> QED
    BY <1>1, <1>2

(* Only Admit welcomes, and then the creator is none any more. *)
LEMMA WelcomedStep ==
  ASSUME IInv, NEW t \in Threads, Step(t), NEW n \in welcomed', n \notin welcomed
  PROVE  n = Name(t) /\ Creator(t) /\ ~Creator(t)'
  <1>1. Admit(t) /\ n = Name(t) /\ call[t].op = "SIGNUP"
    BY DEF Step, Signup, Login, Receive, CheckExists, InsertUser, QuotaUserId,
       InsertQuota, GetUserId, MakeFolder, LoginUserId, CheckPassword, Admit,
       TurnAway, HangUp, history
  <1>2. TypeOK /\ ThreadInv(t) /\ pc[t] = "answer" /\ pc'[t] = "session" /\ ok[t]
    BY <1>1 DEF Admit, Goto, IInv, TypeOK
  <1>3. Creator(t)
    BY <1>1, <1>2 DEF Creator, Owed, Parts, DueAt, ThreadInv
  <1>4. ~Creator(t)'
    BY <1>2 DEF Creator, Owed, DueAt
  <1> QED
    BY <1>1, <1>3, <1>4

(* Only mkdir makes a folder, for the user whose id was read: its creator  *)
(* goes on to answer, and anybody else spoils the answer.                  *)
LEMMA FoldersStep ==
  ASSUME IInv, NEW t \in Threads, Step(t), NEW f \in folders', f \notin folders
  PROVE  /\ f = FolderOf(t) /\ OwnId(t)
         /\ \/ Creator(t)' /\ pc'[t] = "answer" /\ Name(t)' = Name(t)
            \/ <<Name(t), "answer">> \in spoiled'
  <1>1. MakeFolder(t)
    BY DEF Step, Signup, Login, Receive, CheckExists, InsertUser, QuotaUserId,
       InsertQuota, GetUserId, MakeFolder, LoginUserId, CheckPassword, Admit,
       TurnAway, HangUp, tables
  <1>2. /\ TypeOK /\ ThreadInv(t) /\ pc[t] = "mkdir" /\ pc'[t] = "answer"
        /\ call' = call
    BY <1>1 DEF MakeFolder, Goto, IInv, TypeOK
  <1>3. f = FolderOf(t) /\ Decide(t, Succeeds(t))
        /\ (ok[t] \/ Spoils(Name(t), {"answer"}))
    BY <1>1 DEF MakeFolder
  <1>4. OwnId(t) /\ call[t] # NoCall /\ call[t].op = "SIGNUP"
    BY <1>2 DEF ThreadInv, SignupPlaces
  <1>5. CASE ok[t]
    BY <1>2, <1>3, <1>4, <1>5 DEF Creator, Owed, Parts, DueAt, Decide, Succeeds,
       Name, TypeOK
  <1>6. CASE ~ok[t]
    BY <1>3, <1>4, <1>6 DEF Spoils, Lost
  <1> QED
    BY <1>3, <1>4, <1>5, <1>6

LEMMA SharedStays ==
  ASSUME NEW r, Shared(r), users \subseteq users'
  PROVE  Shared(r)'
  BY DEF Shared

LEMMA CreatorsStep ==
  ASSUME IInv, CInv, NEW t \in Threads, Step(t)
  PROVE  (OneCreator /\ NotYetWelcome /\ WelcomedExist)'
  <1>1. \A u \in Threads : Creator(u) => Exists(Name(u))
    BY CreatorRow
  <1>2. OneCreator'
    <2> SUFFICES ASSUME NEW u \in Threads, NEW v \in Threads,
                        Creator(u)', Creator(v)', Name(u)' = Name(v)'
                 PROVE  u = v
      BY DEF OneCreator
    <2>1. Name(u) = Name(v)
      BY CreatorBefore
    <2> QED
      BY <1>1, <2>1, CreatorBefore DEF CInv, OneCreator
  <1>3. NotYetWelcome'
    <2> SUFFICES ASSUME NEW u \in Threads, Creator(u)', Name(u)' \in welcomed'
                 PROVE  FALSE
      BY DEF NotYetWelcome
    <2>1. Name(u) \in welcomed'
      BY CreatorBefore
    <2>2. CASE Name(u) \in welcomed
      BY <2>2, CreatorBefore DEF CInv, NotYetWelcome, WelcomedExist
    <2>3. CASE Name(u) \notin welcomed
      <3>1. Name(u) = Name(t) /\ Creator(t) /\ u # t
        BY <2>1, <2>3, WelcomedStep
      <3> QED
        BY <3>1, CreatorBefore DEF CInv, OneCreator
    <2> QED
      BY <2>2, <2>3
  <1>4. WelcomedExist'
    <2>1. \A n : Exists(n) => Exists(n)'
      BY StepFrame DEF IInv, Exists, RowsOf
    <2> QED
      BY <1>1, <2>1, WelcomedStep DEF CInv, WelcomedExist
  <1> QED
    BY <1>2, <1>3, <1>4

LEMMA FoldersOwnedStep ==
  ASSUME IInv, CInv, NEW t \in Threads, Step(t)
  PROVE  FoldersOwned'
  <1> SUFFICES ASSUME NEW f \in folders'
               PROVE  \E q \in users' : f = Folder(q)
    BY DEF FoldersOwned, Folder
  <1>1. users \subseteq users'
    BY StepFrame DEF IInv
  <1>2. CASE f \in folders
    BY <1>1, <1>2 DEF CInv, FoldersOwned
  <1>3. CASE f \notin folders
    <2>1. f = FolderOf(t) /\ OwnId(t)
      BY <1>3, FoldersStep
    <2> QED
      BY <1>1, <2>1 DEF OwnId, FolderOf, Folder
  <1> QED
    BY <1>2, <1>3

LEMMA FoldersExplainedStep ==
  ASSUME IInv, CInv, NEW t \in Threads, Step(t)
  PROVE  FoldersExplained'
  <1> SUFFICES ASSUME NEW r \in users', Folder(r) \in folders'
               PROVE  FolderReason(r)'
    BY DEF FoldersExplained, Folder
  <1>1. /\ users \subseteq users' /\ spoiled \subseteq spoiled'
        /\ welcomed \subseteq welcomed'
    BY StepFrame DEF IInv
  <1>2. CASE r \notin users
    <2>1. Folder(r) \in folders
      BY <1>2, NewRow
    <2>2. PICK q \in users : Folder(q) = Folder(r)
      BY <2>1 DEF CInv, FoldersOwned
    <2> QED
      BY <1>1, <1>2, <2>2 DEF FolderReason, Shared, Folder
  <1>3. CASE r \in users /\ Folder(r) \notin folders
    <2>1. /\ Folder(r) = FolderOf(t) /\ OwnId(t)
          /\ \/ Creator(t)' /\ pc'[t] = "answer" /\ Name(t)' = Name(t)
             \/ <<Name(t), "answer">> \in spoiled'
      BY <1>3, FoldersStep
    <2>2. PICK q \in users : q.name = Name(t) /\ Folder(q) = Folder(r)
      BY <2>1 DEF OwnId, FolderOf, Folder
    <2>3. CASE q = r
      BY <2>1, <2>2, <2>3 DEF FolderReason
    <2>4. CASE q # r
      BY <1>1, <2>2, <2>4 DEF FolderReason, Shared, Folder
    <2> QED
      BY <2>3, <2>4
  <1>4. CASE r \in users /\ Folder(r) \in folders
    <2>1. FolderReason(r)
      BY <1>4 DEF CInv, FoldersExplained
    <2>2. CASE Shared(r)
      BY <1>1, <2>2, SharedStays DEF FolderReason
    <2>3. CASE <<r.name, "answer">> \in spoiled \/ r.name \in welcomed
      BY <1>1, <2>3 DEF FolderReason
    <2>4. ASSUME NEW u \in Threads, Creator(u), pc[u] = "answer", Name(u) = r.name
          PROVE  FolderReason(r)'
      <3>1. DoesFor(u, r, "answer") /\ "answer" \in Parts
        BY <2>4 DEF DoesFor, Creator, Parts
      <3>2. \/ DoesFor(u, r, "answer")'
            \/ <<r.name, "answer">> \in spoiled' \/ r.name \in welcomed'
        BY <1>4, <2>4, <3>1, DoesStep
      <3>3. DoesFor(u, r, "answer")' => pc'[u] = "answer"
        <4>1. CASE u = t
          BY <2>4, <4>1 DEF IInv, TypeOK, Step, Signup, Login, Receive,
             CheckExists, InsertUser, QuotaUserId, InsertQuota, GetUserId,
             MakeFolder, LoginUserId, CheckPassword, Admit, TurnAway, HangUp,
             Goto, DoesFor, Owed, DueAt
        <4>2. CASE u # t
          BY <2>4, <4>2, StepFrame DEF IInv
        <4> QED
          BY <4>1, <4>2
      <3> QED
        BY <3>2, <3>3 DEF FolderReason, DoesFor, Creator
    <2> QED
      BY <2>1, <2>2, <2>3, <2>4 DEF FolderReason
  <1> QED
    BY <1>2, <1>3, <1>4

LEMMA WelcomeStep ==
  ASSUME IInv, CInv, NEW t \in Threads, Step(t)
  PROVE  CreatorWelcomed'
  <1> SUFFICES ASSUME NEW r \in users'
               PROVE  r.name \in welcomed' \/ Excused(r, "answer")' \/ Shared(r)'
    BY DEF CreatorWelcomed
  <1>1. /\ users \subseteq users' /\ spoiled \subseteq spoiled'
        /\ welcomed \subseteq welcomed' /\ "answer" \in Parts
    BY StepFrame DEF IInv, Parts
  <1>2. CASE r \notin users
    BY <1>1, <1>2, NewRow DEF Excused, DoesFor
  <1>3. CASE r \in users
    <2>1. r.name \in welcomed \/ Excused(r, "answer") \/ Shared(r)
      BY <1>3 DEF CInv, CreatorWelcomed
    <2>2. CASE r.name \in welcomed \/ <<r.name, "answer">> \in spoiled
      BY <1>1, <2>2 DEF Excused
    <2>3. CASE Shared(r)
      BY <1>1, <2>3, SharedStays
    <2>4. ASSUME NEW u \in Threads, DoesFor(u, r, "answer")
          PROVE  r.name \in welcomed' \/ Excused(r, "answer")' \/ Shared(r)'
      <3>1. \/ DoesFor(u, r, "answer")'
            \/ <<r.name, "answer">> \in spoiled' \/ r.name \in welcomed'
            \/ pc[u] = "mkdir" /\ Folder(r) \in folders
        BY <1>1, <1>3, <2>4, DoesStep
      <3>2. DoesFor(u, r, "answer")' => Excused(r, "answer")'
        BY DEF DoesFor, Excused
      <3>3. CASE pc[u] = "mkdir" /\ Folder(r) \in folders
        <4>1. FolderReason(r)
          BY <1>3, <3>3 DEF CInv, FoldersExplained
        <4>2. Creator(u) /\ Name(u) = r.name
          BY <2>4 DEF DoesFor, Creator
        <4>3. r.name \notin welcomed
          BY <4>2 DEF CInv, NotYetWelcome
        <4>4. \A v \in Threads : Creator(v) /\ Name(v) = r.name => pc[v] # "answer"
          BY <3>3, <4>2 DEF CInv, OneCreator
        <4> QED
          BY <1>1, <4>1, <4>3, <4>4, SharedStays DEF FolderReason, Excused
      <3> QED
        BY <3>1, <3>2, <3>3 DEF Excused
    <2> QED
      BY <1>1, <2>1, <2>2, <2>3, <2>4, ExcusedAgain
  <1> QED
    BY <1>2, <1>3

LEMMA CInvCrash ==
  ASSUME IInv, CInv, Crash
  PROVE  CInv'
  <1>1. /\ users' = users /\ folders' = folders /\ welcomed' = welcomed
        /\ spoiled \subseteq spoiled' /\ \A t \in Threads : ~Creator(t)'
    BY DEF Crash, tables, Creator
  <1>2. (OneCreator /\ NotYetWelcome /\ WelcomedExist /\ FoldersOwned)'
    BY <1>1 DEF CInv, OneCreator, NotYetWelcome, WelcomedExist, FoldersOwned,
       Exists, RowsOf, Folder
  <1>3. ASSUME NEW r \in users PROVE Shared(r) => Shared(r)'
    BY <1>1, SharedStays
  <1>4. \A t \in Threads : Creator(t) => <<Name(t), "answer">> \in spoiled'
    BY CrashLoses DEF Creator
  <1>5. FoldersExplained'
    BY <1>1, <1>3, <1>4 DEF CInv, FoldersExplained, FolderReason, Folder
  <1>6. CreatorWelcomed'
    BY <1>1, <1>3, <1>4 DEF CInv, CreatorWelcomed, Excused, Creator
  <1> QED
    BY <1>2, <1>5, <1>6 DEF CInv

(* A SIGNUP that created its user is answered AUTH SUCCESS unless a call   *)
(* was refused, the server died, another SIGNUP of the name made the       *)
(* folder, or the folder is another user's too.                            *)
THEOREM CreatorsWelcomed == Spec => []CreatorWelcomed
  <1>1. Init => CInv
    BY DEF Init, CInv, OneCreator, NotYetWelcome, WelcomedExist, FoldersOwned,
       FoldersExplained, CreatorWelcomed, Creator
  <1>2. IInv /\ CInv /\ [Next]_vars => CInv'
    <2> SUFFICES ASSUME IInv, CInv, [Next]_vars PROVE CInv'
      OBVIOUS
    <2>1. ASSUME NEW t \in Threads, Step(t) PROVE CInv'
      BY <2>1, CreatorsStep, FoldersOwnedStep, FoldersExplainedStep, WelcomeStep
         DEF CInv
    <2>2. CASE UNCHANGED vars
      BY <2>2 DEF vars, tables, history, CInv, OneCreator, NotYetWelcome,
         WelcomedExist, FoldersOwned, FoldersExplained, FolderReason, Folder,
         CreatorWelcomed, Creator, Excused, Shared, Owed, Name, Exists, RowsOf
    <2> QED
      BY <2>1, <2>2, CInvCrash DEF Next, Step
  <1>3. CInv => CreatorWelcomed
    BY DEF CInv
  <1> QED
    BY <1>1, <1>2, <1>3, IInvAlways, PTL DEF Spec
=============================================================================
