---------------------------- MODULE Services_proofs ----------------------------
(***************************************************************************)
(* Proofs about the settings module: that what has been entered is what    *)
(* the keychain and the server end up with, and that the status that is    *)
(* shown is that of the unit. Each rests on what is still under way: the   *)
(* last keychain job of a name, the last reply about the unit.             *)
(*                                                                         *)
(* Then of the composition of the parts that share no state: each behaves  *)
(* in it as on its own, so that what is proved of each holds of all.       *)
(***************************************************************************)
EXTENDS MCServices, Channels_proofs, Quality_proofs

\* What is left of a queue without its first element.
LEMMA TailOf ==
  ASSUME NEW S, NEW s \in Seq(S), s # <<>>
  PROVE  /\ Tail(s) \in Seq(S) /\ Head(s) = s[1] /\ Len(Tail(s)) = Len(s) - 1
         /\ \A i \in 1..Len(s) : i = 1 \/ (i - 1 \in 1..Len(Tail(s)) /\ Tail(s)[i - 1] = s[i])
         /\ \A i \in 1..Len(Tail(s)) : i + 1 \in 1..Len(s) /\ Tail(s)[i] = s[i + 1]
  OBVIOUS

\* A queue with one more element.
LEMMA AppendOf ==
  ASSUME NEW S, NEW s \in Seq(S), NEW e \in S
  PROVE  /\ Append(s, e) \in Seq(S) /\ Len(Append(s, e)) = Len(s) + 1
         /\ \A i \in 1..Len(s) : Append(s, e)[i] = s[i] /\ i \in 1..Len(Append(s, e))
         /\ Append(s, e)[Len(s) + 1] = e
         /\ \A i \in 1..Len(Append(s, e)) : i = Len(s) + 1 \/ i \in 1..Len(s)
  OBVIOUS

-----------------------------------------------------------------------------
(* Logins: types *)

Job == [op : {"write"}, name : Names, password : Passwords] \union [op : {"delete"}, name : Names]

Entries == [Names -> Passwords \union {NoPassword}]

\* The queue of the keychain jobs, of which every one is about a name.
LoginsType ==
    /\ jobs \in Seq(Job) /\ form.users \subseteq Names
    /\ form = [users |-> form.users, systemUser |-> form.systemUser]
    /\ wallet \in Entries /\ logins \in Entries
    /\ refused \subseteq Names /\ awaited \subseteq Names
    /\ serverUsers \subseteq Names \X Passwords

\* What the keychain has for the name of a job once that is done.
Result(job) == IF job.op = "write" THEN job.password ELSE NoPassword

\* The last job of a name in a queue is the one with what was entered last; a name without
\* a job has that in the keychain already. Refused names are left out.
Fits(queue, entered) ==
    /\ \A i \in 1..Len(queue) :
          (\A j \in 1..Len(queue) : j > i => queue[j].name # queue[i].name)
              => queue[i].name \in refused \/ Result(queue[i]) = entered[queue[i].name]
    /\ \A n \in Names \ refused :
          (\A i \in 1..Len(queue) : queue[i].name # n) => wallet[n] = entered[n]

\* The file has the names with a password, as the form has.
UsersInv == /\ config.users = form.users
            /\ \A n \in Names : n \in form.users <=> logins[n] # NoPassword

\* A server that is current knows the users it has read a password for.
ServerInv ==
    /\ process # "up" => serverUsers = {} /\ awaited = {}
    /\ current =>
         /\ process = "up" /\ jobs = <<>>
         /\ \A n \in Names, p \in Passwords :
               /\ n \in awaited => <<n, p>> \notin serverUsers
               /\ n \notin awaited \union refused => (<<n, p>> \in serverUsers <=> logins[n] = p)

LoginsInv == LoginsType /\ Fits(jobs, logins) /\ UsersInv /\ ServerInv

-----------------------------------------------------------------------------
(* Logins: the keychain *)

LEMMA JobFacts ==
  /\ \A n \in Names, p \in Passwords : WriteJob(n, p) \in Job /\ WriteJob(n, p).name = n
                                       /\ Result(WriteJob(n, p)) = p
  /\ \A n \in Names : DeleteJob(n) \in Job /\ DeleteJob(n).name = n
                      /\ Result(DeleteJob(n)) = NoPassword
  /\ \A job \in Job : job.name \in Names /\ Result(job) \in Passwords \union {NoPassword}
  BY DEF WriteJob, DeleteJob, Job, Result

\* A job that is put last is the last one of its name.
LEMMA AppendFits ==
  ASSUME NEW queue \in Seq(Job), NEW entered \in Entries, Fits(queue, entered), NEW job \in Job
  PROVE  /\ Fits(Append(queue, job), [entered EXCEPT ![job.name] = Result(job)])
         /\ Append(queue, job) \in Seq(Job)
         /\ [entered EXCEPT ![job.name] = Result(job)] \in Entries
<1> DEFINE q == Append(queue, job)
           l == [entered EXCEPT ![job.name] = Result(job)]
<1>1. job.name \in Names /\ Result(job) \in Passwords \union {NoPassword}
  BY JobFacts
<1>2. /\ q \in Seq(Job) /\ Len(q) = Len(queue) + 1 /\ Len(queue) \in Nat
      /\ \A i \in 1..Len(queue) : q[i] = queue[i] /\ i \in 1..Len(q)
      /\ q[Len(queue) + 1] = job /\ Len(queue) + 1 \in 1..Len(q)
      /\ \A i \in 1..Len(q) : i = Len(queue) + 1 \/ i \in 1..Len(queue)
  BY AppendOf
<1>3. l \in Entries /\ l[job.name] = Result(job)
      /\ \A n \in Names : n # job.name => l[n] = entered[n]
  BY <1>1 DEF Entries
<1>4. \A i \in 1..Len(queue) : queue[i] \in Job /\ queue[i].name \in Names
  BY JobFacts
<1> HIDE DEF q, l
<1>5. ASSUME NEW i \in 1..Len(q), \A j \in 1..Len(q) : j > i => q[j].name # q[i].name
      PROVE  q[i].name \in refused \/ Result(q[i]) = l[q[i].name]
  <2>1. CASE i = Len(queue) + 1
    BY <1>2, <1>3, <2>1
  <2>2. CASE i \in 1..Len(queue)
    <3>1. q[i] = queue[i] /\ queue[i].name # job.name
      BY <1>2, <1>5, <2>2
    <3>2. \A j \in 1..Len(queue) : j > i => queue[j].name # queue[i].name
      BY <1>2, <1>5, <2>2
    <3>3. queue[i].name \in refused \/ Result(queue[i]) = entered[queue[i].name]
      BY <2>2, <3>2 DEF Fits
    <3> QED  BY <1>3, <1>4, <2>2, <3>1, <3>3
  <2> QED  BY <1>2, <2>1, <2>2
<1>6. ASSUME NEW n \in Names \ refused, \A i \in 1..Len(q) : q[i].name # n
      PROVE  wallet[n] = l[n]
  <2>1. n # job.name
    BY <1>2, <1>6
  <2>2. \A i \in 1..Len(queue) : queue[i].name # n
    BY <1>2, <1>6
  <2>3. wallet[n] = entered[n]
    BY <2>2 DEF Fits
  <2> QED  BY <1>3, <2>1, <2>3
<1>7. Fits(q, l)
  BY <1>5, <1>6 DEF Fits
<1> QED  BY <1>2, <1>3, <1>7 DEF q, l

\* The jobs are done in order, so that the last one of a name decides.
LEMMA RunJobFits ==
  ASSUME LoginsType, Fits(jobs, logins), RunJob
  PROVE  Fits(jobs, logins)' /\ LoginsType'
<1> DEFINE job == Head(jobs)
<1>1. jobs \in Seq(Job) /\ jobs # <<>> /\ jobs' = Tail(jobs) /\ Len(jobs) \in Nat
      /\ UNCHANGED <<form, config, logins, awaited, serverUsers>>
  BY DEF LoginsType, RunJob, processVars
<1>2. /\ jobs' \in Seq(Job) /\ job = jobs[1] /\ Len(jobs') = Len(jobs) - 1
      /\ \A i \in 1..Len(jobs) : i = 1 \/ (i - 1 \in 1..Len(jobs') /\ jobs'[i - 1] = jobs[i])
      /\ \A i \in 1..Len(jobs') : i + 1 \in 1..Len(jobs) /\ jobs'[i] = jobs[i + 1]
      /\ 1 \in 1..Len(jobs)
  BY <1>1, TailOf
<1>3. job \in Job /\ job.name \in Names /\ Result(job) \in Passwords \union {NoPassword}
  BY <1>1, JobFacts
<1>4. \/ wallet' = [wallet EXCEPT ![job.name] = Result(job)] /\ refused' = refused
      \/ refused' = refused \union {job.name} /\ wallet' = wallet
  BY DEF RunJob, Result
<1>5. wallet' \in Entries /\ refused' \subseteq Names /\ refused \subseteq refused'
  BY <1>3, <1>4 DEF LoginsType, Entries
<1> HIDE DEF job
<1>6. ASSUME NEW i \in 1..Len(jobs'), \A j \in 1..Len(jobs') : j > i => jobs'[j].name # jobs'[i].name
      PROVE  jobs'[i].name \in refused' \/ Result(jobs'[i]) = logins[jobs'[i].name]
  <2>1. ASSUME NEW j \in 1..Len(jobs), j > i + 1 PROVE jobs[j].name # jobs[i + 1].name
    <3>1. j - 1 \in 1..Len(jobs') /\ jobs'[j - 1] = jobs[j] /\ j - 1 > i
      BY <1>2, <2>1
    <3> QED  BY <1>2, <1>6, <3>1
  <2>2. jobs[i + 1].name \in refused \/ Result(jobs[i + 1]) = logins[jobs[i + 1].name]
    BY <1>2, <2>1 DEF Fits
  <2> QED  BY <1>2, <1>5, <2>2
<1>7. ASSUME NEW n \in Names \ refused', \A i \in 1..Len(jobs') : jobs'[i].name # n
      PROVE  wallet'[n] = logins[n]
  <2>1. \A j \in 1..Len(jobs) : j > 1 => jobs[j].name # n
    BY <1>2, <1>7
  <2>2. CASE job.name = n
    <3>1. Result(job) = logins[n]
      BY <1>2, <1>5, <2>1, <2>2 DEF Fits
    <3>2. wallet' = [wallet EXCEPT ![job.name] = Result(job)]
      BY <1>4, <2>2
    <3> QED  BY <2>2, <3>1, <3>2 DEF LoginsType, Entries
  <2>3. CASE job.name # n
    <3>1. \A j \in 1..Len(jobs) : jobs[j].name # n
      BY <1>2, <2>1, <2>3
    <3>2. wallet[n] = logins[n]
      BY <1>5, <3>1 DEF Fits
    <3> QED  BY <1>4, <2>3, <3>2 DEF LoginsType, Entries
  <2> QED  BY <2>2, <2>3
<1> QED  BY <1>1, <1>2, <1>5, <1>6, <1>7 DEF Fits, LoginsType

-----------------------------------------------------------------------------
(* Logins: the steps *)

LEMMA EditUsersKeep == ASSUME LoginsInv, EditUsers PROVE LoginsInv'
<1> USE DEF LoginsInv
<1>1. ~current' /\ UNCHANGED <<wallet, refused, process, serverUsers, awaited>>
  BY DEF EditUsers, AddUser, RenameUser, ChangePassword, DeleteUser, Edit, Elsewhere
<1>2. ServerInv'
  BY <1>1 DEF ServerInv
<1>3. jobs \in Seq(Job) /\ logins \in Entries
  BY DEF LoginsType
<1>4. ASSUME NEW n \in Names, NEW p \in Passwords, AddUser(n, p) \/ ChangePassword(n, p)
      PROVE  LoginsInv'
  <2>1. jobs' = Append(jobs, WriteJob(n, p)) /\ logins' = [logins EXCEPT ![n] = p]
    BY <1>4 DEF AddUser, ChangePassword
  <2>2. WriteJob(n, p) \in Job /\ WriteJob(n, p).name = n /\ Result(WriteJob(n, p)) = p
    BY JobFacts
  <2>3. Fits(jobs', logins') /\ jobs' \in Seq(Job) /\ logins' \in Entries
    BY <1>3, <2>1, <2>2, AppendFits
  <2>4. Fits(jobs, logins)'
    BY <1>1, <2>3 DEF Fits
  <2>5. UsersInv' /\ form'.users \subseteq Names
        /\ form' = [users |-> form'.users, systemUser |-> form'.systemUser]
    BY <1>4, <2>1, LoginsAssumption
       DEF AddUser, ChangePassword, SaveUsers, UsersInv, LoginsType, Entries
  <2> QED  BY <1>1, <1>2, <2>3, <2>4, <2>5 DEF LoginsType
<1>5. ASSUME NEW n \in Names, DeleteUser(n) PROVE LoginsInv'
  <2>1. jobs' = Append(jobs, DeleteJob(n)) /\ logins' = [logins EXCEPT ![n] = NoPassword]
    BY <1>5 DEF DeleteUser
  <2>2. DeleteJob(n) \in Job /\ DeleteJob(n).name = n /\ Result(DeleteJob(n)) = NoPassword
    BY JobFacts
  <2>3. Fits(jobs', logins') /\ jobs' \in Seq(Job) /\ logins' \in Entries
    BY <1>3, <2>1, <2>2, AppendFits
  <2>4. Fits(jobs, logins)'
    BY <1>1, <2>3 DEF Fits
  <2>5. UsersInv' /\ form'.users \subseteq Names
        /\ form' = [users |-> form'.users, systemUser |-> form'.systemUser]
    BY <1>5, <2>1 DEF DeleteUser, SaveUsers, UsersInv, LoginsType, Entries
  <2> QED  BY <1>1, <1>2, <2>3, <2>4, <2>5 DEF LoginsType
<1>6. ASSUME NEW old \in Names, NEW new \in Names, NEW p \in Passwords, RenameUser(old, new, p)
      PROVE  LoginsInv'
  <2> DEFINE some == Append(jobs, DeleteJob(old))
             between == [logins EXCEPT ![old] = NoPassword]
  <2>1. jobs' = Append(some, WriteJob(new, p)) /\ logins' = [between EXCEPT ![new] = p]
    BY <1>3, <1>6 DEF RenameUser
  <2>2. /\ DeleteJob(old) \in Job /\ DeleteJob(old).name = old /\ Result(DeleteJob(old)) = NoPassword
        /\ WriteJob(new, p) \in Job /\ WriteJob(new, p).name = new /\ Result(WriteJob(new, p)) = p
    BY JobFacts
  <2>3. Fits(some, between) /\ some \in Seq(Job) /\ between \in Entries
    BY <1>3, <2>2, AppendFits
  <2> HIDE DEF some, between
  <2>4. Fits(jobs', logins') /\ jobs' \in Seq(Job) /\ logins' \in Entries
    BY <2>1, <2>2, <2>3, AppendFits
  <2>5. Fits(jobs, logins)'
    BY <1>1, <2>4 DEF Fits
  <2>6. UsersInv' /\ form'.users \subseteq Names
        /\ form' = [users |-> form'.users, systemUser |-> form'.systemUser]
    BY <1>6, LoginsAssumption DEF RenameUser, SaveUsers, UsersInv, LoginsType, Entries
  <2> QED  BY <1>1, <1>2, <2>4, <2>5, <2>6 DEF LoginsType
<1> QED  BY <1>4, <1>5, <1>6 DEF EditUsers

LEMMA FormKeeps == ASSUME LoginsInv, SetSystemUser \/ Defaults \/ Save PROVE LoginsInv'
<1> USE DEF LoginsInv
<1>1. UNCHANGED <<jobs, logins, wallet, refused, process, serverUsers, awaited>> /\ ~current'
  BY DEF SetSystemUser, Defaults, Save, Edit, Elsewhere
<1>2. /\ form'.users = form.users
      /\ form' = [users |-> form'.users, systemUser |-> form'.systemUser]
      /\ config'.users = form'.users
  BY DEF SetSystemUser, Defaults, Save, LoginsType, UsersInv
<1> QED  BY <1>1, <1>2 DEF LoginsType, Fits, UsersInv, ServerInv

LEMMA RunJobKeeps == ASSUME LoginsInv, RunJob PROVE LoginsInv'
<1>1. ~current
  BY DEF LoginsInv, ServerInv, RunJob
<1> QED  BY <1>1, RunJobFits DEF LoginsInv, RunJob, processVars, UsersInv, ServerInv

LEMMA ServerKeeps ==
  ASSUME LoginsInv, StartServer \/ ReadUsers \/ EndServer \/ \E n \in Names : ReadPassword(n)
  PROVE  LoginsInv'
<1> USE DEF LoginsInv
<1>1. UNCHANGED <<form, config, jobs, wallet, logins, refused>>
  BY DEF StartServer, ReadUsers, EndServer, ReadPassword, KcmUnchanged
<1>2. Fits(jobs, logins)' /\ UsersInv'
  BY <1>1 DEF Fits, UsersInv
<1>3. CASE StartServer
  BY <1>1, <1>2, <1>3 DEF StartServer, LoginsType, ServerInv
<1>4. CASE EndServer
  BY <1>1, <1>2, <1>4 DEF EndServer, NoServer, LoginsType, ServerInv
<1>5. CASE ReadUsers
  <2>1. CASE config.users = {} /\ ~config.systemUser
    BY <1>1, <1>2, <1>5, <2>1 DEF ReadUsers, NoServer, LoginsType, ServerInv
  <2>2. CASE ~(config.users = {} /\ ~config.systemUser)
    <3>1. /\ process' = "up" /\ awaited' = config.users /\ current' = (jobs = <<>>)
          /\ serverUsers = {} /\ serverUsers' = {}
      BY <1>5, <2>2 DEF ReadUsers, ServerInv
    <3>2. ServerInv'
      BY <1>1, <3>1, LoginsAssumption DEF ServerInv, UsersInv
    <3> QED  BY <1>1, <1>2, <3>1, <3>2 DEF LoginsType, UsersInv
  <2> QED  BY <2>1, <2>2
<1>6. ASSUME NEW n \in Names, ReadPassword(n) PROVE LoginsInv'
  <2>1. n \in awaited /\ awaited' = awaited \ {n} /\ UNCHANGED <<process, current>>
        /\ serverUsers' = IF wallet[n] = NoPassword THEN serverUsers
                          ELSE serverUsers \union {<<n, wallet[n]>>}
    BY <1>6 DEF ReadPassword
  <2>2. wallet[n] \in Passwords \union {NoPassword}
    BY DEF LoginsType, Entries
  <2>3. jobs = <<>> => \A m \in Names \ refused : wallet[m] = logins[m]
    BY DEF Fits
  <2>4. ServerInv'
    <3>1. CASE current
      <4> SUFFICES ASSUME NEW m \in Names, NEW p \in Passwords
                   PROVE  /\ m \in awaited' => <<m, p>> \notin serverUsers'
                          /\ m \notin awaited' \union refused
                                 => (<<m, p>> \in serverUsers' <=> logins[m] = p)
        BY <1>1, <2>1, <3>1 DEF ServerInv
      <4>1. CASE m # n
        BY <2>1, <3>1, <4>1 DEF ServerInv
      <4>2. CASE m = n
        BY <2>1, <2>2, <2>3, <3>1, <4>2, LoginsAssumption DEF ServerInv
      <4> QED  BY <4>1, <4>2
    <3>2. CASE ~current
      BY <2>1, <3>2 DEF ServerInv
    <3> QED  BY <3>1, <3>2
  <2> QED  BY <1>1, <1>2, <2>1, <2>2, <2>4 DEF LoginsType
<1> QED  BY <1>3, <1>4, <1>5, <1>6

LEMMA LoginsInvHolds == LoginsSpec => []LoginsInv
<1>1. LoginsInit => LoginsInv
  <2> SUFFICES ASSUME LoginsInit PROVE LoginsInv
    OBVIOUS
  <2>1. jobs = <<>> /\ Len(jobs) = 0
    BY DEF LoginsInit
  <2> QED  BY <2>1 DEF LoginsInit, LoginsInv, LoginsType, Fits, UsersInv, ServerInv, Entries
<1>2. LoginsInv /\ [LoginsNext]_loginVars => LoginsInv'
  <2>1. ASSUME LoginsInv, UNCHANGED loginVars PROVE LoginsInv'
    BY <2>1 DEF loginVars, processVars, LoginsInv, LoginsType, Fits, UsersInv, ServerInv
  <2> QED  BY <2>1, EditUsersKeep, FormKeeps, RunJobKeeps, ServerKeeps DEF LoginsNext
<1> QED  BY <1>1, <1>2, PTL DEF LoginsSpec

\* Whatever is edited while earlier passwords are still being written, the names in the file
\* and the passwords in the keychain are in the end those that were entered last, and a
\* server that was started after that knows just these.
THEOREM LoginsAreAlwaysKept == LoginsSpec => []LoginsAreKept
<1>1. LoginsInv => LoginsAreKept
  <2> SUFFICES ASSUME LoginsInv PROVE LoginsAreKept
    OBVIOUS
  <2>1. config.users = {n \in Names : logins[n] # NoPassword}
    BY DEF LoginsInv, UsersInv, LoginsType
  <2>2. jobs = <<>> => \A n \in Names \ refused : wallet[n] = logins[n]
    <3>1. jobs = <<>> => 1..Len(jobs) = {}
      OBVIOUS
    <3> QED  BY <3>1 DEF LoginsInv, Fits
  <2>3. current /\ process = "up" /\ awaited = {} =>
         \A n \in Names \ refused, p \in Passwords : <<n, p>> \in serverUsers <=> logins[n] = p
    BY DEF LoginsInv, ServerInv
  <2> QED  BY <2>1, <2>2, <2>3 DEF LoginsAreKept
<1> QED  BY <1>1, LoginsInvHolds, PTL

\* Every variable of the logins keeps its range.
THEOREM LoginsTypeCorrect == LoginsSpec => []LoginsTypeOK
<1> DEFINE Process == process \in {"none", "main", "up"}
<1>1. LoginsInit => Process
  BY DEF LoginsInit
<1>2. Process /\ [LoginsNext]_loginVars => Process'
  BY DEF loginVars, processVars, LoginsNext, EditUsers, AddUser, ChangePassword, RenameUser, DeleteUser,
         Elsewhere, SetSystemUser, Defaults, Save, RunJob, StartServer, ReadUsers, ReadPassword,
         EndServer, NoServer, KcmUnchanged
<1>3. LoginsInv /\ Process => LoginsTypeOK
  BY DEF LoginsInv, LoginsType, UsersInv, Entries, LoginsTypeOK
<1> QED  BY <1>1, <1>2, <1>3, LoginsInvHolds, PTL DEF LoginsSpec

-----------------------------------------------------------------------------
(* The status: what is under way *)

Call    == {"Get", "GetInvocation", "Start", "Stop", "Restart"}
Message == [type : {"changed", "restarted"}]
           \union [type : {"state"}, state : {"inactive", "activating", "active", "deactivating", "failed"}]
           \union [type : {"invocation"}, invocation : Nat]

StatusType ==
    /\ unit \in {"inactive", "activating", "active", "deactivating", "failed"}
    /\ toSystemd \in Seq(Call) /\ toSettings \in Seq(Message)
    /\ invocation \in Nat

HasCall(call)  == \E i \in 1..Len(toSystemd) : toSystemd[i] = call
HasReply(type) == \E i \in 1..Len(toSettings) : toSettings[i].type = type

\* The unit will be asked for its state once more, after its last change.
Asked == HasCall("Get") \/ HasReply("changed") \/ HasReply("restarted")

IsLast(i) == \A j \in 1..Len(toSettings) : j > i => toSettings[j].type # toSettings[i].type

\* Otherwise the last state that was sent is the state, and the last invocation that was
\* sent for a failure is the one that failed, unless it has yet to be asked for.
StatusInv ==
    \/ Asked
    \/ /\ \A i \in 1..Len(toSettings) :
             toSettings[i].type = "state" /\ IsLast(i) => toSettings[i].state = unit
       /\ ~HasReply("state") => status = StatusOf(unit)
       /\ unit = "failed" =>
            \/ HasReply("state") \/ HasCall("GetInvocation")
            \/ /\ \A i \in 1..Len(toSettings) :
                     toSettings[i].type = "invocation" /\ IsLast(i)
                         => toSettings[i].invocation = invocation
               /\ ~HasReply("invocation") => errorOf = invocation

-----------------------------------------------------------------------------
(* The status: the two directions of the bus *)

LEMMA CallPosted ==
  ASSUME StatusType, NEW c \in Call, toSystemd' = Append(toSystemd, c)
  PROVE  toSystemd' \in Seq(Call) /\ HasCall(c)' /\ \A x \in Call : HasCall(x) => HasCall(x)'
<1>1. /\ toSystemd' \in Seq(Call) /\ Len(toSystemd') = Len(toSystemd) + 1 /\ Len(toSystemd) \in Nat
      /\ \A i \in 1..Len(toSystemd) : toSystemd'[i] = toSystemd[i] /\ i \in 1..Len(toSystemd')
      /\ toSystemd'[Len(toSystemd) + 1] = c
  BY AppendOf DEF StatusType
<1> QED  BY <1>1 DEF HasCall

LEMMA CallTaken ==
  ASSUME StatusType, NEW c \in Call, Receives(c)
  PROVE  toSystemd' \in Seq(Call) /\ \A x \in Call \ {c} : HasCall(x) => HasCall(x)'
<1>1. /\ toSystemd' \in Seq(Call) /\ Head(toSystemd) = toSystemd[1] /\ toSystemd[1] = c
      /\ \A i \in 1..Len(toSystemd) :
            i = 1 \/ (i - 1 \in 1..Len(toSystemd') /\ toSystemd'[i - 1] = toSystemd[i])
  BY TailOf DEF StatusType, Receives
<1> QED  BY <1>1 DEF HasCall

\* A reply that is put last.
LEMMA ReplyPosted ==
  ASSUME StatusType, NEW m \in Message, toSettings' = Append(toSettings, m)
  PROVE  /\ toSettings' \in Seq(Message) /\ HasReply(m.type)'
         /\ \A t : HasReply(t) => HasReply(t)'
         /\ \A t : HasReply(t)' /\ t # m.type => HasReply(t)
         /\ \A i \in 1..Len(toSettings') : toSettings'[i].type = m.type /\ IsLast(i)'
                => toSettings'[i] = m
         /\ \A i \in 1..Len(toSettings') : toSettings'[i].type # m.type /\ IsLast(i)'
                => i \in 1..Len(toSettings) /\ IsLast(i) /\ toSettings'[i] = toSettings[i]
<1>1. /\ toSettings' \in Seq(Message) /\ Len(toSettings') = Len(toSettings) + 1
      /\ Len(toSettings) \in Nat
      /\ \A i \in 1..Len(toSettings) : toSettings'[i] = toSettings[i] /\ i \in 1..Len(toSettings')
      /\ toSettings'[Len(toSettings) + 1] = m
      /\ \A i \in 1..Len(toSettings') : i = Len(toSettings) + 1 \/ i \in 1..Len(toSettings)
  BY AppendOf DEF StatusType
<1>2. Len(toSettings) + 1 \in 1..Len(toSettings')
  BY <1>1
<1>3. HasReply(m.type)'
  BY <1>1, <1>2 DEF HasReply
<1>4. \A t : HasReply(t) => HasReply(t)'
  BY <1>1 DEF HasReply
<1>5. \A t : HasReply(t)' /\ t # m.type => HasReply(t)
  BY <1>1 DEF HasReply
<1>6. \A i \in 1..Len(toSettings') : toSettings'[i].type = m.type /\ IsLast(i)' => toSettings'[i] = m
  BY <1>1, <1>2 DEF IsLast
<1>7. \A i \in 1..Len(toSettings') : toSettings'[i].type # m.type /\ IsLast(i)'
          => i \in 1..Len(toSettings) /\ IsLast(i) /\ toSettings'[i] = toSettings[i]
  BY <1>1, <1>2 DEF IsLast
<1> QED  BY <1>1, <1>3, <1>4, <1>5, <1>6, <1>7

\* The oldest reply is taken.
LEMMA ReplyTaken ==
  ASSUME StatusType, NEW type, Told(type)
  PROVE  /\ toSettings' \in Seq(Message) /\ Head(toSettings) \in Message
         /\ Head(toSettings) = toSettings[1] /\ 1 \in 1..Len(toSettings)
         /\ \A t : HasReply(t) /\ t # type => HasReply(t)'
         /\ \A t : HasReply(t)' => HasReply(t)
         /\ ~HasReply(type)' => IsLast(1)
         /\ \A i \in 1..Len(toSettings') : IsLast(i)'
                => i + 1 \in 1..Len(toSettings) /\ IsLast(i + 1) /\ toSettings'[i] = toSettings[i + 1]
<1>1. /\ toSettings \in Seq(Message) /\ toSettings # <<>> /\ Len(toSettings) \in Nat
      /\ toSettings' \in Seq(Message) /\ Len(toSettings') = Len(toSettings) - 1
      /\ Head(toSettings) = toSettings[1] /\ toSettings[1].type = type
      /\ \A i \in 1..Len(toSettings) :
            i = 1 \/ (i - 1 \in 1..Len(toSettings') /\ toSettings'[i - 1] = toSettings[i])
      /\ \A i \in 1..Len(toSettings') : i + 1 \in 1..Len(toSettings) /\ toSettings'[i] = toSettings[i + 1]
  BY TailOf DEF StatusType, Told
<1>2. 1 \in 1..Len(toSettings) /\ toSettings[1] \in Message
  BY <1>1
<1>3. \A t : HasReply(t) /\ t # type => HasReply(t)'
  BY <1>1 DEF HasReply
<1>4. \A t : HasReply(t)' => HasReply(t)
  BY <1>1 DEF HasReply
<1>5. ~HasReply(type)' => IsLast(1)
  BY <1>1 DEF HasReply, IsLast
<1>6. ASSUME NEW i \in 1..Len(toSettings'), IsLast(i)'
      PROVE  i + 1 \in 1..Len(toSettings) /\ IsLast(i + 1) /\ toSettings'[i] = toSettings[i + 1]
  <2>1. ASSUME NEW j \in 1..Len(toSettings), j > i + 1
        PROVE  toSettings[j].type # toSettings[i + 1].type
    <3>1. j - 1 \in 1..Len(toSettings') /\ toSettings'[j - 1] = toSettings[j] /\ j - 1 > i
      BY <1>1, <2>1
    <3> QED  BY <1>1, <1>6, <3>1 DEF IsLast
  <2> QED  BY <1>1, <2>1 DEF IsLast
<1> QED  BY <1>1, <1>2, <1>3, <1>4, <1>5, <1>6

-----------------------------------------------------------------------------
(* The status: the steps *)

LEMMA ChangedAsks ==
  ASSUME StatusType, Changed(<<>>) \/ Changed(<<[type |-> "restarted"]>>)
  PROVE  toSettings' \in Seq(Message) /\ Asked'
<1>1. [type |-> "changed"] \in Message /\ [type |-> "restarted"] \in Message
      /\ toSettings \in Seq(Message)
  BY DEF Message, StatusType
<1>2. CASE Changed(<<>>)
  <2>1. toSettings' = Append(toSettings, [type |-> "changed"])
    BY <1>1, <1>2 DEF Changed
  <2> QED  BY <1>1, <2>1, ReplyPosted DEF Asked
<1>3. CASE Changed(<<[type |-> "restarted"]>>)
  <2> DEFINE some == Append(toSettings, [type |-> "restarted"])
  <2>1. some \in Seq(Message) /\ toSettings' = Append(some, [type |-> "changed"])
    BY <1>1, <1>3 DEF Changed
  <2> HIDE DEF some
  <2>2. toSettings' \in Seq(Message) /\ Len(some) + 1 \in 1..Len(toSettings')
        /\ toSettings'[Len(some) + 1].type = "changed"
    BY <1>1, <2>1
  <2> QED  BY <2>2 DEF Asked, HasReply
<1> QED  BY <1>2, <1>3

LEMMA ClickKeeps ==
  ASSUME StatusType, StatusInv, ToggleServer \/ RestartServer
  PROVE  StatusType' /\ StatusInv'
<1>1. CASE ToggleServer
  <2>1. PICK c \in {"Start", "Stop"} : toSystemd' = toSystemd \o <<c, "Get">>
    BY <1>1 DEF ToggleServer
  <2>2. toSystemd \in Seq(Call)
    BY DEF StatusType
  <2>3. toSystemd' \in Seq(Call) /\ Len(toSystemd) + 2 \in 1..Len(toSystemd')
        /\ toSystemd'[Len(toSystemd) + 2] = "Get"
    BY <2>1, <2>2 DEF Call
  <2>4. Asked'
    BY <2>3 DEF Asked, HasCall
  <2> QED  BY <1>1, <2>3, <2>4 DEF ToggleServer, StatusType, StatusInv, unitVars
<1>2. CASE RestartServer
  <2>1. toSystemd' = Append(toSystemd, "Restart") /\ "Restart" \in Call
        /\ UNCHANGED <<unitVars, toSettings, shownVars>>
    BY <1>2 DEF RestartServer, Call
  <2>2. toSystemd' \in Seq(Call) /\ \A x \in Call : HasCall(x) => HasCall(x)'
    BY <2>1, CallPosted
  <2>3. "Get" \in Call /\ "GetInvocation" \in Call
    BY DEF Call
  <2> QED  BY <2>1, <2>2, <2>3
           DEF StatusType, StatusInv, Asked, HasReply, IsLast, unitVars, shownVars, StatusOf
<1> QED  BY <1>1, <1>2

LEMMA ToldKeeps ==
  ASSUME StatusType, StatusInv, OnTold
  PROVE  StatusType' /\ StatusInv'
<1>1. toSystemd' = Append(toSystemd, "Get") /\ "Get" \in Call
  BY DEF OnTold, Call
<1>2. toSystemd' \in Seq(Call) /\ HasCall("Get")'
  BY <1>1, CallPosted
<1>3. toSettings' \in Seq(Message)
  BY ReplyTaken DEF OnTold
<1> QED  BY <1>2, <1>3 DEF OnTold, StatusType, StatusInv, Asked, unitVars

LEMMA StateKeeps ==
  ASSUME StatusType, StatusInv, OnState
  PROVE  StatusType' /\ StatusInv'
<1>1. Told("state") /\ UNCHANGED <<unitVars, errorOf>>
      /\ status' = StatusOf(Head(toSettings).state)
      /\ toSystemd' = IF status' = "Failed" THEN Append(toSystemd, "GetInvocation") ELSE toSystemd
  BY DEF OnState
<1>2. "Get" \in Call /\ "GetInvocation" \in Call
  BY DEF Call
<1>3. toSystemd' \in Seq(Call) /\ (\A x \in Call : HasCall(x) => HasCall(x)')
      /\ (status' = "Failed" => HasCall("GetInvocation")')
  <2>1. CASE status' = "Failed"
    BY <1>1, <1>2, <2>1, CallPosted
  <2>2. CASE status' # "Failed"
    BY <1>1, <2>2 DEF StatusType, HasCall
  <2> QED  BY <2>1, <2>2
<1>4. /\ toSettings' \in Seq(Message) /\ 1 \in 1..Len(toSettings)
      /\ Head(toSettings) = toSettings[1] /\ toSettings[1].type = "state"
      /\ \A t : HasReply(t) /\ t # "state" => HasReply(t)'
      /\ \A t : HasReply(t)' => HasReply(t)
      /\ ~HasReply("state")' => IsLast(1)
      /\ \A i \in 1..Len(toSettings') : IsLast(i)'
                => i + 1 \in 1..Len(toSettings) /\ IsLast(i + 1) /\ toSettings'[i] = toSettings[i + 1]
  BY <1>1, ReplyTaken DEF Told
<1>5. StatusType'
  BY <1>1, <1>3, <1>4 DEF StatusType, unitVars
<1>6. CASE Asked
  BY <1>2, <1>3, <1>4, <1>5, <1>6 DEF Asked, StatusInv
<1>7. CASE ~Asked
  <2>1. \A i \in 1..Len(toSettings') :
            toSettings'[i].type = "state" /\ IsLast(i)' => toSettings'[i].state = unit
    BY <1>4, <1>7 DEF StatusInv
  <2>2. ~HasReply("state")' => status' = StatusOf(unit)
    BY <1>1, <1>4, <1>7 DEF StatusInv
  <2>3. unit = "failed" /\ ~HasReply("state")' => HasCall("GetInvocation")'
    BY <1>3, <2>2 DEF StatusOf
  <2>4. UNCHANGED unit
    BY <1>1 DEF unitVars
  <2>5. StatusInv'
    BY <2>1, <2>2, <2>3, <2>4 DEF StatusInv, StatusOf
  <2> QED  BY <1>5, <2>5
<1> QED  BY <1>6, <1>7

LEMMA InvocationKeeps ==
  ASSUME StatusType, StatusInv, OnInvocation
  PROVE  StatusType' /\ StatusInv'
<1>1. Told("invocation") /\ UNCHANGED <<unitVars, toSystemd, status>>
      /\ errorOf' = Head(toSettings).invocation
  BY DEF OnInvocation
<1>2. UNCHANGED <<unit, invocation>> /\ \A x : HasCall(x) = HasCall(x)'
  BY <1>1 DEF unitVars, HasCall
<1>3. /\ toSettings' \in Seq(Message) /\ 1 \in 1..Len(toSettings)
      /\ Head(toSettings) = toSettings[1] /\ toSettings[1].type = "invocation"
      /\ \A t : HasReply(t) /\ t # "invocation" => HasReply(t)'
      /\ \A t : HasReply(t)' => HasReply(t)
      /\ ~HasReply("invocation")' => IsLast(1)
      /\ \A i \in 1..Len(toSettings') : IsLast(i)'
                => i + 1 \in 1..Len(toSettings) /\ IsLast(i + 1) /\ toSettings'[i] = toSettings[i + 1]
  BY <1>1, ReplyTaken DEF Told
<1>4. StatusType'
  BY <1>1, <1>2, <1>3 DEF StatusType
<1>5. CASE Asked
  BY <1>2, <1>3, <1>4, <1>5 DEF Asked, StatusInv
<1>6. CASE ~Asked
  <2>1. \A i \in 1..Len(toSettings') :
            toSettings'[i].type = "state" /\ IsLast(i)' => toSettings'[i].state = unit
    BY <1>3, <1>6 DEF StatusInv
  <2>2. ~HasReply("state")' => status = StatusOf(unit)
    BY <1>3, <1>6 DEF StatusInv
  <2>3. ASSUME unit = "failed", ~HasReply("state")', ~HasCall("GetInvocation")'
        PROVE  /\ \A i \in 1..Len(toSettings') :
                     toSettings'[i].type = "invocation" /\ IsLast(i)'
                         => toSettings'[i].invocation = invocation
               /\ ~HasReply("invocation")' => errorOf' = invocation
    <3>1. ~HasReply("state") /\ ~HasCall("GetInvocation")
      BY <1>2, <1>3, <2>3
    <3>2. \A i \in 1..Len(toSettings) :
              toSettings[i].type = "invocation" /\ IsLast(i) => toSettings[i].invocation = invocation
      BY <1>6, <2>3, <3>1 DEF StatusInv
    <3> QED  BY <1>1, <1>3, <3>2
  <2>4. StatusInv'
    BY <1>1, <1>2, <2>1, <2>2, <2>3 DEF StatusInv, StatusOf
  <2> QED  BY <1>4, <2>4
<1> QED  BY <1>5, <1>6

LEMMA GetKeeps ==
  ASSUME StatusType, StatusInv, AnswerGet
  PROVE  StatusType' /\ StatusInv'
<1>1. UNCHANGED <<unit, invocation, status, errorOf>>
  BY DEF AnswerGet, unitVars, shownVars
<1>2. "Get" \in Call /\ "GetInvocation" \in Call
  BY DEF Call
<1>3. CASE Receives("Get") /\ toSettings' = Append(toSettings, [type |-> "state", state |-> unit])
  <2> DEFINE m == [type |-> "state", state |-> unit]
  <2>1. m \in Message
    BY DEF StatusType, Message
  <2>2. /\ toSettings' \in Seq(Message) /\ HasReply("state")'
        /\ \A i \in 1..Len(toSettings') : toSettings'[i].type = "state" /\ IsLast(i)'
               => toSettings'[i] = m
    BY <1>3, <2>1, ReplyPosted
  <2>3. toSystemd' \in Seq(Call)
    BY <1>2, <1>3, CallTaken
  <2> QED  BY <1>1, <2>2, <2>3 DEF StatusType, StatusInv
<1>4. CASE /\ Receives("GetInvocation")
           /\ toSettings' = Append(toSettings, [type |-> "invocation", invocation |-> invocation])
  <2> DEFINE m == [type |-> "invocation", invocation |-> invocation]
  <2>1. m \in Message /\ m.type = "invocation"
    BY DEF StatusType, Message
  <2>2. /\ toSettings' \in Seq(Message) /\ HasReply("invocation")'
        /\ \A t : HasReply(t) => HasReply(t)'
        /\ \A t : HasReply(t)' /\ t # "invocation" => HasReply(t)
        /\ \A i \in 1..Len(toSettings') : toSettings'[i].type = "invocation" /\ IsLast(i)'
               => toSettings'[i] = m
        /\ \A i \in 1..Len(toSettings') : toSettings'[i].type # "invocation" /\ IsLast(i)'
               => i \in 1..Len(toSettings) /\ IsLast(i) /\ toSettings'[i] = toSettings[i]
    BY <1>4, <2>1, ReplyPosted
  <2>3. toSystemd' \in Seq(Call) /\ \A x \in Call \ {"GetInvocation"} : HasCall(x) => HasCall(x)'
    BY <1>2, <1>4, CallTaken
  <2>4. StatusType'
    BY <1>1, <2>2, <2>3 DEF StatusType
  <2>5. CASE Asked
    BY <1>2, <2>2, <2>3, <2>4, <2>5 DEF Asked, StatusInv
  <2>6. CASE ~Asked
    <3>1. \A i \in 1..Len(toSettings') :
              toSettings'[i].type = "state" /\ IsLast(i)' => toSettings'[i].state = unit
      BY <2>2, <2>6 DEF StatusInv
    <3>2. ~HasReply("state")' => status = StatusOf(unit)
      BY <2>2, <2>6 DEF StatusInv
    <3>3. \A i \in 1..Len(toSettings') : toSettings'[i].type = "invocation" /\ IsLast(i)'
              => toSettings'[i].invocation = invocation
      BY <2>2
    <3>4. StatusInv'
      BY <1>1, <2>2, <3>1, <3>2, <3>3 DEF StatusInv, StatusOf
    <3> QED  BY <2>4, <3>4
  <2> QED  BY <2>5, <2>6
<1> QED  BY <1>3, <1>4 DEF AnswerGet

LEMMA UnitKeeps ==
  ASSUME StatusType, StatusInv, AnswerStart \/ AnswerStop \/ UnitStarts \/ UnitStops \/ UnitFails
  PROVE  StatusType' /\ StatusInv'
<1>1. {"Start", "Stop", "Restart", "Get", "GetInvocation"} \subseteq Call
  BY DEF Call
<1>2. unit' \in {"inactive", "activating", "active", "deactivating", "failed"}
      /\ invocation' \in Nat /\ UNCHANGED <<status, errorOf>>
  BY DEF AnswerStart, AnswerStop, UnitStarts, UnitStops, UnitFails, StatusType, shownVars, Down
<1>3. /\ toSystemd' \in Seq(Call)
      /\ HasCall("Get") => HasCall("Get")'
      /\ HasCall("GetInvocation") => HasCall("GetInvocation")'
  <2>1. CASE AnswerStart \/ AnswerStop
    BY <1>1, <2>1, CallTaken DEF AnswerStart, AnswerStop
  <2>2. CASE UnitStarts \/ UnitStops \/ UnitFails
    BY <2>2 DEF UnitStarts, UnitStops, UnitFails, StatusType, HasCall
  <2> QED  BY <2>1, <2>2
<1>4. CASE UnitStarts \/ UnitStops \/ UnitFails
  <2>1. toSettings' \in Seq(Message) /\ Asked'
    BY <1>4, ChangedAsks DEF UnitStarts, UnitStops, UnitFails
  <2> QED  BY <1>2, <1>3, <2>1 DEF StatusType, StatusInv
<1>5. ASSUME UNCHANGED <<unit, invocation, toSettings>> PROVE StatusType' /\ StatusInv'
  <2>1. StatusType'
    BY <1>2, <1>3, <1>5 DEF StatusType
  <2>2. Asked => Asked'
    BY <1>3, <1>5 DEF Asked, HasReply
  <2>3. (\A t : HasReply(t)' = HasReply(t)) /\ \A i : IsLast(i)' = IsLast(i)
    BY <1>5 DEF HasReply, IsLast
  <2> QED  BY <1>2, <1>3, <1>5, <2>1, <2>2, <2>3 DEF StatusInv, StatusOf
<1>6. CASE AnswerStop
  <2>1. CASE unit \in {"active", "activating"}
    <3>1. toSettings' \in Seq(Message) /\ Asked'
      BY <1>6, <2>1, ChangedAsks DEF AnswerStop
    <3> QED  BY <1>2, <1>3, <3>1 DEF StatusType, StatusInv
  <2>2. CASE unit \notin {"active", "activating"}
    BY <1>5, <1>6, <2>2 DEF AnswerStop
  <2> QED  BY <2>1, <2>2
<1>7. CASE AnswerStart
  <2> DEFINE restart == Head(toSystemd) = "Restart"
  <2>1. CASE Down \/ (unit = "active" /\ restart)
    <3>1. Changed(<<>>) \/ Changed(<<[type |-> "restarted"]>>)
      BY <1>7, <2>1 DEF AnswerStart
    <3>2. toSettings' \in Seq(Message) /\ Asked'
      BY <3>1, ChangedAsks
    <3> QED  BY <1>2, <1>3, <3>2 DEF StatusType, StatusInv
  <2>2. CASE ~(Down \/ (unit = "active" /\ restart)) /\ restart
    <3>1. toSettings' = toSettings \o <<[type |-> "restarted"]>>
      BY <1>7, <2>2 DEF AnswerStart
    <3>2. toSettings \in Seq(Message) /\ [type |-> "restarted"] \in Message
      BY DEF StatusType, Message
    <3>3. toSettings' = Append(toSettings, [type |-> "restarted"])
      BY <3>1, <3>2
    <3>4. toSettings' \in Seq(Message) /\ Asked'
      BY <3>2, <3>3, ReplyPosted DEF Asked
    <3> QED  BY <1>2, <1>3, <3>4 DEF StatusType, StatusInv
  <2>3. CASE ~(Down \/ (unit = "active" /\ restart)) /\ ~restart
    <3>1. toSettings' = toSettings \o <<>> /\ UNCHANGED <<unit, invocation>>
      BY <1>7, <2>3 DEF AnswerStart
    <3>2. toSettings' = toSettings
      BY <3>1 DEF StatusType
    <3> QED  BY <1>5, <3>1, <3>2
  <2> QED  BY <2>1, <2>2, <2>3
<1> QED  BY <1>4, <1>6, <1>7

LEMMA StatusInvHolds == StatusSpec => [](StatusType /\ StatusInv)
<1> DEFINE Inv == StatusType /\ StatusInv
<1>1. StatusInit => Inv
  <2> SUFFICES ASSUME StatusInit PROVE Inv
    OBVIOUS
  <2>1. toSystemd = <<"Get">> /\ "Get" \in Call
    BY DEF StatusInit, Call
  <2>2. toSystemd \in Seq(Call) /\ 1 \in 1..Len(toSystemd) /\ toSystemd[1] = "Get"
    BY <2>1
  <2>3. StatusType
    BY <2>2 DEF StatusInit, StatusType
  <2>4. Asked
    BY <2>2 DEF Asked, HasCall
  <2> QED  BY <2>3, <2>4 DEF StatusInv
<1>2. Inv /\ [StatusNext]_statusVars => Inv'
  <2>1. ASSUME Inv, UNCHANGED statusVars PROVE Inv'
    BY <2>1 DEF statusVars, unitVars, shownVars, StatusType, StatusInv, Asked, HasCall, HasReply,
                IsLast, StatusOf
  <2> QED  BY <2>1, ClickKeeps, ToldKeeps, StateKeeps, InvocationKeeps, GetKeeps, UnitKeeps
           DEF StatusNext
<1> QED  BY <1>1, <1>2, PTL DEF StatusSpec

\* Once nothing is under way on the bus, the status shown is that of the unit, whatever was
\* clicked meanwhile and however often the unit failed and started, and the error message is
\* that of the run that failed.
THEOREM StatusIsAlwaysShown == StatusSpec => []StatusIsShown
<1> DEFINE Inv == StatusType /\ StatusInv
<1>1. Inv => StatusIsShown
  <2> SUFFICES ASSUME Inv, toSystemd = <<>>, toSettings = <<>>
               PROVE  status = StatusOf(unit) /\ (status = "Failed" => errorOf = invocation)
    BY DEF StatusIsShown
  <2>1. ~Asked /\ ~HasReply("state") /\ ~HasReply("invocation") /\ ~HasCall("GetInvocation")
    BY DEF Asked, HasReply, HasCall
  <2>2. status = StatusOf(unit)
    BY <2>1 DEF StatusInv
  <2>3. status = "Failed" => unit = "failed"
    BY <2>2 DEF StatusOf
  <2> QED  BY <2>1, <2>2, <2>3 DEF StatusInv
<1> QED  BY <1>1, StatusInvHolds, PTL

-----------------------------------------------------------------------------
(* The status: its range *)

\* A unit that starts again when it has stopped is stopping, and no invocation is told of,
\* or shown, that has not been.
StatusRange ==
    /\ status \in Statuses /\ again \in BOOLEAN /\ (again => unit = "deactivating")
    /\ errorOf \in Nat /\ errorOf <= invocation
    /\ \A i \in 1..Len(toSettings) :
          toSettings[i].type = "invocation" => toSettings[i].invocation <= invocation

\* What a step of the unit sends: no invocation.
LEMMA ChangedSends ==
  ASSUME StatusType, StatusRange, invocation' \in Nat, invocation <= invocation',
         NEW replies \in {<<>>, <<[type |-> "restarted"]>>},
         Changed(replies) \/ toSettings' = toSettings \o replies
  PROVE  \A i \in 1..Len(toSettings') :
            toSettings'[i].type = "invocation" => toSettings'[i].invocation <= invocation'
<1> DEFINE Good(queue) == /\ queue \in Seq(Message)
                          /\ \A i \in 1..Len(queue) :
                                queue[i].type = "invocation" => queue[i].invocation <= invocation'
<1>1. Good(toSettings)
  <2> SUFFICES ASSUME NEW i \in 1..Len(toSettings), toSettings[i].type = "invocation"
               PROVE  toSettings[i].invocation <= invocation'
    BY DEF StatusType
  <2>1. toSettings[i] \in Message
    BY DEF StatusType
  <2>2. toSettings[i].invocation \in Nat
    BY <2>1 DEF Message
  <2> QED  BY <2>2 DEF StatusType, StatusRange
<1>2. ASSUME NEW queue, Good(queue), NEW t \in {"changed", "restarted"}
      PROVE  Good(Append(queue, [type |-> t]))
  <2>1. [type |-> t] \in Message
    BY DEF Message
  <2>2. [type |-> t].type # "invocation"
    OBVIOUS
  <2> QED  BY <1>2, <2>1, <2>2, AppendOf
<1>3. Good(toSettings \o replies)
  <2>1. toSettings \o <<>> = toSettings
        /\ toSettings \o <<[type |-> "restarted"]>> = Append(toSettings, [type |-> "restarted"])
    BY DEF StatusType
  <2>2. Good(Append(toSettings, [type |-> "restarted"]))
    BY <1>1, <1>2
  <2> QED  BY <1>1, <2>1, <2>2
<1>4. Good((toSettings \o replies) \o <<[type |-> "changed"]>>)
  <2>1. (toSettings \o replies) \o <<[type |-> "changed"]>>
           = Append(toSettings \o replies, [type |-> "changed"])
    BY <1>3
  <2>2. Good(Append(toSettings \o replies, [type |-> "changed"]))
    BY <1>2, <1>3
  <2> QED  BY <2>1, <2>2
<1> QED  BY <1>3, <1>4 DEF Changed

\* What the settings module takes from the bus leaves nothing new there.
LEMMA ToldLeaves ==
  ASSUME StatusType, StatusRange, NEW type, Told(type), invocation' = invocation
  PROVE  /\ Head(toSettings) \in Message /\ Head(toSettings).type = type
         /\ type = "invocation" => Head(toSettings).invocation <= invocation
         /\ \A i \in 1..Len(toSettings') :
               toSettings'[i].type = "invocation" => toSettings'[i].invocation <= invocation'
  BY TailOf DEF StatusType, StatusRange, Told

LEMMA RangeStep ==
  ASSUME StatusType, StatusType', StatusRange, [StatusNext]_statusVars
  PROVE  StatusRange'
<1> USE DEF StatusRange, StatusType
<1>1. CASE ToggleServer \/ RestartServer \/ UNCHANGED statusVars
  BY <1>1 DEF ToggleServer, RestartServer, statusVars, unitVars, shownVars
<1>2. CASE OnTold
  BY <1>2, ToldLeaves DEF OnTold, unitVars, shownVars
<1>3. CASE OnState
  <2>1. status' \in Statuses
    BY <1>3 DEF OnState, StatusOf, Statuses
  <2> QED  BY <1>3, <2>1, ToldLeaves DEF OnState, unitVars
<1>4. CASE OnInvocation
  <2>1. Head(toSettings).invocation \in Nat
    BY <1>4, ToldLeaves DEF OnInvocation, unitVars, Message
  <2> QED  BY <1>4, <2>1, ToldLeaves DEF OnInvocation, unitVars
<1>5. CASE AnswerGet
  <2>1. UNCHANGED <<unit, again, invocation, status, errorOf>>
    BY <1>5 DEF AnswerGet, unitVars, shownVars
  <2>2. PICK m \in {[type |-> "state", state |-> unit],
                    [type |-> "invocation", invocation |-> invocation]} :
            toSettings' = Append(toSettings, m)
    BY <1>5 DEF AnswerGet
  <2>3. m \in Message /\ (m.type = "invocation" => m.invocation <= invocation)
    BY DEF Message
  <2>4. \A i \in 1..Len(toSettings') :
            toSettings'[i].type = "invocation" => toSettings'[i].invocation <= invocation
    BY <2>2, <2>3, AppendOf
  <2> QED  BY <2>1, <2>4
<1>6. CASE AnswerStart
  <2>1. UNCHANGED <<invocation, status, errorOf>>
    BY <1>6 DEF AnswerStart, shownVars
  <2>2. again' \in BOOLEAN /\ (again' => unit' = "deactivating")
    BY <1>6 DEF AnswerStart, Down
  <2>3. PICK replies \in {<<>>, <<[type |-> "restarted"]>>} :
            Changed(replies) \/ toSettings' = toSettings \o replies
    BY <1>6 DEF AnswerStart
  <2>4. invocation' \in Nat /\ invocation <= invocation'
    BY <2>1
  <2>5. \A i \in 1..Len(toSettings') :
            toSettings'[i].type = "invocation" => toSettings'[i].invocation <= invocation'
    BY <2>3, <2>4, ChangedSends
  <2> QED  BY <2>1, <2>2, <2>5
<1>7. CASE AnswerStop
  <2>1. UNCHANGED <<invocation, status, errorOf>> /\ again' = FALSE
    BY <1>7 DEF AnswerStop, shownVars
  <2>2. Changed(<<>>) \/ toSettings' = toSettings \o <<>>
    BY <1>7 DEF AnswerStop
  <2>3. invocation' \in Nat /\ invocation <= invocation'
    BY <2>1
  <2>4. \A i \in 1..Len(toSettings') :
            toSettings'[i].type = "invocation" => toSettings'[i].invocation <= invocation'
    BY <2>2, <2>3, ChangedSends
  <2> QED  BY <2>1, <2>4
<1>8. CASE UnitStarts \/ UnitStops \/ UnitFails
  <2>1. Changed(<<>>) /\ invocation' \in {invocation, invocation + 1} /\ UNCHANGED <<status, errorOf>>
    BY <1>8 DEF UnitStarts, UnitStops, UnitFails, shownVars
  <2>2. again' = FALSE
    BY <1>8 DEF UnitStarts, UnitStops, UnitFails
  <2>3. invocation' \in Nat /\ invocation <= invocation' /\ errorOf <= invocation'
    BY <2>1
  <2> QED  BY <2>1, <2>2, <2>3, ChangedSends
<1> QED  BY <1>1, <1>2, <1>3, <1>4, <1>5, <1>6, <1>7, <1>8 DEF StatusNext

\* Every variable of the status keeps its range; an error is shown of a run there was.
THEOREM StatusTypeCorrect == StatusSpec => []StatusTypeOK
<1>1. StatusInit => StatusRange
  <2> SUFFICES ASSUME StatusInit PROVE StatusRange
    OBVIOUS
  <2>1. toSettings = <<>> /\ status \in Statuses /\ again = FALSE
    BY DEF StatusInit
  <2>2. errorOf = 0 /\ invocation = 0
    BY DEF StatusInit
  <2>3. \A i \in 1..Len(toSettings) :
            toSettings[i].type = "invocation" => toSettings[i].invocation <= invocation
    <3>1. 1..Len(toSettings) = {}
      BY <2>1
    <3> QED  BY <3>1
  <2>4. errorOf \in Nat /\ errorOf <= invocation
    BY <2>2
  <2>5. again \in BOOLEAN /\ ~again
    BY <2>1
  <2> QED  BY <2>1, <2>3, <2>4, <2>5 DEF StatusRange
<1>2. StatusType /\ StatusType' /\ StatusRange /\ [StatusNext]_statusVars => StatusRange'
  BY RangeStep
<1>3. StatusType /\ StatusRange => StatusTypeOK
  BY DEF StatusType, StatusRange, StatusTypeOK
<1>4. StatusSpec => []StatusType
  BY StatusInvHolds, PTL
<1> QED  BY <1>1, <1>2, <1>3, <1>4, PTL DEF StatusSpec

-----------------------------------------------------------------------------
(***************************************************************************)
(* The parts together. A step is one of a single part and keeps the        *)
(* variables of the others.                                                *)
(***************************************************************************)
LEMMA StepOfParts ==
  ASSUME [ServicesNext]_allVars
  PROVE  /\ [Next]_vars /\ [ClipboardNext]_clipboardVars /\ [NetworkNext]_networkVars
         /\ [QualityNext]_adaptiveVars /\ [WindowNext]_windowVars /\ [LoginsNext]_loginVars
         /\ [StatusNext]_statusVars /\ [InputNext]_inputVars
<1>1. CASE UNCHANGED allVars
  BY <1>1 DEF allVars
<1>2. CASE Next /\ Step("cursor")
  BY <1>2 DEF Step, Kept, Parts
<1>3. CASE ClipboardNext /\ Step("clipboard")
  BY <1>3 DEF Step, Kept, Parts
<1>4. CASE NetworkNext /\ Step("network")
  BY <1>4 DEF Step, Kept, Parts
<1>5. CASE QualityNext /\ Step("quality")
  BY <1>5 DEF Step, Kept, Parts
<1>6. CASE WindowNext /\ Step("window")
  BY <1>6 DEF Step, Kept, Parts
<1>7. CASE LoginsNext /\ Step("logins")
  BY <1>7 DEF Step, Kept, Parts
<1>8. CASE StatusNext /\ Step("status")
  BY <1>8 DEF Step, Kept, Parts
<1>9. CASE InputNext /\ Step("input")
  BY <1>9 DEF Step, Kept, Parts
<1> QED  BY <1>1, <1>2, <1>3, <1>4, <1>5, <1>6, <1>7, <1>8, <1>9 DEF ServicesNext

\* Each part does in the composition what it does alone; for the three with fairness, this is
\* about their initial states and steps.
LEMMA PartsAsAlone ==
  ServicesSpec => /\ Spec /\ ClipboardSafety /\ NetworkSafety /\ QualitySafety
                  /\ WindowSpec /\ LoginsSpec /\ StatusSpec /\ InputSpec
<1>1. ServicesInit => /\ Init /\ ClipboardInit /\ NetworkInit /\ QualityInit
                      /\ WindowInit /\ LoginsInit /\ StatusInit /\ InputInit
  BY DEF ServicesInit
<1> QED  BY <1>1, StepOfParts, PTL
         DEF ServicesSpec, Spec, ClipboardSafety, NetworkSafety, QualitySafety, WindowSpec,
             LoginsSpec, StatusSpec, InputSpec

\* Every variable of every part stays in its range, and the clipboard does not echo.
THEOREM ServicesTypeCorrect == ServicesSpec => []ServicesTypeOK
<1>1. ServicesSpec => [](TypeOK /\ WindowTypeOK /\ WindowInRange)
  BY PartsAsAlone, CursorTypeCorrect, WindowStaysInRange, PTL
<1>2. ServicesSpec => [](ClipboardTypeOK /\ NoEcho /\ NetworkTypeOK /\ QualityTypeOK)
  BY PartsAsAlone, ClipboardTypeHolds, NothingEchoesHolds, NetworkTypeHolds, QualityTypeHolds, PTL
<1>3. ServicesSpec => [](LoginsTypeOK /\ StatusTypeOK /\ InputTypeOK)
  BY PartsAsAlone, LoginsTypeCorrect, StatusTypeCorrect, InputTypeHolds, PTL
<1> QED  BY <1>1, <1>2, <1>3, PTL DEF ServicesTypeOK

\* All invariants of the parts hold in the composition: the caches of the pointer and the
\* clipboards agree, answers fit requests, the encoder obeys, the logins are kept, the status
\* is shown and no device keeps a button pressed.
THEOREM ServicesCorrect ==
  ServicesSpec => [](/\ CachesAgree /\ ClipboardsAgree /\ AnswersFitRequests /\ EncoderObeys
                     /\ LoginsAreKept /\ StatusIsShown /\ NothingStuck)
<1>1. ServicesSpec => [](CachesAgree /\ ClipboardsAgree /\ AnswersFitRequests /\ EncoderObeys)
  <2>1. NetworkInv => AnswersFitRequests
    BY DEF NetworkInv
  <2> QED  BY <2>1, PartsAsAlone, CachesAgreeCorrect, ClipboardsAgreeHolds, NetworkInvHolds,
              ObeysHolds, PTL
<1>2. ServicesSpec => [](LoginsAreKept /\ StatusIsShown /\ NothingStuck)
  BY PartsAsAlone, LoginsAreAlwaysKept, StatusIsAlwaysShown, NothingStaysStuck, PTL
<1> QED  BY <1>1, <1>2, PTL
=============================================================================
