-------------------------------- MODULE Logins --------------------------------
(***************************************************************************)
(* Who may log in: the settings module (src/src/kcm/kcmkrdpserver.cpp)     *)
(* writes the names to the configuration file at once and the passwords to *)
(* the keychain with jobs, which run later, one after the other; the       *)
(* server process (src/server/main.cpp) reads both when it starts, the     *)
(* passwords with jobs of its own.                                         *)
(***************************************************************************)
EXTENDS Integers, Sequences

CONSTANTS
    Names, Passwords,
    NoPassword,
    MaxEdits        \* bound: changes to the users and settings

ASSUME LoginsAssumption == NoPassword \notin Passwords /\ MaxEdits \in Nat

VARIABLES
    form, config,   \* the settings in memory and in the file: users, systemUser
    jobs,           \* keychain jobs of the settings module, in order
    wallet,         \* the keychain
    logins,         \* what has been entered
    refused,        \* names with a job that the keychain refused
    edits,
    process,        \* the server: "none", "main" (before it reads) or "up"
    serverUsers, awaited,       \* Server::users, and the passwords it waits for
    current         \* it read when all there was had been written, and nothing was
                    \* edited since

processVars == <<process, serverUsers, awaited, current>>
loginVars == <<form, config, jobs, wallet, logins, refused, edits, processVars>>

LoginsInit ==
    /\ form = [users |-> {}, systemUser |-> FALSE] /\ config = form
    /\ jobs = <<>> /\ wallet = [n \in Names |-> NoPassword] /\ logins = wallet /\ refused = {}
    /\ edits = 0
    /\ process = "none" /\ serverUsers = {} /\ awaited = {} /\ current = FALSE

-----------------------------------------------------------------------------
(* The settings module *)

WriteJob(n, p) == [op |-> "write", name |-> n, password |-> p]
DeleteJob(n)   == [op |-> "delete", name |-> n]

Edit == edits < MaxEdits /\ edits' = edits + 1 /\ current' = FALSE
Elsewhere == UNCHANGED <<wallet, refused, process, serverUsers, awaited>>

\* setUsers, then save, which also saves what else has been changed in the form.
SaveUsers(users) == form' = [form EXCEPT !.users = users] /\ config' = form'

\* The dialog does not offer to save a name that exists.
AddUser(n, p) ==
    /\ Edit /\ n \notin form.users
    /\ SaveUsers(form.users \union {n})
    /\ jobs' = Append(jobs, WriteJob(n, p))
    /\ logins' = [logins EXCEPT ![n] = p]
    /\ Elsewhere

\* Mutant of RenameUser: the password of the old name stays.
RenameKeeping(old, new, p) ==
    /\ Edit /\ old \in form.users /\ new \notin form.users
    /\ SaveUsers((form.users \ {old}) \union {new})
    /\ jobs' = Append(jobs, WriteJob(new, p))
    /\ logins' = [logins EXCEPT ![old] = NoPassword, ![new] = p]
    /\ Elsewhere

\* modifyUser, with a new name, ...
RenameUser(old, new, p) ==
    /\ Edit /\ old \in form.users /\ new \notin form.users
    /\ SaveUsers((form.users \ {old}) \union {new})
    /\ jobs' = jobs \o <<DeleteJob(old), WriteJob(new, p)>>
    /\ logins' = [logins EXCEPT ![old] = NoPassword, ![new] = p]
    /\ Elsewhere

\* ... and without one.
ChangePassword(n, p) ==
    /\ Edit /\ n \in form.users
    /\ SaveUsers(form.users)
    /\ jobs' = Append(jobs, WriteJob(n, p))
    /\ logins' = [logins EXCEPT ![n] = p]
    /\ Elsewhere

DeleteUser(n) ==
    /\ Edit /\ n \in form.users
    /\ SaveUsers(form.users \ {n})
    /\ jobs' = Append(jobs, DeleteJob(n))
    /\ logins' = [logins EXCEPT ![n] = NoPassword]
    /\ Elsewhere

\* The system user is allowed or not, in the form.
SetSystemUser ==
    /\ Edit
    /\ form' = [form EXCEPT !.systemUser = ~@]
    /\ UNCHANGED <<config, jobs, logins>> /\ Elsewhere

\* defaults: of all but the users, in the form.
Defaults ==
    /\ Edit /\ form.systemUser
    /\ form' = [form EXCEPT !.systemUser = FALSE]
    /\ UNCHANGED <<config, jobs, logins>> /\ Elsewhere

\* Apply.
Save ==
    /\ Edit /\ form # config
    /\ config' = form
    /\ UNCHANGED <<form, jobs, logins>> /\ Elsewhere

EditUsers ==
    \/ \E n \in Names, p \in Passwords : AddUser(n, p) \/ ChangePassword(n, p)
    \/ \E old, new \in Names, p \in Passwords : RenameUser(old, new, p)
    \/ \E n \in Names : DeleteUser(n)

\* The next job. The error of a refused one is looked at before it runs: it is not
\* noticed.
RunJob ==
    /\ jobs # <<>> /\ jobs' = Tail(jobs)
    /\ LET job == Head(jobs)
       IN  \/ /\ wallet' = [wallet EXCEPT ![job.name] =
                                IF job.op = "write" THEN job.password ELSE NoPassword]
              /\ UNCHANGED refused
           \/ refused' = refused \union {job.name} /\ UNCHANGED wallet
    /\ UNCHANGED <<form, config, logins, edits, processVars>>

-----------------------------------------------------------------------------
(* The server process *)

KcmUnchanged == UNCHANGED <<form, config, jobs, wallet, logins, refused, edits>>

NoServer == process' = "none" /\ serverUsers' = {} /\ awaited' = {} /\ current' = FALSE

StartServer ==
    /\ process = "none" /\ process' = "main"
    /\ KcmUnchanged /\ UNCHANGED <<serverUsers, awaited, current>>

\* main up to its event loop: without anybody who might log in it ends.
ReadUsers ==
    /\ process = "main"
    /\ IF config.users = {} /\ ~config.systemUser
       THEN NoServer
       ELSE /\ process' = "up" /\ awaited' = config.users /\ current' = (jobs = <<>>)
            /\ UNCHANGED serverUsers
    /\ KcmUnchanged

\* A ReadPasswordJob has finished: addUser, if there is a password.
ReadPassword(n) ==
    /\ n \in awaited /\ awaited' = awaited \ {n}
    /\ serverUsers' = IF wallet[n] = NoPassword THEN serverUsers
                      ELSE serverUsers \union {<<n, wallet[n]>>}
    /\ KcmUnchanged /\ UNCHANGED <<process, current>>

EndServer == process # "none" /\ NoServer /\ KcmUnchanged

-----------------------------------------------------------------------------
LoginsNext ==
    \/ EditUsers \/ SetSystemUser \/ Defaults \/ Save \/ RunJob
    \/ StartServer \/ ReadUsers \/ (\E n \in Names : ReadPassword(n)) \/ EndServer

LoginsSpec == LoginsInit /\ [][LoginsNext]_loginVars
-----------------------------------------------------------------------------
(* Properties *)

\* Every variable stays in its range.
LoginsTypeOK ==
    /\ {form.users, config.users, refused, awaited} \subseteq SUBSET Names
    /\ wallet \in [Names -> Passwords \union {NoPassword}]
    /\ logins \in [Names -> Passwords \union {NoPassword}]
    /\ process \in {"none", "main", "up"} /\ serverUsers \subseteq Names \X Passwords

\* The list of users in the file and the passwords in the keychain, which are written
\* at different times, are those that were entered last when all jobs are done; and a
\* server that was started then knows just these. Refused jobs are not noticed.
LoginsAreKept ==
    /\ config.users = {n \in Names : logins[n] # NoPassword}
    /\ jobs = <<>> => \A n \in Names \ refused : wallet[n] = logins[n]
    /\ current /\ process = "up" /\ awaited = {} =>
         \A n \in Names \ refused, p \in Passwords : <<n, p>> \in serverUsers <=> logins[n] = p
=============================================================================
