---------------------------- MODULE InstanceAdmin ----------------------------
(***************************************************************************)
(* The management of a server from DBShield's pages: its accounts, its     *)
(* databases and its parameters.  Each request first changes the server,   *)
(* statement by statement, and then a table of its own: the passwords of   *)
(* accounts, the owners of databases, the history of parameters.  Nothing  *)
(* ties the two together, and nothing keeps two requests apart.            *)
(*                                                                         *)
(* An account is a user at a host (MySQL) or of a database (MongoDB); its  *)
(* names have nothing to escape.  The parameter is one that the template   *)
(* knows.  Fields that are missing are refused before anything is done,    *)
(* and left out.  An operation that the pages of MySQL do not know is not  *)
(* refused: nothing is done, and success is answered.                      *)
(***************************************************************************)
EXTENDS Naturals, Sequences, FiniteSets

CONSTANTS
  Visits,      \* requests that can be in flight together
  Accounts, Passwords, Scopes,  \* scopes: what privileges are granted on
  Escaped,     \* how escape_string spells a password: quotes and backslashes are escaped
  Databases, Owners,
  Settings, Plain,  \* what the parameter is set to, and how the server tells it
  NoPassword, NoOwner, NoAccount,
  MaxVisits, MaxCuts  \* bounds: visits, requests that die

ASSUME InstanceAssumption ==
  /\ IsFiniteSet(Accounts) /\ NoPassword \notin Passwords /\ DOMAIN Escaped = Passwords /\ NoOwner \notin Owners /\ NoAccount \notin Accounts
  /\ Plain \in [Settings -> Settings] /\ \A s \in Settings : Plain[Plain[s]] = Plain[s]
  /\ MaxVisits \in Nat /\ MaxCuts \in Nat

SUPPORTED_MANAGEMENT_DB_TYPE == {"mysql", "mongo"}
WithParameters == {"mysql", "goinception", "pgsql"}

Account   == [pwd : Passwords, locked : BOOLEAN, privs : SUBSET Scopes]
NoUser    == [pwd |-> NoPassword, locked |-> FALSE, privs |-> {}]
History   == [old : Settings, new : Settings]

\* A request: the accounts or the database it is about, what is left to be done on the server, and
\* what it carries.  all: it names user, host and database, and not only the key of the row.
Visit ==
  [kind : {"create", "grant", "revoke", "reset", "lock", "unlock", "nothing", "delete", "database", "param"},
   pc : {"server", "store", "ended"}, about : SUBSET (Accounts \cup Databases \cup {"param"}),
   todo : SUBSET (Accounts \cup Scopes \cup Databases \cup {"param"}), acct : Accounts \cup {NoAccount},
   asked : SUBSET Scopes, pwd : Passwords \cup {NoPassword}, all : BOOLEAN, owner : Owners \cup {NoOwner},
   old : Settings, new : Settings, ok : BOOLEAN, alone : BOOLEAN]

VARIABLES
  dbType,     \* of the instance
  users,      \* accounts on the server
  passwords,  \* instance_account: account -> its row, if any, and the password in it
  databases,  \* databases on the server
  owners,     \* instance_database: database -> owner in its row, if any
  runtime,    \* value of the parameter
  pending,    \* pgsql: what ALTER SYSTEM wrote and no reload has read
  history,    \* param_history
  visits,     \* request -> its visit, or the last one
  begun, cuts,
  crossed     \* ghost: two changes of the parameter overlapped, or one was cut

server == <<users, databases, runtime, pending>>
stored == <<passwords, owners, history>>
instanceVars == <<dbType, server, stored, visits, begun, cuts, crossed>>

\* A row of instance_account may hold no password, or an escaped one.
Spellings == {Escaped[p] : p \in Passwords}
AccountRow == [there : BOOLEAN, pwd : Passwords \cup Spellings \cup {NoPassword}]
NoAccountRow == [there |-> FALSE, pwd |-> NoPassword]

Blank(s) ==
  [kind |-> "lock", pc |-> "ended", about |-> {}, todo |-> {}, acct |-> NoAccount,
   asked |-> {}, pwd |-> NoPassword, all |-> FALSE, owner |-> NoOwner, old |-> s, new |-> s,
   ok |-> FALSE, alone |-> FALSE]

InstanceTypeOK ==
  /\ dbType \in SUPPORTED_MANAGEMENT_DB_TYPE \cup WithParameters
  /\ users \in [Accounts -> Account \cup {NoUser}]
  /\ passwords \in [Accounts -> AccountRow]
  /\ databases \subseteq Databases /\ owners \in [Databases -> Owners \cup {NoOwner}]
  /\ runtime \in Settings /\ pending \in Settings /\ history \in Seq(History)
  /\ visits \in [Visits -> Visit]
  /\ begun \in 0..MaxVisits /\ cuts \in 0..MaxCuts /\ crossed \in BOOLEAN

-----------------------------------------------------------------------------
(* The beginning of a request.                                             *)

Open(v) == visits[v].pc # "ended"
Meets(v, things) == visits[v].about \cap things # {}

\* A request begins; those about the same things are not alone with them any more.
Enter(v, visit) ==
  /\ ~ Open(v) /\ begun < MaxVisits
  /\ begun' = begun + 1
  /\ LET alone == \A u \in Visits : Open(u) => ~ Meets(u, visit.about) IN
       /\ visits' = [u \in Visits |->
            IF u = v THEN [visit EXCEPT !.alone = alone]
            ELSE IF Meets(u, visit.about) THEN [visits[u] EXCEPT !.alone = FALSE] ELSE visits[u]]
       /\ crossed' = (crossed \/ (visit.kind = "param" /\ ~ alone))
  /\ UNCHANGED <<dbType, server, stored, cuts>>

New(kind, about, todo) ==
  [Blank(runtime) EXCEPT !.kind = kind, !.pc = "server", !.about = about, !.todo = todo]

\* Several hosts with | between them are several accounts of MySQL.
AccountCreateView(v) ==
  /\ dbType \in SUPPORTED_MANAGEMENT_DB_TYPE
  /\ \E as \in SUBSET Accounts \ {{}}, p \in Passwords :
       /\ dbType = "mongo" => Cardinality(as) = 1
       /\ Enter(v, [New("create", as, as) EXCEPT !.pwd = p])

\* A row is made or changed and the server is not asked; without a password the old one stays.
AccountEditView(v) ==
  /\ dbType \in SUPPORTED_MANAGEMENT_DB_TYPE
  /\ ~ Open(v) /\ begun < MaxVisits
  /\ \E a \in Accounts, p \in Passwords \cup {NoPassword} :
       /\ passwords' = [passwords EXCEPT ![a] =
            [there |-> TRUE, pwd |-> IF p = NoPassword THEN @.pwd ELSE p]]
       /\ visits' = [u \in Visits |-> [visits[u] EXCEPT !.alone = @ /\ a \notin visits[u].about]]
  /\ begun' = begun + 1
  /\ UNCHANGED <<dbType, server, owners, history, cuts, crossed>>

\* Another op_type or is_locked than the page's makes a statement of nothing.
OtherOperation(v) == dbType = "mysql" /\ Enter(v, New("nothing", {}, {}))

\* MySQL has a statement for each database, table or privilege on columns; MongoDB is told all
\* roles at once, and knows no revoking.
AccountGrantView(v) ==
  /\ dbType \in SUPPORTED_MANAGEMENT_DB_TYPE
  /\ \/ \E a \in Accounts, ss \in SUBSET Scopes \ {{}}, kind \in {"grant", "revoke"} :
          /\ dbType = "mongo" => kind = "grant"
          /\ Enter(v, [New(kind, {a}, ss) EXCEPT !.acct = a, !.asked = ss])
     \/ OtherOperation(v)

\* MySQL is asked with user_host; user and host are for the row.
AccountResetPwdView(v) ==
  /\ dbType \in SUPPORTED_MANAGEMENT_DB_TYPE
  /\ \E a \in Accounts, p \in Passwords :
       Enter(v, [New("reset", {a}, {a}) EXCEPT !.acct = a, !.pwd = p, !.all = TRUE])

\* is_locked is what the account is: an account that is not locked will be.
AccountLockView(v) ==
  /\ dbType = "mysql"
  /\ \/ \E a \in Accounts, kind \in {"lock", "unlock"} : Enter(v, [New(kind, {a}, {a}) EXCEPT !.acct = a])
     \/ OtherOperation(v)

\* The key of the account is enough; the row is looked up by user, host and database, of which
\* one that is not sent finds nothing.
AccountDeleteView(v) ==
  /\ dbType \in SUPPORTED_MANAGEMENT_DB_TYPE
  /\ \E a \in Accounts, all \in BOOLEAN :
       Enter(v, [New("delete", {a}, {a}) EXCEPT !.acct = a, !.all = all])

DatabaseCreateView(v) ==
  /\ dbType \in SUPPORTED_MANAGEMENT_DB_TYPE
  /\ \E d \in Databases, o \in Owners : Enter(v, [New("database", {d}, {d}) EXCEPT !.owner = o])

DatabaseEditView(v) ==
  /\ dbType \in SUPPORTED_MANAGEMENT_DB_TYPE
  /\ ~ Open(v) /\ begun < MaxVisits
  /\ \E d \in Databases, o \in Owners :
       /\ owners' = [owners EXCEPT ![d] = o]
       /\ visits' = [u \in Visits |-> [visits[u] EXCEPT !.alone = @ /\ d \notin visits[u].about]]
  /\ begun' = begun + 1
  /\ UNCHANGED <<dbType, server, passwords, history, cuts, crossed>>

\* A value that is spelled like the one in force changes nothing.
ParamEditView(v) ==
  /\ dbType \in WithParameters
  /\ \E s \in Settings \ {runtime} : Enter(v, [New("param", {"param"}, {"param"}) EXCEPT !.new = s])

-----------------------------------------------------------------------------
(* On the server.                                                          *)

there(a) == users[a] # NoUser

\* create user, grant, revoke, alter user, drop user and so on: whether the server accepts the
\* next statement, and what it does.
Accepted(v, x) ==
  LET visit == visits[v] IN
  CASE visit.kind = "create"   -> ~ there(x)
    [] visit.kind = "database" -> x \notin databases
    [] visit.kind = "param"    -> TRUE
    [] visit.kind = "revoke"   -> there(visit.acct) /\ x \in users[visit.acct].privs
    [] OTHER                   -> there(visit.acct)

UserAfter(v, x) ==
  LET visit == visits[v]
      user  == users[visit.acct] IN
  CASE visit.kind = "grant"  -> [user EXCEPT !.privs = IF dbType = "mongo" THEN visit.asked ELSE @ \cup {x}]
    [] visit.kind = "revoke" -> [user EXCEPT !.privs = @ \ {x}]
    [] visit.kind = "reset"  -> [user EXCEPT !.pwd = visit.pwd]
    [] visit.kind = "lock"   -> [user EXCEPT !.locked = TRUE]
    [] visit.kind = "unlock" -> [user EXCEPT !.locked = FALSE]
    [] visit.kind = "delete" -> NoUser

create_instance_user(v, a) ==
  /\ users' = [users EXCEPT ![a] = [pwd |-> visits[v].pwd, locked |-> FALSE, privs |-> {}]]
  /\ UNCHANGED <<databases, runtime, pending>>

create_database(d) ==
  /\ databases' = databases \cup {d}
  /\ UNCHANGED <<users, runtime, pending>>

\* pgsql writes the file of the server and has nothing read it.
set_variable(s) ==
  /\ IF dbType = "pgsql" THEN pending' = s /\ UNCHANGED runtime
     ELSE runtime' = Plain[s] /\ UNCHANGED pending
  /\ UNCHANGED <<users, databases>>

alter_user(v, x) ==
  /\ users' = [users EXCEPT ![visits[v].acct] = UserAfter(v, x)]
  /\ UNCHANGED <<databases, runtime, pending>>

Left(v, x) == IF dbType = "mongo" THEN {} ELSE visits[v].todo \ {x}

\* engine.execute: the statements one after the other; each is in force at once.
ServerStatement(v) ==
  /\ visits[v].pc = "server"
  /\ \E x \in visits[v].todo :
       /\ Accepted(v, x)
       /\ CASE visits[v].kind = "create"   -> create_instance_user(v, x)
            [] visits[v].kind = "database" -> create_database(x)
            [] visits[v].kind = "param"    -> set_variable(visits[v].new)
            [] OTHER                       -> alter_user(v, x)
       /\ visits' = [visits EXCEPT ![v].todo = Left(v, x),
                                   ![v].pc = IF Left(v, x) = {} THEN "store" ELSE "server"]
  /\ UNCHANGED <<dbType, stored, begun, cuts, crossed>>

\* A statement that the server refuses ends the request; what went before stays.  A value may not
\* fit the parameter, or may need a restart of the server.
Refused(v) ==
  /\ visits[v].pc = "server"
  /\ \E x \in visits[v].todo : ~ Accepted(v, x) \/ visits[v].kind = "param"
  /\ visits' = [visits EXCEPT ![v].pc = "ended"]
  /\ UNCHANGED <<dbType, server, stored, begun, cuts, crossed>>

-----------------------------------------------------------------------------
(* In the tables.                                                          *)

Answered(v, ok) ==
  /\ visits' = [visits EXCEPT ![v].pc = "ended", ![v].ok = ok]
  /\ UNCHANGED <<dbType, server, begun, cuts, crossed>>

\* create_instance_user gives the rows of MySQL the password as it wrote it into the statement.
RowPassword(p) == IF dbType = "mysql" THEN Escaped[p] ELSE p

\* Slip: bulk_create with ignore_conflicts.
StoreAccounts_ignoring(v) ==
  /\ visits[v].pc = "store" /\ visits[v].kind = "create"
  /\ passwords' = [a \in Accounts |-> IF ~ passwords[a].there /\ a \in visits[v].about
                                      THEN [there |-> TRUE, pwd |-> RowPassword(visits[v].pwd)]
                                      ELSE passwords[a]]
  /\ Answered(v, TRUE)
  /\ UNCHANGED <<owners, history>>

\* bulk_create: all rows or, if there is one of an account already, none.
StoreAccounts(v) ==
  /\ visits[v].pc = "store" /\ visits[v].kind = "create"
  /\ LET free == \A a \in visits[v].about : ~ passwords[a].there IN
       /\ passwords' = [a \in Accounts |-> IF free /\ a \in visits[v].about
                                           THEN [there |-> TRUE, pwd |-> RowPassword(visits[v].pwd)]
                                           ELSE passwords[a]]
       /\ Answered(v, free)
  /\ UNCHANGED <<owners, history>>

StorePassword(v) ==
  /\ visits[v].pc = "store" /\ visits[v].kind = "reset"
  /\ passwords' = [passwords EXCEPT ![visits[v].acct] = [there |-> TRUE, pwd |-> visits[v].pwd]]
  /\ Answered(v, TRUE)
  /\ UNCHANGED <<owners, history>>

DeleteAccount(v) ==
  /\ visits[v].pc = "store" /\ visits[v].kind = "delete"
  /\ passwords' = IF visits[v].all THEN [passwords EXCEPT ![visits[v].acct] = NoAccountRow] ELSE passwords
  /\ Answered(v, TRUE)
  /\ UNCHANGED <<owners, history>>

\* Privileges and locks have no rows, and where there is no statement all have been sent.
StoreNothing(v) ==
  /\ \/ visits[v].pc = "store" /\ visits[v].kind \in {"grant", "revoke", "lock", "unlock"}
     \/ visits[v].pc = "server" /\ visits[v].kind = "nothing"
  /\ Answered(v, TRUE)
  /\ UNCHANGED stored

\* create: a database with a row, entered before, is one too many.
StoreDatabase(v) ==
  /\ visits[v].pc = "store" /\ visits[v].kind = "database"
  /\ \E d \in visits[v].about :
       /\ owners' = [owners EXCEPT ![d] = IF @ = NoOwner THEN visits[v].owner ELSE @]
       /\ Answered(v, owners[d] = NoOwner)
  /\ UNCHANGED <<passwords, history>>

\* Slip: the old value is looked up once the new one is set.
StoreHistory_late(v) ==
  /\ visits[v].pc = "store" /\ visits[v].kind = "param"
  /\ history' = Append(history, [old |-> runtime, new |-> visits[v].new])
  /\ Answered(v, TRUE)
  /\ UNCHANGED <<passwords, owners>>

StoreHistory(v) ==
  /\ visits[v].pc = "store" /\ visits[v].kind = "param"
  /\ history' = Append(history, [old |-> visits[v].old, new |-> visits[v].new])
  /\ Answered(v, TRUE)
  /\ UNCHANGED <<passwords, owners>>

Cut(v) ==
  /\ Open(v) /\ cuts < MaxCuts
  /\ cuts' = cuts + 1
  /\ visits' = [visits EXCEPT ![v].pc = "ended"]
  /\ crossed' = (crossed \/ visits[v].kind = "param")
  /\ UNCHANGED <<dbType, server, stored, begun>>

\* The server reads its file again, for a reason of its own.
ReloadConf ==
  /\ dbType = "pgsql" /\ runtime # Plain[pending]
  /\ runtime' = Plain[pending]
  /\ UNCHANGED <<dbType, users, databases, pending, stored, visits, begun, cuts, crossed>>

-----------------------------------------------------------------------------
InstanceInit ==
  /\ dbType \in SUPPORTED_MANAGEMENT_DB_TYPE \cup WithParameters
  /\ users = [a \in Accounts |-> NoUser] /\ passwords = [a \in Accounts |-> NoAccountRow]
  /\ databases = {} /\ owners = [d \in Databases |-> NoOwner]
  /\ runtime \in {s \in Settings : Plain[s] = s} /\ pending = runtime /\ history = <<>>
  /\ visits = [v \in Visits |-> Blank(runtime)]
  /\ begun = 0 /\ cuts = 0 /\ crossed = FALSE

InstanceStep(v) ==
  \/ AccountCreateView(v) \/ AccountEditView(v) \/ AccountGrantView(v) \/ AccountResetPwdView(v)
  \/ AccountLockView(v) \/ AccountDeleteView(v) \/ DatabaseCreateView(v) \/ DatabaseEditView(v)
  \/ ParamEditView(v) \/ ServerStatement(v) \/ Refused(v) \/ StoreAccounts(v) \/ StorePassword(v)
  \/ DeleteAccount(v) \/ StoreNothing(v) \/ StoreDatabase(v) \/ StoreHistory(v) \/ Cut(v)

InstanceNext == (\E v \in Visits : InstanceStep(v)) \/ ReloadConf

InstanceSpec == InstanceInit /\ [][InstanceNext]_instanceVars

-----------------------------------------------------------------------------
\* MySQL's new accounts have rows with another password than theirs where escaping changes it.
Misspelt(visit) == visit.kind = "create" /\ dbType = "mysql" /\ Escaped[visit.pwd] # visit.pwd

\* What a request should have done, if it named something to do.
Done(visit) ==
  CASE visit.kind \in {"create", "reset"} ->
         \A a \in visit.about : /\ users[a].pwd = visit.pwd /\ passwords[a].there
                               /\ ~ Misspelt(visit) => passwords[a].pwd = visit.pwd
    [] visit.kind = "nothing"  -> TRUE
    [] visit.kind = "delete"   -> ~ there(visit.acct) /\ (visit.all => ~ passwords[visit.acct].there)
    [] visit.kind = "grant"    -> visit.asked \subseteq users[visit.acct].privs
    [] visit.kind = "revoke"   -> visit.asked \cap users[visit.acct].privs = {}
    [] visit.kind = "lock"     -> users[visit.acct].locked
    [] visit.kind = "unlock"   -> ~ users[visit.acct].locked
    [] visit.kind = "database" -> \A d \in visit.about : d \in databases /\ owners[d] = visit.owner
    [] visit.kind = "param"    -> runtime = Plain[visit.new] \/ dbType = "pgsql"

\* A request that was answered with success has done all it was asked for, on the server and in the
\* table, as long as no other is or was about the same things: with several hosts, databases or
\* privileges, with rows that were there before, and after requests that ended half-way.  Except that
\* the row of a new account of MySQL has its password escaped, and that an unknown operation does nothing.
SuccessIsWhole ==
  \A v \in Visits : ~ Open(v) /\ visits[v].ok /\ visits[v].alone => Done(visits[v])

\* The history of the parameter leads from value to value without a gap up to the value in force,
\* if no two changes overlapped and none was cut.  Not so for pgsql, where no change is in force
\* when it is recorded.
HistoryTellsRuntime ==
  dbType # "pgsql" /\ ~ crossed
    /\ (\A v \in Visits : Open(v) => visits[v].kind # "param") =>
  \A i \in 1..Len(history) :
    Plain[history[i].new] = IF i = Len(history) THEN runtime ELSE history[i + 1].old

\* What the management of accounts, databases and parameters says of the server
\* (sql_api/api_instance_admin.py): both of the above.
RecordsTellTheServer == SuccessIsWhole /\ HistoryTellsRuntime

=============================================================================
