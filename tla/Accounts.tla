------------------------------ MODULE Accounts ------------------------------
(***************************************************************************)
(* Accounts, API tokens and invites (pkg/store/sqlite.go): the schema and  *)
(* token migrations of NewPersistentStore, which run again on every boot,  *)
(* and the requests that create users, hand out tokens and redeem invites. *)
(*                                                                         *)
(* Nothing is a transaction.  A boot may end after any statement, in an    *)
(* error or in a crash, and the next one starts from what it left; a       *)
(* request may get only some of its INSERTs done.                          *)
(***************************************************************************)
EXTENDS Integers, FiniteSets

CONSTANTS
  Members, TgUsers,  \* usernames registered by password; Telegram accounts
  Invites, Chats, NoChat,
  Handlers,          \* logins the server can be serving at once
  MaxTokens,         \* bound: requests generate no token beyond it
  MaxDeaths,         \* bound: ends of the process, in an error or a crash
  DbMayFail          \* whether a single statement may fail

Admin == "admin"
Names == {Admin} \cup Members \cup TgUsers

ASSUME AccountsAssumption ==
  /\ IsFiniteSet(Members) /\ IsFiniteSet(TgUsers) /\ Members \cap TgUsers = {}
  /\ Admin \notin Members \cup TgUsers /\ NoChat \notin Chats
  /\ MaxTokens \in Nat /\ MaxDeaths \in Nat /\ DbMayFail \in BOOLEAN

VARIABLES
  boot,     \* where NewPersistentStore is; "down" and "up" around it
  schema,   \* tables and migrated columns
  id,       \* users: the row id of each name, 0 without a row
  linked,   \* telegram_users
  rows,     \* api_tokens
  minted,   \* tokens generated so far; they are 1..minted
  adminID, master,  \* what the running process holds
  login,    \* the user Authenticate is about to insert a token for, 0 for none
  invite,   \* invites: [minted, expired, chat]
  deaths,
  blind,    \* history: some boot went on without knowing the admin
  handed,   \* history: <<token, user>> answered to a client
  served,   \* history: master tokens of the boots that knew the admin
  granted   \* history: <<invite, chat>> answered 200

db == <<schema, id, linked, rows, invite>>
process == <<adminID, master, login>>
history == <<blind, handed, served, granted>>
vars == <<boot, minted, deaths, db, process, history>>

NoOwner == "nobody"

(* The token literal of old binaries, and a token of an old database.      *)
Legacy == -1
Old == -2

FreshColumns ==
  [users |-> {"users.tenant_id"}, api_tokens |-> {"user_id", "name"},
   node_owners |-> {"node_owners.tenant_id"}, incidents |-> {"incidents.tenant_id"}]
Tables == DOMAIN FreshColumns
Tenants == UNION {FreshColumns[t] : t \in Tables \ {"api_tokens"}}

-----------------------------------------------------------------------------
(* Boot.  The rows of a table live on when a column comes or goes.         *)
At(p, q) == boot = p /\ boot' = q

Boot ==
  /\ At("down", "create")
  /\ UNCHANGED <<minted, deaths, db, process, history>>

CreateTable(t) ==
  /\ boot = "create" /\ t \notin schema
  /\ schema' = schema \cup {t} \cup FreshColumns[t]
  /\ UNCHANGED <<boot, minted, deaths, id, linked, rows, invite, process, history>>

SchemaCreated ==
  /\ At("create", "admin") /\ Tables \subseteq schema
  /\ UNCHANGED <<minted, deaths, db, process, history>>

NextId == 1 + Cardinality({n \in Names : id[n] # 0})

(* A SELECT that fails for any reason is taken for "no such user", and an  *)
(* INSERT that fails leaves adminID at 0 without ending the boot.          *)
FindAdmin ==
  /\ At("admin", "user_id")
  /\ \/ /\ id' = [id EXCEPT ![Admin] = IF @ = 0 THEN NextId ELSE @]
        /\ adminID' = id'[Admin]
        /\ UNCHANGED blind
     \/ DbMayFail /\ adminID' = 0 /\ blind' = TRUE /\ UNCHANGED id
  /\ UNCHANGED <<minted, deaths, schema, linked, rows, invite, master, login, handed, served, granted>>

(* ALTER TABLE ... ADD COLUMN fails when the column is there already.      *)
AddUserId ==
  /\ At("user_id", "name")
  /\ schema' = schema \cup {"user_id"}
  /\ UNCHANGED <<minted, deaths, id, linked, rows, invite, process, history>>

AddName ==
  /\ At("name", "remap")
  /\ schema' = schema \cup {"name"}
  /\ rows' = IF "name" \in schema THEN rows ELSE {[r EXCEPT !.name = "default"] : r \in rows}
  /\ UNCHANGED <<minted, deaths, id, linked, invite, process, history>>

\* Bug: WHERE user_id = 0 alone, which a NULL is not.
RemapZeroes ==
  /\ At("remap", "tag")
  /\ UNCHANGED <<minted, deaths, db, process, history>>
RemapOwner ==
  /\ At("remap", "tag")
  /\ rows' = {[r EXCEPT !.user = IF "owner" \in schema /\ @ = 0 THEN id[r.owner] ELSE @] : r \in rows}
  /\ UNCHANGED <<minted, deaths, schema, id, linked, invite, process, history>>

TagLegacy ==
  /\ At("tag", "drop")
  /\ rows' = {[r EXCEPT !.name = IF r.tok = Legacy THEN "master" ELSE @] : r \in rows}
  /\ UNCHANGED <<minted, deaths, schema, id, linked, invite, process, history>>

DropOwner ==
  /\ At("drop", "tenant")
  /\ schema' = schema \ {"owner"}
  /\ rows' = {[r EXCEPT !.owner = NoOwner] : r \in rows}
  /\ UNCHANGED <<minted, deaths, id, linked, invite, process, history>>

AddTenant(c) ==
  /\ boot = "tenant" /\ c \notin schema
  /\ schema' = schema \cup {c}
  /\ UNCHANGED <<boot, minted, deaths, id, linked, rows, invite, process, history>>

TenantsAdded ==
  /\ At("tenant", "master") /\ Tenants \subseteq schema
  /\ UNCHANGED <<minted, deaths, db, process, history>>

(* api_tokens: a row the requests and ensureMasterToken insert; the NOT    *)
(* NULL column of an old table, which they do not fill, refuses it.        *)
Insert(user, name) ==
  /\ "owner" \notin schema
  /\ minted' = minted + 1
  /\ rows' = rows \cup {[tok |-> minted', owner |-> NoOwner, user |-> user, name |-> name]}
Mint(user, name) == minted < MaxTokens /\ Insert(user, name)

MasterRows == {r \in rows : r.user = adminID /\ r.name = "master"}

Serving(tok) ==
  /\ master' = tok
  /\ served' = IF adminID = 0 THEN served ELSE served \cup {tok}

\* Bug: a row of the old literal is as good as any other.
EnsureMasterKeepsAll ==
  /\ At("master", "tail")
  /\ \/ MasterRows = {} /\ Insert(adminID, "master") /\ Serving(minted')
     \/ \E r \in MasterRows : Serving(r.tok) /\ UNCHANGED <<minted, rows>>
  /\ UNCHANGED <<deaths, schema, id, linked, invite, adminID, login, blind, handed, granted>>
EnsureMaster ==
  /\ At("master", "tail")
  /\ \/ MasterRows = {} /\ Insert(adminID, "master") /\ Serving(minted')
     \/ \E r \in MasterRows :
          /\ r.tok = Legacy /\ Cardinality(MasterRows) = 1
          /\ minted' = minted + 1
          /\ rows' = (rows \ {r}) \cup {[r EXCEPT !.tok = minted']}
          /\ Serving(minted')
     \/ \E r \in MasterRows : r.tok # Legacy /\ Serving(r.tok) /\ UNCHANGED <<minted, rows>>
  /\ UNCHANGED <<deaths, schema, id, linked, invite, adminID, login, blind, handed, granted>>

\* Bug: a column that is there already ends the boot.
ServeNoDuplicate ==
  /\ boot = "tail" /\ boot' = IF "kind" \in schema THEN "down" ELSE "up"
  /\ schema' = schema \cup {"kind"}
  /\ UNCHANGED <<minted, deaths, id, linked, rows, invite, process, history>>
(* The rest of the schema; the duplicate "kind" column is no error.        *)
Serve ==
  /\ At("tail", "up")
  /\ schema' = schema \cup {"kind"}
  /\ UNCHANGED <<minted, deaths, id, linked, rows, invite, process, history>>

(* A statement of the boot fails, or the process dies: main exits and      *)
(* systemd starts it again.                                                *)
Die ==
  /\ boot # "down" /\ deaths < MaxDeaths
  /\ boot' = "down" /\ deaths' = deaths + 1
  /\ adminID' = 0 /\ master' = 0 /\ login' = [h \in Handlers |-> 0]
  /\ UNCHANGED <<minted, db, history>>

-----------------------------------------------------------------------------
(* Requests.  Register and RegisterByTelegram hold p.mu, but a statement   *)
(* that fails undoes none of those before it.                              *)
CreateUser(n) == id[n] = 0 /\ id' = [id EXCEPT ![n] = NextId]

Register(n) ==
  /\ boot = "up" /\ CreateUser(n)
  /\ \/ Mint(id'[n], "default") /\ handed' = handed \cup {<<minted', id'[n]>>}
     \/ DbMayFail /\ UNCHANGED <<minted, rows, handed>>
  /\ UNCHANGED <<boot, deaths, schema, linked, invite, process, blind, served, granted>>

(* An account that has its user but not its link can never log in: the     *)
(* INSERT of the user is refused every time.                               *)
RegisterByTelegram(t) ==
  /\ boot = "up"
  /\ \/ t \in linked /\ UNCHANGED <<id, linked>>
     \/ CreateUser(t) /\ linked' = linked \cup {t}
  /\ \/ Mint(id'[t], "tg-login") /\ handed' = handed \cup {<<minted', id'[t]>>}
     \/ DbMayFail /\ UNCHANGED <<minted, rows, handed>>
  /\ UNCHANGED <<boot, deaths, schema, invite, process, blind, served, granted>>

RegisterByTelegramHalf(t) ==
  /\ boot = "up" /\ DbMayFail /\ CreateUser(t)
  /\ UNCHANGED <<boot, minted, deaths, schema, linked, rows, invite, process, history>>

(* The cached master token is user 1, whoever that is.     *)
GetUserByToken(tok) ==
  IF tok = master THEN 1
  ELSE IF \E r \in rows : r.tok = tok /\ \E n \in Names : id[n] = r.user /\ r.user # 0
       THEN (CHOOSE r \in rows : r.tok = tok).user ELSE 0

(* Authenticate hands out a token the user has, or makes one; it takes no  *)
(* lock.  A failed SELECT reads as "has none".                             *)
Authenticate(h, n) ==
  /\ boot = "up" /\ id[n] # 0 /\ login[h] = 0
  /\ LET own == {r \in rows : r.user = id[n]} IN
       \/ \E r \in own : handed' = handed \cup {<<r.tok, id[n]>>} /\ UNCHANGED login
       \/ /\ own = {} \/ DbMayFail
          /\ login' = [login EXCEPT ![h] = id[n]]
          /\ UNCHANGED handed
  /\ UNCHANGED <<boot, minted, deaths, db, adminID, master, blind, served, granted>>

AuthenticateInserts(h) ==
  /\ boot = "up" /\ login[h] # 0
  /\ \/ Mint(login[h], "default") /\ handed' = handed \cup {<<minted', login[h]>>}
     \/ DbMayFail /\ UNCHANGED <<minted, rows, handed>>
  /\ login' = [login EXCEPT ![h] = 0]
  /\ UNCHANGED <<boot, deaths, schema, id, linked, invite, adminID, master, blind, served, granted>>

CreateInvite(i) ==
  /\ boot = "up" /\ ~invite[i].minted
  /\ invite' = [invite EXCEPT ![i].minted = TRUE]
  /\ UNCHANGED <<boot, minted, deaths, schema, id, linked, rows, process, history>>

InviteExpires(i) ==
  /\ invite[i].minted /\ ~invite[i].expired
  /\ invite' = [invite EXCEPT ![i].expired = TRUE]
  /\ UNCHANGED <<boot, minted, deaths, schema, id, linked, rows, process, history>>

(* One UPDATE takes the invite, expired or not; the answer is 200 only for *)
(* one that has not expired, when reading the row back works.              *)
\* Bug: the UPDATE does not ask for redeemed_at = 0.
RedeemAgain(i, c) ==
  /\ boot = "up" /\ invite[i].minted
  /\ invite' = [invite EXCEPT ![i].chat = c]
  /\ \/ ~invite[i].expired /\ granted' = granted \cup {<<i, c>>}
     \/ (DbMayFail \/ invite[i].expired) /\ UNCHANGED granted
  /\ UNCHANGED <<boot, minted, deaths, schema, id, linked, rows, process, blind, handed, served>>
RedeemInvite(i, c) ==
  /\ boot = "up" /\ invite[i].minted /\ invite[i].chat = NoChat
  /\ invite' = [invite EXCEPT ![i].chat = c]
  /\ \/ ~invite[i].expired /\ granted' = granted \cup {<<i, c>>}
     \/ (DbMayFail \/ invite[i].expired) /\ UNCHANGED granted
  /\ UNCHANGED <<boot, minted, deaths, schema, id, linked, rows, process, blind, handed, served>>

-----------------------------------------------------------------------------
(* A database that does not exist yet, or one of the binaries that kept    *)
(* the owner's name in api_tokens.                                         *)
FreshDatabase ==
  schema = {} /\ id = [n \in Names |-> 0] /\ rows = {} /\ handed = {}

LegacyDatabase ==
  \E m \in Members :
    /\ schema = Tables \cup {"owner"}
    /\ id = [n \in Names |-> IF n = Admin THEN 1 ELSE IF n = m THEN 2 ELSE 0]
    /\ rows = {[tok |-> Legacy, owner |-> Admin, user |-> 0, name |-> "none"],
               [tok |-> Old, owner |-> m, user |-> 0, name |-> "none"]}
    /\ handed = {<<Old, 2>>}

Init ==
  /\ FreshDatabase \/ LegacyDatabase
  /\ boot = "down" /\ minted = 0 /\ deaths = 0 /\ linked = {}
  /\ invite = [i \in Invites |-> [minted |-> FALSE, expired |-> FALSE, chat |-> NoChat]]
  /\ adminID = 0 /\ master = 0 /\ login = [h \in Handlers |-> 0]
  /\ blind = FALSE /\ served = {} /\ granted = {}

NewPersistentStore ==
  \/ Boot \/ SchemaCreated \/ FindAdmin
  \/ \E t \in Tables : CreateTable(t)
  \/ AddUserId \/ AddName \/ RemapOwner \/ TagLegacy \/ DropOwner
  \/ \E c \in Tenants : AddTenant(c)
  \/ TenantsAdded \/ EnsureMaster \/ Serve

Next ==
  \/ NewPersistentStore \/ Die
  \/ \E n \in Members : Register(n)
  \/ \E t \in TgUsers : RegisterByTelegram(t) \/ RegisterByTelegramHalf(t)
  \/ \E h \in Handlers :
       \/ \E n \in {Admin} \cup Members : Authenticate(h, n)
       \/ AuthenticateInserts(h)
  \/ \E i \in Invites :
       \/ CreateInvite(i) \/ InviteExpires(i)
       \/ \E c \in Chats : RedeemInvite(i, c)

Spec == Init /\ [][Next]_vars
FairSpec == Spec /\ WF_vars(NewPersistentStore)

-----------------------------------------------------------------------------
Steps == {"down", "create", "admin", "user_id", "name", "remap", "tag", "drop", "tenant",
          "master", "tail", "up"}
UserIds == 0..Cardinality(Names)
Tokens == {Legacy, Old} \cup 1..minted

TypeOK ==
  /\ boot \in Steps
  /\ schema \subseteq Tables \cup Tenants \cup {"owner", "user_id", "name", "kind"}
  /\ id \in [Names -> UserIds]
  /\ linked \subseteq TgUsers
  /\ rows \subseteq [tok : Tokens, owner : Names \cup {NoOwner}, user : UserIds,
                    name : {"none", "default", "master", "tg-login"}]
  /\ minted \in Nat /\ deaths \in 0..MaxDeaths
  /\ adminID \in UserIds /\ master \in Tokens \cup {0}
  /\ login \in [Handlers -> UserIds]
  /\ invite \in [Invites -> [minted : BOOLEAN, expired : BOOLEAN, chat : Chats \cup {NoChat}]]
  /\ blind \in BOOLEAN /\ handed \subseteq Tokens \X UserIds
  /\ served \subseteq Tokens /\ granted \subseteq Invites \X Chats
  /\ "owner" \in schema => \A r \in rows : r.owner \in Names
  /\ boot # "up" => login = [h \in Handlers |-> 0]

(* Whatever statement the boots of an old database died at, every token    *)
(* handed out authenticates its user for as long as the server serves      *)
(* (migrateAPITokensSchema steps 3 and 5: owner may not go before user_id  *)
(* has it).  After a boot that did not find the admin, two tokens a login  *)
(* of the admin returns may not: the literal, which a later boot rotates,  *)
(* and the master token when user 1 is somebody else.                      *)
TokensHonoured ==
  boot = "up" =>
    \A h \in handed : GetUserByToken(h[1]) = h[2] \/ (blind /\ h[1] \in {master, Legacy})

(* One master token for all the boots that know the admin, never the       *)
(* literal of the old binaries, which is gone from the table once such a   *)
(* boot serves (ensureMasterToken).                                        *)
MasterToken ==
  /\ Cardinality(served) <= 1 /\ Legacy \notin served
  /\ boot = "up" /\ adminID # 0 => \A r \in rows : r.tok # Legacy

(* An invite is answered 200 to one chat, the one its row names, also when *)
(* an answer was lost (RedeemInvite).                                      *)
InviteOnce == \A g, f \in granted : invite[g[1]].chat = g[2] /\ (g[1] = f[1] => g = f)

(* Every migration can be taken up again where a boot left it: when the    *)
(* process stops dying the server comes up, with all the checked columns   *)
(* and without the one that refuses tokens (NewPersistentStore).           *)
Migrated == Tenants \cup {"user_id", "name", "kind"} \subseteq schema /\ "owner" \notin schema
ComesUp == []<>(boot = "up" /\ Migrated)
=============================================================================
