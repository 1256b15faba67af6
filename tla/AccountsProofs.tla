--------------------------- MODULE AccountsProofs ---------------------------
(***************************************************************************)
(* Proofs about Accounts for any number of members, Telegram users,        *)
(* invites, chats and overlapping logins, and for any number of deaths.    *)
(***************************************************************************)
EXTENDS Accounts, FiniteSetTheorems, TLAPS

Row == [tok : Tokens, owner : Names \cup {NoOwner}, user : UserIds,
        name : {"none", "default", "master", "tg-login"}]
Invitation == [minted : BOOLEAN, expired : BOOLEAN, chat : Chats \cup {NoChat}]

LEMMA NamesFinite == IsFiniteSet(Names) /\ Cardinality(Names) \in Nat /\ Cardinality(Names) # 0
<1>1. IsFiniteSet({Admin} \cup Members) /\ IsFiniteSet({Admin})
  BY FS_Singleton, FS_Union, AccountsAssumption
<1>2. IsFiniteSet(Names)
  BY <1>1, FS_Union, AccountsAssumption DEF Names
<1> QED
  BY <1>2, FS_CardinalityType, FS_EmptySet DEF Names

(* A user without a row gets an id nobody has counted yet, and in range.   *)
LEMMA NextIdInRange ==
  ASSUME NEW n \in Names, id[n] = 0
  PROVE  NextId \in UserIds /\ NextId # 0
<1> DEFINE Present == {m \in Names : id[m] # 0}
<1>1. Present \subseteq Names /\ n \notin Present
  OBVIOUS
<1>2. IsFiniteSet(Present) /\ Cardinality(Present) <= Cardinality(Names)
      /\ (Cardinality(Present) = Cardinality(Names) => Present = Names)
  BY <1>1, NamesFinite, FS_Subset
<1>3. Cardinality(Present) \in Nat
  BY <1>2, FS_CardinalityType
<1> QED
  BY <1>1, <1>2, <1>3, NamesFinite DEF NextId, UserIds

LEMMA TwoUsers == ASSUME NEW m \in Members PROVE 2 \in UserIds
<1>1. Admin # m /\ {Admin} \cup {m} \subseteq Names
  BY AccountsAssumption DEF Names
<1>2. IsFiniteSet({Admin}) /\ Cardinality({Admin}) = 1
  BY FS_Singleton
<1>3. Cardinality({Admin} \cup {m}) = 2
  BY <1>1, <1>2, FS_AddElement
<1>4. Cardinality({Admin} \cup {m}) <= Cardinality(Names)
  BY <1>1, NamesFinite, FS_Subset
<1> QED
  BY <1>3, <1>4, NamesFinite DEF UserIds

LEMMA TypeInit == Init => TypeOK
<1> SUFFICES ASSUME Init PROVE TypeOK
  OBVIOUS
<1>1. /\ id \in [Names -> UserIds] /\ rows \subseteq Row
      /\ handed \subseteq Tokens \X UserIds
      /\ schema \subseteq Tables \cup Tenants \cup {"owner", "user_id", "name", "kind"}
      /\ "owner" \in schema => \A r \in rows : r.owner \in Names
  <2>1. CASE FreshDatabase
    BY <2>1, NamesFinite DEF FreshDatabase, UserIds
  <2>2. CASE LegacyDatabase
    <3>1. PICK m \in Members :
            /\ schema = Tables \cup {"owner"}
            /\ id = [n \in Names |-> IF n = Admin THEN 1 ELSE IF n = m THEN 2 ELSE 0]
            /\ rows = {[tok |-> Legacy, owner |-> Admin, user |-> 0, name |-> "none"],
                       [tok |-> Old, owner |-> m, user |-> 0, name |-> "none"]}
            /\ handed = {<<Old, 2>>}
      BY <2>2 DEF LegacyDatabase
    <3>2. 0 \in UserIds /\ 1 \in UserIds /\ 2 \in UserIds
      BY TwoUsers, NamesFinite DEF UserIds
    <3>3. Legacy \in Tokens /\ Old \in Tokens /\ Admin \in Names /\ m \in Names
      BY DEF Tokens, Names
    <3> QED
      BY <3>1, <3>2, <3>3 DEF Row
  <2> QED
    BY <2>1, <2>2 DEF Init
<1>2. /\ boot \in Steps /\ linked \subseteq TgUsers /\ minted \in Nat /\ deaths \in 0..MaxDeaths
      /\ adminID \in UserIds /\ master \in Tokens \cup {0} /\ login \in [Handlers -> UserIds]
  BY NamesFinite, AccountsAssumption DEF Init, Steps, UserIds
<1>3. invite \in [Invites -> Invitation]
  BY DEF Init, Invitation
<1> QED
  BY <1>1, <1>2, <1>3 DEF Init, TypeOK, Row, Invitation

LEMMA FreshTokens == TypeOK /\ minted' = minted + 1 => Tokens \subseteq Tokens' /\ minted' \in Tokens' /\ minted' \in Nat
BY DEF TypeOK, Tokens

(* A token that is generated leaves the old rows well typed, and can be    *)
(* handed out.                                                             *)
LEMMA InsertTyped ==
  ASSUME TypeOK, NEW u \in UserIds, NEW name \in {"default", "master", "tg-login"}, Insert(u, name)
  PROVE  minted' \in Nat /\ rows' \subseteq Row' /\ Tokens \subseteq Tokens' /\ minted' \in Tokens'
         /\ "owner" \notin schema
<1>1. minted' = minted + 1 /\ Tokens \subseteq Tokens' /\ minted' \in Tokens' /\ minted' \in Nat
  BY FreshTokens DEF Insert
<1>2. Row \subseteq Row'
  BY <1>1 DEF Row
<1>3. [tok |-> minted', owner |-> NoOwner, user |-> u, name |-> name] \in Row'
  BY <1>1 DEF Row
<1> QED
  BY <1>1, <1>2, <1>3 DEF Insert, TypeOK, Row

LEMMA TypeStep == TypeOK /\ [Next]_vars => TypeOK'
<1> SUFFICES ASSUME TypeOK, [Next]_vars PROVE TypeOK'
  OBVIOUS
<1> USE DEF Row, Invitation, Tokens
<1>1. CASE Boot \/ SchemaCreated \/ TenantsAdded \/ Serve
  BY <1>1 DEF Boot, SchemaCreated, TenantsAdded, Serve, At, TypeOK, Steps, db, process, history
<1>2. ASSUME NEW t \in Tables, CreateTable(t) PROVE TypeOK'
  <2>1. schema' \subseteq Tables \cup Tenants \cup {"owner", "user_id", "name", "kind"}
    <3>1. FreshColumns[t] \subseteq Tenants \cup {"user_id", "name"}
      BY DEF Tables, Tenants, FreshColumns
    <3> QED
      BY <1>2, <3>1 DEF CreateTable, TypeOK
  <2>2. "owner" \in schema' => "owner" \in schema
    BY <1>2 DEF CreateTable, Tables, FreshColumns
  <2> QED
    BY <1>2, <2>1, <2>2 DEF CreateTable, TypeOK, process, history
<1>3. CASE FindAdmin
  <2>1. id' \in [Names -> UserIds] /\ adminID' \in UserIds
    <3>1. Admin \in Names /\ 0 \in UserIds
      BY NamesFinite DEF Names, UserIds
    <3>2. id[Admin] = 0 => NextId \in UserIds
      BY <3>1, NextIdInRange
    <3> QED
      BY <1>3, <3>1, <3>2 DEF FindAdmin, TypeOK
  <2> QED
    BY <1>3, <2>1 DEF FindAdmin, At, TypeOK, Steps
<1>4. CASE AddUserId \/ DropOwner
  BY <1>4 DEF AddUserId, DropOwner, At, TypeOK, Steps, process, history
<1>5. CASE AddName \/ TagLegacy
  BY <1>5 DEF AddName, TagLegacy, At, TypeOK, Steps, process, history
<1>6. CASE RemapOwner
  BY <1>6 DEF RemapOwner, At, TypeOK, Steps, process, history
<1>7. ASSUME NEW c \in Tenants, AddTenant(c) PROVE TypeOK'
  <2>1. c # "owner"
    BY DEF Tenants, Tables, FreshColumns
  <2> QED
    BY <1>7, <2>1 DEF AddTenant, TypeOK, process, history
<1>8. CASE EnsureMaster
  <2>1. CASE MasterRows = {} /\ Insert(adminID, "master") /\ Serving(minted')
    BY <1>8, <2>1, InsertTyped DEF EnsureMaster, At, Serving, TypeOK, Steps
  <2>2. ASSUME NEW r \in MasterRows, r.tok = Legacy, minted' = minted + 1, Serving(minted'),
               rows' = (rows \ {r}) \cup {[r EXCEPT !.tok = minted']}
        PROVE  TypeOK'
    <3>1. Tokens \subseteq Tokens' /\ minted' \in Tokens' /\ minted' \in Nat
      BY <2>2, FreshTokens
    <3>2. rows' \subseteq Row'
      BY <2>2, <3>1 DEF TypeOK, MasterRows
    <3>3. r \in rows /\ \A q \in rows' : \E o \in rows : q.owner = o.owner
      BY <2>2 DEF MasterRows, TypeOK
    <3> QED
      BY <1>8, <2>2, <3>1, <3>2, <3>3 DEF EnsureMaster, At, Serving, TypeOK, Steps
  <2>3. ASSUME NEW r \in MasterRows, Serving(r.tok), UNCHANGED <<minted, rows>> PROVE TypeOK'
    BY <1>8, <2>3 DEF EnsureMaster, At, Serving, MasterRows, TypeOK, Steps
  <2> QED
    BY <1>8, <2>1, <2>2, <2>3 DEF EnsureMaster
<1>9. CASE Die
  <2>1. login' \in [Handlers -> UserIds] /\ adminID' \in UserIds
    BY <1>9, NamesFinite DEF Die, UserIds
  <2>2. deaths' \in 0..MaxDeaths
    BY <1>9, AccountsAssumption DEF Die, TypeOK
  <2> QED
    BY <1>9, <2>1, <2>2 DEF Die, TypeOK, Steps, db, history
<1>10. ASSUME NEW n \in Members, Register(n) PROVE TypeOK'
  <2>1. id' \in [Names -> UserIds] /\ id'[n] \in UserIds
    BY <1>10, NextIdInRange DEF Register, CreateUser, TypeOK, Names
  <2>2. CASE Mint(id'[n], "default") /\ handed' = handed \cup {<<minted', id'[n]>>}
    BY <1>10, <2>1, <2>2, InsertTyped DEF Register, Mint, TypeOK, process
  <2>3. CASE UNCHANGED <<minted, rows, handed>>
    BY <1>10, <2>1, <2>3 DEF Register, TypeOK, process
  <2> QED
    BY <1>10, <2>2, <2>3 DEF Register
<1>11. ASSUME NEW t \in TgUsers, RegisterByTelegram(t) PROVE TypeOK'
  <2>1. id' \in [Names -> UserIds] /\ id'[t] \in UserIds /\ linked' \subseteq TgUsers
    BY <1>11, NextIdInRange DEF RegisterByTelegram, CreateUser, TypeOK, Names
  <2>2. CASE Mint(id'[t], "tg-login") /\ handed' = handed \cup {<<minted', id'[t]>>}
    BY <1>11, <2>1, <2>2, InsertTyped DEF RegisterByTelegram, Mint, TypeOK, process
  <2>3. CASE UNCHANGED <<minted, rows, handed>>
    BY <1>11, <2>1, <2>3 DEF RegisterByTelegram, TypeOK, process
  <2> QED
    BY <1>11, <2>2, <2>3 DEF RegisterByTelegram
<1>12. ASSUME NEW t \in TgUsers, RegisterByTelegramHalf(t) PROVE TypeOK'
  BY <1>12, NextIdInRange DEF RegisterByTelegramHalf, CreateUser, TypeOK, Names, process, history
<1>13. ASSUME NEW h \in Handlers, NEW n \in {Admin} \cup Members, Authenticate(h, n) PROVE TypeOK'
  <2>1. id[n] \in UserIds /\ \A r \in rows : r.tok \in Tokens
    BY <1>13 DEF TypeOK, Names
  <2>2. handed' \subseteq Tokens \X UserIds /\ login' \in [Handlers -> UserIds]
    <3>0. handed \subseteq Tokens \X UserIds /\ login \in [Handlers -> UserIds]
      BY DEF TypeOK
    <3>1. ASSUME NEW r \in rows, handed' = handed \cup {<<r.tok, id[n]>>}, UNCHANGED login
          PROVE  handed' \subseteq Tokens \X UserIds /\ login' \in [Handlers -> UserIds]
      BY <2>1, <3>0, <3>1
    <3>2. CASE login' = [login EXCEPT ![h] = id[n]] /\ UNCHANGED handed
      BY <2>1, <3>0, <3>2
    <3> QED
      BY <1>13, <3>1, <3>2 DEF Authenticate
  <2>3. boot = "up" /\ UNCHANGED <<boot, minted, deaths, db, adminID, master, blind, served, granted>>
    BY <1>13 DEF Authenticate
  <2> QED
    BY <2>2, <2>3 DEF TypeOK, db
<1>14. ASSUME NEW h \in Handlers, AuthenticateInserts(h) PROVE TypeOK'
  <2>1. login' \in [Handlers -> UserIds] /\ login[h] \in UserIds
    BY <1>14, NamesFinite DEF AuthenticateInserts, TypeOK, UserIds
  <2>2. CASE Mint(login[h], "default") /\ handed' = handed \cup {<<minted', login[h]>>}
    BY <1>14, <2>1, <2>2, InsertTyped DEF AuthenticateInserts, Mint, TypeOK
  <2>3. CASE UNCHANGED <<minted, rows, handed>>
    BY <1>14, <2>1, <2>3 DEF AuthenticateInserts, TypeOK
  <2> QED
    BY <1>14, <2>2, <2>3 DEF AuthenticateInserts
<1>15. ASSUME NEW i \in Invites, CreateInvite(i) \/ InviteExpires(i) PROVE TypeOK'
  <2>1. invite' \in [Invites -> Invitation]
    <3>1. invite \in [Invites -> Invitation]
      BY DEF TypeOK
    <3> HIDE DEF Invitation
    <3>2. /\ [invite[i] EXCEPT !.minted = TRUE] \in Invitation
          /\ [invite[i] EXCEPT !.expired = TRUE] \in Invitation
      BY <3>1 DEF Invitation
    <3> QED
      BY <1>15, <3>1, <3>2 DEF CreateInvite, InviteExpires
  <2> QED
    BY <1>15, <2>1 DEF CreateInvite, InviteExpires, TypeOK, process, history
<1>16. ASSUME NEW i \in Invites, NEW c \in Chats, RedeemInvite(i, c) PROVE TypeOK'
  BY <1>16 DEF RedeemInvite, TypeOK, process
<1>17. CASE UNCHANGED vars
  BY <1>17 DEF vars, db, process, history, TypeOK
<1> QED
  BY <1>1, <1>2, <1>3, <1>4, <1>5, <1>6, <1>7, <1>8, <1>9, <1>10, <1>11, <1>12, <1>13, <1>14,
     <1>15, <1>16, <1>17 DEF Next, NewPersistentStore

(* The types of the tables and of what the process holds (NewPersistentStore *)
(* and the requests of sqlite.go), and no login outlives its process.      *)
THEOREM TypeCorrect == Spec => []TypeOK
<1> QED
  BY TypeInit, TypeStep, PTL DEF Spec

-----------------------------------------------------------------------------
(* Invites.  A chat that was answered 200 is in the row, so the row is not *)
(* open to another UPDATE.                                                 *)
LEMMA InviteStep == TypeOK /\ InviteOnce /\ [Next]_vars => InviteOnce'
<1> SUFFICES ASSUME TypeOK, InviteOnce, [Next]_vars PROVE InviteOnce'
  OBVIOUS
<1>1. ASSUME NEW i \in Invites, NEW c \in Chats, RedeemInvite(i, c) PROVE InviteOnce'
  <2>1. /\ invite \in [Invites -> Invitation] /\ granted \subseteq Invites \X Chats
        /\ \A g \in granted : invite[g[1]].chat = g[2] /\ g[2] # NoChat
    BY AccountsAssumption DEF TypeOK, InviteOnce, Invitation
  <2>2. \A g \in granted : g[1] # i
    BY <1>1, <2>1 DEF RedeemInvite
  <2>3. \A g \in granted' : g \in granted \/ g = <<i, c>>
    BY <1>1 DEF RedeemInvite
  <2>4. \A j \in Invites : invite'[j].chat = IF j = i THEN c ELSE invite[j].chat
    BY <1>1, <2>1 DEF RedeemInvite, Invitation
  <2> QED
    BY <2>1, <2>2, <2>3, <2>4 DEF InviteOnce
<1>2. ASSUME NEW i \in Invites, CreateInvite(i) \/ InviteExpires(i) PROVE InviteOnce'
  <2>1. invite \in [Invites -> Invitation] /\ granted \subseteq Invites \X Chats
    BY DEF TypeOK, Invitation
  <2>2. granted' = granted /\ \A j \in Invites : invite'[j].chat = invite[j].chat
    BY <1>2, <2>1 DEF CreateInvite, InviteExpires, history, Invitation
  <2> QED
    BY <2>1, <2>2 DEF InviteOnce
<1>3. CASE UNCHANGED <<invite, granted>>
  BY <1>3 DEF InviteOnce
<1>4. UNCHANGED <<invite, granted>> \/ \E i \in Invites :
        CreateInvite(i) \/ InviteExpires(i) \/ \E c \in Chats : RedeemInvite(i, c)
  BY DEF Next, NewPersistentStore, Boot, SchemaCreated, FindAdmin, CreateTable, AddUserId, AddName,
         RemapOwner, TagLegacy, DropOwner, AddTenant, TenantsAdded, EnsureMaster, Serve, Die, Register,
         RegisterByTelegram, RegisterByTelegramHalf, Authenticate, AuthenticateInserts, db, history, vars
<1> QED
  BY <1>1, <1>2, <1>3, <1>4

(* Whoever redeems, whatever answers are lost: one chat at most is         *)
(* answered 200 for an invite (RedeemInvite's conditional UPDATE).         *)
THEOREM InviteCorrect == Spec => []InviteOnce
<1>1. Init => InviteOnce
  BY DEF Init, InviteOnce
<1> QED
  BY <1>1, TypeInit, TypeStep, InviteStep, PTL DEF Spec

-----------------------------------------------------------------------------
(* What keeps the master token one.  The row of the old literal becomes the *)
(* admin's master row before any boot serves a token, and from then on     *)
(* every other boot that knows the admin finds that row.                   *)
AdminRow(r) == id[Admin] # 0 /\ r.user = id[Admin] /\ r.name = "master"
Retagged == {"tag", "drop", "tenant", "master", "tail", "up"}

KnownAdmin == adminID # 0 => adminID = id[Admin]
Phases ==
  /\ boot \in Retagged \cup {"remap"} => "name" \in schema
  /\ boot \in {"tenant", "master", "tail", "up"} => "owner" \notin schema
  /\ boot \in {"tail", "up"} /\ adminID # 0 => served # {}
Unserved == "name" \notin schema \/ "owner" \in schema => served = {}
LegacyRow ==
  \A r \in rows : r.tok = Legacy =>
    /\ id[Admin] # 0 /\ served = {}
    /\ r.user = id[Admin] \/ (r.user = 0 /\ r.owner = Admin /\ "owner" \in schema)
    /\ boot \in Retagged => r.user = id[Admin]
    /\ boot \in Retagged \ {"tag"} => r.name = "master"
MasterLabel ==
  \A r \in rows : r.name = "master" /\ r.tok # Legacy =>
    r.user \in {0, id[Admin]} /\ "owner" \notin schema
OneMaster ==
  /\ \A r, q \in rows : AdminRow(r) /\ AdminRow(q) => r = q
  /\ \A r, q \in rows : r.tok = Legacy /\ (AdminRow(q) \/ q.tok = Legacy) => q = r
ServedRow == \A m \in served : m # Legacy /\ \E r \in rows : AdminRow(r) /\ r.tok = m

MasterInv ==
  KnownAdmin /\ Phases /\ Unserved /\ LegacyRow /\ MasterLabel /\ OneMaster /\ ServedRow

LEMMA MasterInit == Init => MasterInv
<1> SUFFICES ASSUME Init PROVE MasterInv
  OBVIOUS
<1>1. /\ LegacyRow /\ MasterLabel /\ OneMaster
      /\ "name" \notin schema
  <2>1. CASE FreshDatabase
    BY <2>1 DEF FreshDatabase, LegacyRow, MasterLabel, OneMaster
  <2>2. CASE LegacyDatabase
    <3>1. PICK m \in Members :
            /\ schema = Tables \cup {"owner"}
            /\ id = [n \in Names |-> IF n = Admin THEN 1 ELSE IF n = m THEN 2 ELSE 0]
            /\ rows = {[tok |-> Legacy, owner |-> Admin, user |-> 0, name |-> "none"],
                       [tok |-> Old, owner |-> m, user |-> 0, name |-> "none"]}
      BY <2>2 DEF LegacyDatabase
    <3>2. Admin \in Names /\ Legacy # Old /\ boot = "down" /\ served = {}
      BY DEF Names, Legacy, Old, Init
    <3> QED
      BY <3>1, <3>2 DEF LegacyRow, MasterLabel, OneMaster, AdminRow, Retagged, Tables, FreshColumns
  <2> QED
    BY <2>1, <2>2 DEF Init
<1> QED
  BY <1>1 DEF Init, MasterInv, KnownAdmin, Phases, Unserved, ServedRow, Retagged

(* A request that adds a token adds no master row.                         *)
LEMMA RequestKeepsMaster ==
  ASSUME TypeOK, MasterInv, UNCHANGED <<boot, schema, adminID, served>>, id'[Admin] = id[Admin],
         NEW u \in UserIds, NEW name \in {"default", "tg-login"},
         Insert(u, name) \/ UNCHANGED rows
  PROVE  MasterInv'
<1>1. CASE UNCHANGED rows
  BY <1>1 DEF MasterInv, KnownAdmin, Phases, Unserved, LegacyRow, MasterLabel, OneMaster, ServedRow,
              AdminRow, Retagged
<1>2. CASE Insert(u, name)
  <2> DEFINE row == [tok |-> minted + 1, owner |-> NoOwner, user |-> u, name |-> name]
  <2>1. rows' = rows \cup {row} /\ row.tok # Legacy /\ row.name # "master"
    BY <1>2 DEF Insert, TypeOK, Legacy
  <2> HIDE DEF row
  <2> QED
    BY <2>1 DEF MasterInv, KnownAdmin, Phases, Unserved, LegacyRow, MasterLabel, OneMaster, ServedRow,
                AdminRow, Retagged
<1> QED
  BY <1>1, <1>2

LEMMA MasterStep == TypeOK /\ MasterInv /\ [Next]_vars => MasterInv'
<1> SUFFICES ASSUME TypeOK, MasterInv, [Next]_vars PROVE MasterInv'
  OBVIOUS
<1>1. ASSUME NEW t \in Tables, CreateTable(t) PROVE MasterInv'
  <2>1. FreshColumns[t] \subseteq {"user_id", "name"} \cup Tenants /\ "owner" \notin Tenants /\ t # "owner"
    BY DEF Tables, Tenants, FreshColumns
  <2> QED
    BY <1>1, <2>1 DEF CreateTable, process, history, MasterInv, KnownAdmin, Phases, Unserved, LegacyRow, MasterLabel,
              OneMaster, ServedRow, AdminRow, Retagged
<1>2. CASE Boot \/ SchemaCreated \/ TenantsAdded \/ AddUserId \/ Serve
  BY <1>2 DEF Boot, SchemaCreated, TenantsAdded, AddUserId, Serve, At, db, process, history, MasterInv,
              KnownAdmin, Phases, Unserved, LegacyRow, MasterLabel, OneMaster, ServedRow, AdminRow, Retagged
<1>3. ASSUME NEW c \in Tenants, AddTenant(c) PROVE MasterInv'
  <2>1. c # "owner"
    BY DEF Tenants, Tables, FreshColumns
  <2> QED
    BY <1>3, <2>1 DEF AddTenant, process, history, MasterInv, KnownAdmin, Phases, Unserved, LegacyRow,
              MasterLabel, OneMaster, ServedRow, AdminRow, Retagged
<1>4. CASE FindAdmin
  <2>1. Admin \in Names /\ (id[Admin] = 0 => NextId # 0)
    BY NextIdInRange DEF Names
  <2>2. /\ id'[Admin] # 0 \/ UNCHANGED id
        /\ id[Admin] # 0 => id'[Admin] = id[Admin]
        /\ adminID' # 0 => adminID' = id'[Admin]
    BY <1>4, <2>1 DEF FindAdmin, TypeOK
  <2>3. /\ UNCHANGED <<rows, served, schema>> /\ boot' = "user_id"
    BY <1>4 DEF FindAdmin, At
  <2> QED
    BY <2>2, <2>3 DEF MasterInv, KnownAdmin, Phases, Unserved, LegacyRow, MasterLabel, OneMaster, ServedRow,
                      AdminRow, Retagged
<1>5. CASE AddName
  <2>1. CASE "name" \in schema
    BY <1>5, <2>1 DEF AddName, At, process, history, MasterInv, KnownAdmin, Phases, Unserved, LegacyRow,
              MasterLabel, OneMaster, ServedRow, AdminRow, Retagged
  <2>2. CASE "name" \notin schema
    <3>1. rows' = {[r EXCEPT !.name = "default"] : r \in rows} /\ served = {} /\ served' = {}
      BY <1>5, <2>2 DEF AddName, history, MasterInv, Unserved
    <3>2. \A q \in rows' : q.name = "default" /\ \E r \in rows :
            q = [r EXCEPT !.name = "default"] /\ q.tok = r.tok /\ q.user = r.user /\ q.owner = r.owner
      BY <3>1 DEF TypeOK
    <3> QED
      BY <1>5, <3>1, <3>2 DEF AddName, At, process, MasterInv, KnownAdmin, Phases, Unserved, LegacyRow,
                MasterLabel, OneMaster, ServedRow, AdminRow, Retagged
  <2> QED
    BY <2>1, <2>2
<1>6. CASE RemapOwner
  <2> DEFINE f(r) == [r EXCEPT !.user = IF "owner" \in schema /\ @ = 0 THEN id[r.owner] ELSE @]
  <2>1. /\ rows' = {f(r) : r \in rows} /\ UNCHANGED <<schema, id, adminID, served>>
        /\ boot = "remap" /\ boot' = "tag"
    BY <1>6 DEF RemapOwner, At, process, history
  <2>2. \A r \in rows : /\ f(r).tok = r.tok /\ f(r).name = r.name /\ f(r).owner = r.owner
                         /\ f(r).user = IF "owner" \in schema /\ r.user = 0 THEN id[r.owner] ELSE r.user
    BY DEF TypeOK
  <2> HIDE DEF f
  <2>3. CASE "owner" \in schema
    <3>1. \A r \in rows : r.name = "master" => r.tok = Legacy
      BY <2>3 DEF MasterInv, MasterLabel
    <3> QED
      BY <2>1, <2>2, <2>3, <3>1 DEF MasterInv, KnownAdmin, Phases, Unserved, LegacyRow, MasterLabel, OneMaster, ServedRow,
              AdminRow, Retagged
  <2>4. CASE "owner" \notin schema
    BY <2>1, <2>2, <2>4 DEF MasterInv, KnownAdmin, Phases, Unserved, LegacyRow, MasterLabel, OneMaster, ServedRow,
              AdminRow, Retagged
  <2> QED
    BY <2>3, <2>4
<1>7. CASE TagLegacy
  <2> DEFINE f(r) == [r EXCEPT !.name = IF r.tok = Legacy THEN "master" ELSE @]
  <2>1. /\ rows' = {f(r) : r \in rows} /\ UNCHANGED <<schema, id, adminID, served>>
        /\ boot = "tag" /\ boot' = "drop"
    BY <1>7 DEF TagLegacy, At, process, history
  <2>2. \A r \in rows : /\ f(r).tok = r.tok /\ f(r).user = r.user /\ f(r).owner = r.owner
                         /\ f(r).name = IF r.tok = Legacy THEN "master" ELSE r.name
    BY DEF TypeOK
  <2> HIDE DEF f
  <2> QED
    BY <2>1, <2>2 DEF MasterInv, KnownAdmin, Phases, Unserved, LegacyRow, MasterLabel, OneMaster, ServedRow,
              AdminRow, Retagged
<1>8. CASE DropOwner
  <2> DEFINE f(r) == [r EXCEPT !.owner = NoOwner]
  <2>1. /\ rows' = {f(r) : r \in rows} /\ schema' = schema \ {"owner"}
        /\ UNCHANGED <<id, adminID, served>> /\ boot = "drop" /\ boot' = "tenant"
    BY <1>8 DEF DropOwner, At, process, history
  <2>2. \A r \in rows : f(r).tok = r.tok /\ f(r).user = r.user /\ f(r).name = r.name
    BY DEF TypeOK
  <2> HIDE DEF f
  <2> QED
    BY <2>1, <2>2 DEF MasterInv, KnownAdmin, Phases, Unserved, LegacyRow, MasterLabel, OneMaster, ServedRow,
              AdminRow, Retagged
<1>9. CASE EnsureMaster
  <2>1. /\ UNCHANGED <<schema, id, adminID>> /\ boot = "master" /\ boot' = "tail"
        /\ "name" \in schema /\ "owner" \notin schema
    BY <1>9 DEF EnsureMaster, At, MasterInv, Phases, Retagged
  <2>2. adminID # 0 => \A r \in rows : r \in MasterRows <=> AdminRow(r)
    BY DEF MasterRows, AdminRow, MasterInv, KnownAdmin
  <2>3. \A r \in rows : r.tok = Legacy => AdminRow(r)
    BY <2>1 DEF AdminRow, MasterInv, LegacyRow, Retagged
  <2>4. CASE MasterRows = {} /\ Insert(adminID, "master") /\ Serving(minted')
    <3> DEFINE row == [tok |-> minted + 1, owner |-> NoOwner, user |-> adminID, name |-> "master"]
    <3>1. /\ rows' = rows \cup {row} /\ row.tok # Legacy /\ row.tok = minted'
          /\ row.user = adminID /\ row.name = "master"
      BY <2>4 DEF Insert, TypeOK, Legacy
    <3> HIDE DEF row
    <3>2. served' = IF adminID = 0 THEN served ELSE served \cup {row.tok}
      BY <2>4, <3>1 DEF Serving
    <3>3. CASE adminID = 0
      BY <2>1, <3>1, <3>2, <3>3 DEF MasterInv, KnownAdmin, Phases, Unserved, LegacyRow, MasterLabel, OneMaster, ServedRow,
              AdminRow, Retagged
    <3>4. CASE adminID # 0
      <4>1. \A r \in rows : ~AdminRow(r) /\ r.tok # Legacy
        BY <2>2, <2>3, <2>4, <3>4
      <4>2. served = {}
        BY <4>1 DEF MasterInv, ServedRow
      <4>3. adminID = id[Admin]
        BY <3>4 DEF MasterInv, KnownAdmin
      <4> QED
        BY <2>1, <3>1, <3>2, <3>4, <4>1, <4>2, <4>3 DEF MasterInv, KnownAdmin, Phases, Unserved, LegacyRow, MasterLabel, OneMaster, ServedRow,
              AdminRow, Retagged
    <3> QED
      BY <3>3, <3>4
  <2>5. ASSUME NEW r \in MasterRows, r.tok = Legacy, minted' = minted + 1, Serving(minted'),
               rows' = (rows \ {r}) \cup {[r EXCEPT !.tok = minted']}
        PROVE  MasterInv'
    <3> DEFINE row == [r EXCEPT !.tok = minted']
    <3>1. /\ r \in rows /\ AdminRow(r) /\ served = {} /\ adminID = id[Admin] /\ adminID # 0
      BY <2>3, <2>5 DEF MasterRows, AdminRow, MasterInv, LegacyRow
    <3>2. /\ rows' = (rows \ {r}) \cup {row} /\ row.tok = minted' /\ row.tok # Legacy
          /\ row.user = r.user /\ row.name = r.name
      BY <2>5, <3>1 DEF TypeOK, Legacy
    <3> HIDE DEF row
    <3>3. \A q \in rows \ {r} : q.tok # Legacy /\ ~AdminRow(q)
      BY <2>5, <3>1 DEF MasterInv, OneMaster
    <3>4. served' = {row.tok}
      BY <2>5, <3>1, <3>2 DEF Serving
    <3> QED
      BY <2>1, <3>1, <3>2, <3>3, <3>4 DEF MasterInv, KnownAdmin, Phases, Unserved, LegacyRow, MasterLabel, OneMaster, ServedRow,
              AdminRow, Retagged
  <2>6. ASSUME NEW r \in MasterRows, r.tok # Legacy, Serving(r.tok), UNCHANGED rows
        PROVE  MasterInv'
    <3>1. r \in rows /\ served' = IF adminID = 0 THEN served ELSE served \cup {r.tok}
      BY <2>6 DEF MasterRows, Serving
    <3>2. CASE adminID = 0
      BY <2>1, <2>6, <3>1, <3>2 DEF MasterInv, KnownAdmin, Phases, Unserved, LegacyRow, MasterLabel, OneMaster, ServedRow,
              AdminRow, Retagged
    <3>3. CASE adminID # 0
      <4>1. AdminRow(r) /\ \A q \in rows : q.tok # Legacy
        BY <2>2, <2>6, <3>1, <3>3 DEF MasterInv, OneMaster
      <4> QED
        BY <2>1, <2>6, <3>1, <3>3, <4>1 DEF MasterInv, KnownAdmin, Phases, Unserved, LegacyRow, MasterLabel, OneMaster, ServedRow,
              AdminRow, Retagged
    <3> QED
      BY <3>2, <3>3
  <2> QED
    BY <1>9, <2>4, <2>5, <2>6 DEF EnsureMaster
<1>10. CASE Die
  BY <1>10 DEF Die, db, history, MasterInv, KnownAdmin, Phases, Unserved, LegacyRow, MasterLabel, OneMaster, ServedRow,
              AdminRow, Retagged
<1>11. ASSUME NEW n \in Members, Register(n) PROVE MasterInv'
  <2>1. id' = [id EXCEPT ![n] = NextId] /\ id' \in [Names -> UserIds] /\ n # Admin /\ n \in Names
    BY <1>11, TypeStep, AccountsAssumption DEF Register, CreateUser, TypeOK, Names
  <2>2. id'[n] \in UserIds /\ id'[Admin] = id[Admin]
    BY <2>1 DEF TypeOK
  <2> QED
    BY <1>11, <2>2, RequestKeepsMaster DEF Register, Mint, process
<1>12. ASSUME NEW t \in TgUsers, RegisterByTelegram(t) \/ RegisterByTelegramHalf(t) PROVE MasterInv'
  <2>1. /\ id' = [id EXCEPT ![t] = NextId] \/ id' = id
        /\ id' \in [Names -> UserIds] /\ t # Admin /\ t \in Names
    BY <1>12, TypeStep, AccountsAssumption
       DEF RegisterByTelegram, RegisterByTelegramHalf, CreateUser, TypeOK, Names
  <2>2. id'[t] \in UserIds /\ id'[Admin] = id[Admin]
    <3>1. CASE id' = id
      BY <2>1, <3>1
    <3>2. CASE id' = [id EXCEPT ![t] = NextId]
      BY <2>1, <3>2 DEF TypeOK
    <3> QED
      BY <2>1, <3>1, <3>2
  <2> QED
    BY <1>12, <2>2, RequestKeepsMaster
       DEF RegisterByTelegram, RegisterByTelegramHalf, Mint, process, history
<1>13. ASSUME NEW h \in Handlers, AuthenticateInserts(h) PROVE MasterInv'
  <2>1. login[h] \in UserIds
    BY DEF TypeOK
  <2> QED
    BY <1>13, <2>1, RequestKeepsMaster DEF AuthenticateInserts, Mint
<1>14. CASE UNCHANGED <<boot, schema, id, rows, adminID, served>>
  BY <1>14 DEF MasterInv, KnownAdmin, Phases, Unserved, LegacyRow, MasterLabel, OneMaster, ServedRow,
              AdminRow, Retagged
<1>15. ASSUME NEW h \in Handlers, NEW n \in {Admin} \cup Members, Authenticate(h, n) PROVE MasterInv'
  BY <1>14, <1>15 DEF Authenticate, db
<1>16. ASSUME NEW i \in Invites,
              CreateInvite(i) \/ InviteExpires(i) \/ \E c \in Chats : RedeemInvite(i, c)
       PROVE  MasterInv'
  BY <1>14, <1>16 DEF CreateInvite, InviteExpires, RedeemInvite, process, history
<1>17. CASE UNCHANGED vars
  BY <1>14, <1>17 DEF vars, db, process, history
<1> QED
  BY <1>1, <1>2, <1>3, <1>4, <1>5, <1>6, <1>7, <1>8, <1>9, <1>10, <1>11, <1>12, <1>13,
     <1>15, <1>16, <1>17 DEF Next, NewPersistentStore

LEMMA MasterInvSuffices == TypeOK /\ MasterInv => MasterToken
<1> SUFFICES ASSUME TypeOK, MasterInv PROVE MasterToken
  OBVIOUS
<1>1. \A m, n \in served : m = n
  BY DEF MasterInv, ServedRow, OneMaster
<1>2. Cardinality(served) <= 1
  <2>1. CASE served = {}
    BY <2>1, FS_EmptySet
  <2>2. ASSUME NEW m \in served PROVE Cardinality(served) <= 1
    <3>1. served = {m}
      BY <1>1
    <3> QED
      BY <3>1, FS_Singleton
  <2> QED
    BY <2>1, <2>2
<1>3. Legacy \notin served
  BY DEF MasterInv, ServedRow
<1>4. boot = "up" /\ adminID # 0 => \A r \in rows : r.tok # Legacy
  BY DEF MasterInv, Phases, LegacyRow
<1> QED
  BY <1>2, <1>3, <1>4 DEF MasterToken

(* All boots that find the admin serve one master token, which is not the  *)
(* literal of the old binaries, wherever the boots before them died        *)
(* (migrateAPITokensSchema, ensureMasterToken).                            *)
THEOREM MasterCorrect == Spec => []MasterToken
<1> QED
  BY TypeInit, TypeStep, MasterInit, MasterStep, MasterInvSuffices, PTL DEF Spec

-----------------------------------------------------------------------------
(***************************************************************************)
(* Proof that the tokens of Accounts keep working, for any number of       *)
(* users, requests and deaths of the process.                              *)
(***************************************************************************)
AfterAdmin == {"user_id", "name", "remap"} \cup Retagged

OneRowPerToken == \A r, q \in rows : r.tok = q.tok => r = q
(* The first user is the admin unless a boot once missed him.              *)
AdminFirst ==
  ~blind => /\ id[Admin] \in {0, 1}
            /\ id[Admin] = 0 => \A n \in Names : id[n] = 0
Sighted == ~blind /\ boot \in AfterAdmin => adminID # 0
(* A row is user u's by id, or by the owner's name until RemapOwner has    *)
(* run; DropOwner is safe because it runs after.                           *)
Belongs(r, u) ==
  \/ r.user = u
  \/ r.user = 0 /\ "owner" \in schema /\ boot \notin Retagged /\ r.owner \in Names /\ id[r.owner] = u
HandedRow ==
  \A h \in handed :
    /\ \E n \in Names : id[n] # 0 /\ id[n] = h[2]
    /\ h[1] = Legacy => blind
    /\ h[1] # Legacy => \E r \in rows : r.tok = h[1] /\ Belongs(r, h[2])
MasterRow ==
  boot \in {"tail", "up"} /\ adminID # 0 =>
    \E r \in rows : r.tok = master /\ r.user = adminID
LoginOf == \A h \in Handlers : login[h] # 0 => \E n \in Names : id[n] = login[h]

HandedInv == OneRowPerToken /\ AdminFirst /\ Sighted /\ HandedRow /\ MasterRow /\ LoginOf

LEMMA HandedInit == Init => HandedInv
<1> SUFFICES ASSUME Init PROVE HandedInv
  OBVIOUS
<1>1. OneRowPerToken /\ AdminFirst /\ HandedRow
  <2>1. CASE FreshDatabase
    BY <2>1 DEF FreshDatabase, OneRowPerToken, AdminFirst, HandedRow, Names
  <2>2. CASE LegacyDatabase
    <3>1. PICK m \in Members :
            /\ schema = Tables \cup {"owner"}
            /\ id = [n \in Names |-> IF n = Admin THEN 1 ELSE IF n = m THEN 2 ELSE 0]
            /\ rows = {[tok |-> Legacy, owner |-> Admin, user |-> 0, name |-> "none"],
                       [tok |-> Old, owner |-> m, user |-> 0, name |-> "none"]}
            /\ handed = {<<Old, 2>>}
      BY <2>2 DEF LegacyDatabase
    <3>2. Admin \in Names /\ m \in Names /\ m # Admin /\ Legacy # Old /\ boot = "down"
      BY AccountsAssumption DEF Names, Legacy, Old, Init
    <3>3. id[Admin] = 1 /\ id[m] = 2
      BY <3>1, <3>2
    <3>4. OneRowPerToken /\ AdminFirst
      BY <3>1, <3>2, <3>3 DEF OneRowPerToken, AdminFirst
    <3>5. HandedRow
      BY <3>1, <3>2, <3>3 DEF HandedRow, Belongs, Retagged
    <3> QED
      BY <3>4, <3>5
  <2> QED
    BY <2>1, <2>2 DEF Init
<1> QED
  BY <1>1 DEF Init, HandedInv, Sighted, MasterRow, LoginOf, AfterAdmin, Retagged

(* What a step has to keep for the tokens handed out before it.            *)
LEMMA HandedKept ==
  ASSUME HandedRow, handed' = handed, blind => blind',
         \A n \in Names : id[n] # 0 => id'[n] = id[n],
         \A r \in rows : r.tok # Legacy => \E q \in rows' :
           q.tok = r.tok /\ \A n \in Names : id[n] # 0 /\ Belongs(r, id[n]) => Belongs(q, id[n])'
  PROVE  HandedRow'
<1> SUFFICES ASSUME NEW h \in handed
             PROVE  /\ \E n \in Names : id'[n] # 0 /\ id'[n] = h[2]
                    /\ h[1] = Legacy => blind'
                    /\ h[1] # Legacy => \E q \in rows' : q.tok = h[1] /\ Belongs(q, h[2])'
  BY DEF HandedRow
<1>1. PICK n \in Names : id[n] # 0 /\ id[n] = h[2]
  BY DEF HandedRow
<1>2. id'[n] = id[n]
  BY <1>1
<1>3. ASSUME h[1] # Legacy PROVE \E q \in rows' : q.tok = h[1] /\ Belongs(q, h[2])'
  <2>1. PICK r \in rows : r.tok = h[1] /\ Belongs(r, h[2])
    BY <1>3 DEF HandedRow
  <2>2. PICK q \in rows' : q.tok = r.tok /\ (id[n] # 0 /\ Belongs(r, id[n]) => Belongs(q, id[n])')
    BY <1>3, <2>1
  <2>3. Belongs(q, h[2])'
    BY <1>1, <1>2, <2>1, <2>2 DEF Belongs
  <2> QED
    BY <2>1, <2>2, <2>3
<1> QED
  BY <1>1, <1>2, <1>3 DEF HandedRow

LEMMA FreshNotInRows == TypeOK => /\ \A r \in rows : r.tok # minted + 1
                                 /\ minted + 1 # Legacy
BY DEF TypeOK, Tokens, Legacy, Old

(* Steps of a boot, and requests, that touch none of the tables below.     *)
LEMMA QuietStep ==
  ASSUME HandedInv, UNCHANGED <<id, rows, handed, blind, adminID, master, login>>,
         "owner" \in schema => "owner" \in schema',
         boot' \in Retagged => boot \in Retagged,
         boot' \in AfterAdmin => boot \in AfterAdmin,
         boot' \in {"tail", "up"} => boot \in {"tail", "up"}
  PROVE  HandedInv'
<1>1. HandedRow'
  BY HandedKept DEF HandedInv, Belongs
<1>2. (OneRowPerToken /\ AdminFirst /\ Sighted /\ MasterRow /\ LoginOf)'
  BY DEF HandedInv, OneRowPerToken, AdminFirst, Sighted, MasterRow, LoginOf
<1> QED
  BY <1>1, <1>2 DEF HandedInv

LEMMA InsertKeeps ==
  ASSUME TypeOK, OneRowPerToken, NEW u, NEW name, Insert(u, name)
  PROVE  /\ OneRowPerToken' /\ rows \subseteq rows'
         /\ \E q \in rows' : q.tok = minted' /\ q.user = u
         /\ minted' # Legacy
<1> DEFINE row == [tok |-> minted + 1, owner |-> NoOwner, user |-> u, name |-> name]
<1>1. rows' = rows \cup {row} /\ row.tok = minted' /\ row.user = u /\ minted' = minted + 1
  BY DEF Insert
<1> HIDE DEF row
<1>2. \A r \in rows : r.tok # row.tok
  BY <1>1, FreshNotInRows
<1> QED
  BY <1>1, <1>2, FreshNotInRows DEF OneRowPerToken

(* A request: ids only grow, at most one token is made, and the user it is *)
(* handed to has it.                                                       *)
LEMMA RequestStep ==
  ASSUME TypeOK, MasterInv, HandedInv, boot = "up",
         UNCHANGED <<boot, schema, adminID, master, blind>>,
         NEW n \in Names, id' = id \/ (id[n] = 0 /\ n # Admin /\ id' = [id EXCEPT ![n] = NextId]),
         NEW name,
         \/ /\ Insert(id'[n], name) /\ id'[n] # 0
            /\ handed' = handed \cup {<<minted', id'[n]>>}
         \/ UNCHANGED <<minted, rows, handed>>,
         \A h \in Handlers : login'[h] # 0 => login'[h] = login[h]
  PROVE  HandedInv'
<1>1. /\ \A m \in Names : id[m] # 0 => id'[m] = id[m]
      /\ id' \in [Names -> UserIds] /\ Admin \in Names /\ id'[Admin] = id[Admin]
  <2>1. Admin \in Names /\ id \in [Names -> UserIds]
    BY DEF TypeOK, Names
  <2>2. id[n] = 0 => NextId \in UserIds
    BY NextIdInRange
  <2> QED
    BY <2>1, <2>2
<1>2. OneRowPerToken' /\ rows \subseteq rows'
  BY InsertKeeps DEF HandedInv, OneRowPerToken
<1>3. AdminFirst' /\ Sighted'
  <2>1. ~blind => adminID # 0 /\ adminID = id[Admin]
    BY DEF HandedInv, Sighted, AfterAdmin, Retagged, MasterInv, KnownAdmin
  <2> QED
    BY <1>1, <2>1 DEF HandedInv, AdminFirst, Sighted
<1>4. MasterRow' /\ LoginOf'
  BY <1>1, <1>2 DEF HandedInv, MasterRow, LoginOf
<1>5. HandedRow'
  <2>1. \A h \in handed :
          /\ \E m \in Names : id'[m] # 0 /\ id'[m] = h[2]
          /\ h[1] = Legacy => blind'
          /\ h[1] # Legacy => \E r \in rows' : r.tok = h[1] /\ Belongs(r, h[2])'
    <3> SUFFICES ASSUME NEW h \in handed
                 PROVE  /\ \E m \in Names : id'[m] # 0 /\ id'[m] = h[2]
                        /\ h[1] = Legacy => blind'
                        /\ h[1] # Legacy => \E r \in rows' : r.tok = h[1] /\ Belongs(r, h[2])'
      OBVIOUS
    <3>1. PICK m \in Names : id[m] # 0 /\ id[m] = h[2]
      BY DEF HandedInv, HandedRow
    <3>2. ASSUME h[1] # Legacy PROVE \E r \in rows' : r.tok = h[1] /\ Belongs(r, h[2])'
      <4>1. PICK r \in rows : r.tok = h[1] /\ Belongs(r, h[2])
        BY <3>2 DEF HandedInv, HandedRow
      <4>2. Belongs(r, h[2])'
        BY <4>1 DEF Belongs, Retagged
      <4> QED
        BY <1>2, <4>1, <4>2
    <3> QED
      BY <1>1, <3>1, <3>2 DEF HandedInv, HandedRow
  <2>2. CASE UNCHANGED <<minted, rows, handed>>
    BY <2>1, <2>2 DEF HandedRow
  <2>3. CASE Insert(id'[n], name) /\ id'[n] # 0 /\ handed' = handed \cup {<<minted', id'[n]>>}
    <3>1. minted' # Legacy /\ \E q \in rows' : q.tok = minted' /\ q.user = id'[n]
      <4> DEFINE u == id'[n]
      <4>1. Insert(u, name)
        BY <2>3
      <4> HIDE DEF u
      <4>2. minted' # Legacy /\ \E q \in rows' : q.tok = minted' /\ q.user = u
        BY <4>1, InsertKeeps DEF HandedInv
      <4> QED
        BY <4>2 DEF u
    <3> SUFFICES ASSUME NEW h \in handed'
                 PROVE  /\ \E m \in Names : id'[m] # 0 /\ id'[m] = h[2]
                        /\ h[1] = Legacy => blind'
                        /\ h[1] # Legacy => \E r \in rows' : r.tok = h[1] /\ Belongs(r, h[2])'
      BY DEF HandedRow
    <3>2. CASE h \in handed
      BY <2>1, <3>2
    <3>3. CASE h[1] = minted' /\ h[2] = id'[n]
      <4>1. PICK q \in rows' : q.tok = h[1] /\ q.user = h[2]
        BY <3>1, <3>3
      <4>2. Belongs(q, h[2])'
        BY <4>1 DEF Belongs
      <4> QED
        BY <2>3, <3>1, <3>3, <4>1, <4>2
    <3> QED
      BY <2>3, <3>2, <3>3
  <2> QED
    BY <2>2, <2>3
<1> QED
  BY <1>2, <1>3, <1>4, <1>5 DEF HandedInv

(* A statement over all rows that keeps each row's token and its user.     *)
LEMMA UpdateStep ==
  ASSUME HandedInv, UNCHANGED <<id, handed, blind, adminID, master, login>>,
         boot \in AfterAdmin, boot' \notin {"tail", "up"}, OneRowPerToken',
         \A r \in rows : \E q \in rows' :
           q.tok = r.tok /\ \A n \in Names : id[n] # 0 /\ Belongs(r, id[n]) => Belongs(q, id[n])'
  PROVE  HandedInv'
<1>1. HandedRow'
  BY HandedKept DEF HandedInv
<1> QED
  BY <1>1 DEF HandedInv, AdminFirst, Sighted, MasterRow, LoginOf

Linked == \A t \in linked : id[t] # 0

LEMMA LinkedStep == TypeOK /\ Linked /\ [Next]_vars => Linked'
<1> SUFFICES ASSUME TypeOK, Linked, [Next]_vars PROVE Linked'
  OBVIOUS
<1>1. /\ linked \subseteq Names /\ id \in [Names -> UserIds] /\ Admin \in Names
      /\ Members \subseteq Names /\ TgUsers \subseteq Names
  BY DEF TypeOK, Names
<1>2. CASE FindAdmin
  <2>1. \A n \in Names : id[n] # 0 => id'[n] = id[n]
    BY <1>1, <1>2 DEF FindAdmin
  <2> QED
    BY <1>1, <1>2, <2>1 DEF FindAdmin, Linked
<1>3. ASSUME NEW n \in Members, Register(n) PROVE Linked'
  BY <1>1, <1>3 DEF Register, CreateUser, Linked
<1>4. ASSUME NEW t \in TgUsers, RegisterByTelegram(t) PROVE Linked'
  BY <1>1, <1>4, NextIdInRange DEF RegisterByTelegram, CreateUser, Linked
<1>5. ASSUME NEW t \in TgUsers, RegisterByTelegramHalf(t) PROVE Linked'
  BY <1>1, <1>5 DEF RegisterByTelegramHalf, CreateUser, Linked
<1>6. CASE UNCHANGED <<id, linked>>
  BY <1>6 DEF Linked
<1>7. \/ UNCHANGED <<id, linked>> \/ FindAdmin \/ \E n \in Members : Register(n)
      \/ \E t \in TgUsers : RegisterByTelegram(t) \/ RegisterByTelegramHalf(t)
  BY DEF Next, NewPersistentStore, Boot, SchemaCreated, CreateTable, AddUserId, AddName,
         RemapOwner, TagLegacy, DropOwner, AddTenant, TenantsAdded, EnsureMaster, Serve, Die,
         Authenticate, AuthenticateInserts, CreateInvite, InviteExpires, RedeemInvite, db, vars
<1> QED
  BY <1>2, <1>3, <1>4, <1>5, <1>6, <1>7

LEMMA FindAdminStep ==
  ASSUME TypeOK, HandedInv, FindAdmin PROVE HandedInv'
<1>1. Admin \in Names /\ id \in [Names -> UserIds] /\ (id[Admin] = 0 => NextId # 0)
  BY NextIdInRange DEF TypeOK, Names
<1>2. \A n \in Names : id[n] # 0 => id'[n] = id[n]
  BY <1>1 DEF FindAdmin
<1>3. /\ UNCHANGED <<rows, handed, login, schema, master>>
      /\ boot = "admin" /\ boot' = "user_id" /\ (blind => blind')
  BY DEF FindAdmin, At
<1>4. HandedRow'
  <2>1. \A r \in rows, n \in Names : id[n] # 0 /\ Belongs(r, id[n]) => Belongs(r, id[n])'
    BY <1>2, <1>3 DEF Belongs, Retagged
  <2> QED
    BY <1>2, <1>3, <2>1, HandedKept DEF HandedInv
<1>5. AdminFirst' /\ Sighted'
  <2>1. CASE blind'
    BY <2>1 DEF AdminFirst, Sighted
  <2>2. CASE ~blind'
    <3>1. id' = [id EXCEPT ![Admin] = IF @ = 0 THEN NextId ELSE @] /\ adminID' = id'[Admin] /\ ~blind
      BY <2>2 DEF FindAdmin
    <3>2. id[Admin] = 0 => NextId = 1
      <4>1. id[Admin] = 0 => {n \in Names : id[n] # 0} = {}
        BY <3>1 DEF HandedInv, AdminFirst
      <4> QED
        BY <4>1, FS_EmptySet DEF NextId
    <3>3. id'[Admin] = 1
      BY <1>1, <3>1, <3>2 DEF HandedInv, AdminFirst
    <3> QED
      BY <3>1, <3>3 DEF AdminFirst, Sighted
  <2> QED
    BY <2>1, <2>2
<1> QED
  BY <1>2, <1>3, <1>4, <1>5 DEF HandedInv, OneRowPerToken, MasterRow, LoginOf

LEMMA EnsureMasterStep ==
  ASSUME TypeOK, HandedInv, EnsureMaster PROVE HandedInv'
<1>1. /\ UNCHANGED <<id, handed, blind, schema, adminID, login>>
      /\ boot = "master" /\ boot' = "tail"
  BY DEF EnsureMaster, At
<1>2. AdminFirst' /\ Sighted' /\ LoginOf'
  BY <1>1 DEF HandedInv, AdminFirst, Sighted, LoginOf, AfterAdmin, Retagged
<1>3. \A r \in rows, n \in Names : id[n] # 0 /\ Belongs(r, id[n]) => Belongs(r, id[n])'
  BY <1>1 DEF Belongs, Retagged
<1>4. ASSUME MasterRows = {}, Insert(adminID, "master"), Serving(minted') PROVE HandedInv'
  <2>1. OneRowPerToken' /\ rows \subseteq rows' /\ \E q \in rows' : q.tok = minted' /\ q.user = adminID
    BY <1>4, InsertKeeps DEF HandedInv
  <2>2. HandedRow'
    BY <1>1, <1>3, <2>1, HandedKept DEF HandedInv
  <2>3. MasterRow'
    BY <1>1, <1>4, <2>1 DEF MasterRow, Serving
  <2> QED
    BY <1>2, <2>1, <2>2, <2>3 DEF HandedInv
<1>5. ASSUME NEW r \in MasterRows, r.tok = Legacy, minted' = minted + 1, Serving(minted'),
             rows' = (rows \ {r}) \cup {[r EXCEPT !.tok = minted']}
      PROVE  HandedInv'
  <2> DEFINE row == [r EXCEPT !.tok = minted']
  <2>1. /\ r \in rows /\ r.user = adminID /\ row.tok = minted' /\ row.user = r.user
        /\ rows' = (rows \ {r}) \cup {row}
    BY <1>5 DEF MasterRows, TypeOK
  <2> HIDE DEF row
  <2>2. OneRowPerToken'
    BY <1>5, <2>1, FreshNotInRows DEF HandedInv, OneRowPerToken
  <2>3. HandedRow'
    <3>1. \A q \in rows : q.tok # Legacy => q \in rows'
      BY <1>5, <2>1
    <3> QED
      BY <1>1, <1>3, <3>1, HandedKept DEF HandedInv
  <2>4. MasterRow'
    BY <1>1, <1>5, <2>1 DEF MasterRow, Serving
  <2> QED
    BY <1>2, <2>2, <2>3, <2>4 DEF HandedInv
<1>6. ASSUME NEW r \in MasterRows, r.tok # Legacy, Serving(r.tok), UNCHANGED <<minted, rows>>
      PROVE  HandedInv'
  <2>1. HandedRow'
    BY <1>1, <1>3, <1>6, HandedKept DEF HandedInv
  <2>2. OneRowPerToken' /\ MasterRow'
    BY <1>1, <1>6 DEF HandedInv, OneRowPerToken, MasterRow, Serving, MasterRows
  <2> QED
    BY <1>2, <2>1, <2>2 DEF HandedInv
<1> QED
  BY <1>4, <1>5, <1>6 DEF EnsureMaster

(* The row Authenticate finds is its user's; the old literal is still in   *)
(* the table only when this boot did not find the admin.                   *)
LEMMA LegacyIsBlind ==
  ASSUME MasterInv, HandedInv, boot = "up", NEW r \in rows, r.tok = Legacy PROVE blind
<1>1. served = {}
  BY DEF MasterInv, LegacyRow
<1>2. adminID = 0
  BY <1>1 DEF MasterInv, Phases
<1> QED
  BY <1>2 DEF HandedInv, Sighted, AfterAdmin, Retagged

LEMMA AuthenticateStep ==
  ASSUME TypeOK, MasterInv, HandedInv, NEW h \in Handlers, NEW n \in Names, Authenticate(h, n)
  PROVE  HandedInv'
<1>1. /\ UNCHANGED <<boot, schema, id, rows, adminID, master, blind>> /\ boot = "up" /\ id[n] # 0
  BY DEF Authenticate, db
<1>2. \/ \E r \in rows : r.user = id[n] /\ handed' = handed \cup {<<r.tok, id[n]>>} /\ UNCHANGED login
      \/ login' = [login EXCEPT ![h] = id[n]] /\ UNCHANGED handed
  BY DEF Authenticate
<1>3. OneRowPerToken' /\ AdminFirst' /\ Sighted' /\ MasterRow'
  BY <1>1 DEF HandedInv, OneRowPerToken, AdminFirst, Sighted, MasterRow
<1>4. LoginOf'
  BY <1>1, <1>2 DEF HandedInv, LoginOf, TypeOK
<1>5. HandedRow'
  <2>1. CASE UNCHANGED handed
    BY <1>1, <2>1, HandedKept DEF HandedInv, Belongs
  <2>2. ASSUME NEW r \in rows, r.user = id[n], handed' = handed \cup {<<r.tok, id[n]>>} PROVE HandedRow'
    <3> SUFFICES ASSUME NEW g \in handed'
                 PROVE  /\ \E m \in Names : id'[m] # 0 /\ id'[m] = g[2]
                        /\ g[1] = Legacy => blind'
                        /\ g[1] # Legacy => \E q \in rows' : q.tok = g[1] /\ Belongs(q, g[2])'
      BY DEF HandedRow
    <3>1. CASE g \in handed
      <4>1. \A q \in rows : Belongs(q, g[2]) => Belongs(q, g[2])'
        BY <1>1 DEF Belongs
      <4> QED
        BY <1>1, <3>1, <4>1 DEF HandedInv, HandedRow
    <3>2. CASE g[1] = r.tok /\ g[2] = id[n]
      <4>1. Belongs(r, g[2])'
        BY <1>1, <2>2, <3>2 DEF Belongs
      <4>2. g[1] = Legacy => blind
        BY <1>1, <3>2, LegacyIsBlind
      <4> QED
        BY <1>1, <3>2, <4>1, <4>2
    <3> QED
      BY <2>2, <3>1, <3>2
  <2> QED
    BY <1>2, <2>1, <2>2
<1> QED
  BY <1>3, <1>4, <1>5 DEF HandedInv

LEMMA HandedStep == TypeOK /\ MasterInv /\ Linked /\ HandedInv /\ [Next]_vars => HandedInv'
<1> SUFFICES ASSUME TypeOK, MasterInv, Linked, HandedInv, [Next]_vars PROVE HandedInv'
  OBVIOUS
<1>1. /\ Members \subseteq Names /\ TgUsers \subseteq Names /\ Admin \in Names
      /\ Admin \notin Members /\ Admin \notin TgUsers
      /\ id \in [Names -> UserIds] /\ login \in [Handlers -> UserIds]
  BY AccountsAssumption DEF TypeOK, Names
<1>2. CASE Boot \/ SchemaCreated \/ TenantsAdded \/ AddUserId \/ Serve
  BY <1>2, QuietStep DEF Boot, SchemaCreated, TenantsAdded, AddUserId, Serve, At, db, process, history,
                         Retagged, AfterAdmin
<1>3. ASSUME NEW t \in Tables, CreateTable(t) PROVE HandedInv'
  BY <1>3, QuietStep DEF CreateTable, process, history
<1>4. ASSUME NEW c \in Tenants, AddTenant(c) PROVE HandedInv'
  BY <1>4, QuietStep DEF AddTenant, process, history
<1>5. CASE FindAdmin
  BY <1>5, FindAdminStep
<1>6. CASE EnsureMaster
  BY <1>6, EnsureMasterStep
<1>7. CASE AddName
  <2>1. UNCHANGED <<id, handed, blind, adminID, master, login>>
        /\ boot = "name" /\ boot' = "remap"
    BY <1>7 DEF AddName, At, process, history
  <2> DEFINE f(r) == [r EXCEPT !.name = "default"]
  <2>2. \A r \in rows : f(r).tok = r.tok /\ f(r).user = r.user /\ f(r).owner = r.owner
    BY DEF TypeOK
  <2>3. /\ \A r \in rows : \E q \in rows' : q.tok = r.tok /\ q.user = r.user /\ q.owner = r.owner
        /\ OneRowPerToken'
    <3>1. CASE rows' = rows
      BY <3>1 DEF HandedInv, OneRowPerToken
    <3>2. CASE rows' = {f(r) : r \in rows}
      <4> HIDE DEF f
      <4>1. \A r \in rows : f(r) \in rows'
        BY <3>2
      <4>2. \A q \in rows' : \E r \in rows : q = f(r)
        BY <3>2
      <4> QED
        BY <2>2, <4>1, <4>2 DEF HandedInv, OneRowPerToken
    <3> QED
      BY <1>7, <3>1, <3>2 DEF AddName
  <2>4. "owner" \in schema => "owner" \in schema'
    BY <1>7 DEF AddName
  <2>5. \A r \in rows : \E q \in rows' :
          q.tok = r.tok /\ \A n \in Names : id[n] # 0 /\ Belongs(r, id[n]) => Belongs(q, id[n])'
    BY <2>1, <2>3, <2>4 DEF Belongs, Retagged
  <2> QED
    BY <2>1, <2>3, <2>5, UpdateStep DEF AfterAdmin, Retagged
<1>8. CASE RemapOwner
  <2> DEFINE f(r) == [r EXCEPT !.user = IF "owner" \in schema /\ @ = 0 THEN id[r.owner] ELSE @]
  <2>1. /\ rows' = {f(r) : r \in rows} /\ UNCHANGED <<schema, id, handed, blind, adminID, master, login>>
        /\ boot = "remap" /\ boot' = "tag"
    BY <1>8 DEF RemapOwner, At, process, history
  <2>2. \A r \in rows : f(r).tok = r.tok
                        /\ f(r).user = IF "owner" \in schema /\ r.user = 0 THEN id[r.owner] ELSE r.user
    BY DEF TypeOK
  <2> HIDE DEF f
  <2>3. OneRowPerToken'
    BY <2>1, <2>2 DEF HandedInv, OneRowPerToken
  <2>4. \A r \in rows : \E q \in rows' :
          /\ q.tok = r.tok
          /\ q.user = IF "owner" \in schema /\ r.user = 0 THEN id[r.owner] ELSE r.user
    <3> SUFFICES ASSUME NEW r \in rows
                 PROVE  \E q \in rows' :
                          /\ q.tok = r.tok
                          /\ q.user = IF "owner" \in schema /\ r.user = 0 THEN id[r.owner] ELSE r.user
      OBVIOUS
    <3>1. f(r) \in rows'
      BY <2>1
    <3> QED
      BY <2>2, <3>1
  <2>5. \A r \in rows : \E q \in rows' :
          q.tok = r.tok /\ \A n \in Names : id[n] # 0 /\ Belongs(r, id[n]) => Belongs(q, id[n])'
    BY <2>1, <2>4 DEF Belongs
  <2> QED
    BY <2>1, <2>3, <2>5, UpdateStep DEF AfterAdmin, Retagged
<1>9. CASE TagLegacy
  <2> DEFINE f(r) == [r EXCEPT !.name = IF r.tok = Legacy THEN "master" ELSE @]
  <2>1. /\ rows' = {f(r) : r \in rows} /\ UNCHANGED <<schema, id, handed, blind, adminID, master, login>>
        /\ boot = "tag" /\ boot' = "drop"
    BY <1>9 DEF TagLegacy, At, process, history
  <2>2. \A r \in rows : f(r).tok = r.tok /\ f(r).user = r.user
    BY DEF TypeOK
  <2> HIDE DEF f
  <2>3. OneRowPerToken'
    BY <2>1, <2>2 DEF HandedInv, OneRowPerToken
  <2>4. \A r \in rows : \E q \in rows' : q.tok = r.tok /\ q.user = r.user
    BY <2>1, <2>2
  <2>5. \A r \in rows : \E q \in rows' :
          q.tok = r.tok /\ \A n \in Names : id[n] # 0 /\ Belongs(r, id[n]) => Belongs(q, id[n])'
    BY <2>1, <2>4 DEF Belongs, Retagged
  <2> QED
    BY <2>1, <2>3, <2>5, UpdateStep DEF AfterAdmin, Retagged
<1>10. CASE DropOwner
  <2> DEFINE f(r) == [r EXCEPT !.owner = NoOwner]
  <2>1. /\ rows' = {f(r) : r \in rows} /\ UNCHANGED <<id, handed, blind, adminID, master, login>>
        /\ boot = "drop" /\ boot' = "tenant"
    BY <1>10 DEF DropOwner, At, process, history
  <2>2. \A r \in rows : f(r).tok = r.tok /\ f(r).user = r.user
    BY DEF TypeOK
  <2> HIDE DEF f
  <2>3. OneRowPerToken'
    BY <2>1, <2>2 DEF HandedInv, OneRowPerToken
  <2>4. \A r \in rows : \E q \in rows' : q.tok = r.tok /\ q.user = r.user
    BY <2>1, <2>2
  <2>5. \A r \in rows : \E q \in rows' :
          q.tok = r.tok /\ \A n \in Names : id[n] # 0 /\ Belongs(r, id[n]) => Belongs(q, id[n])'
    BY <2>1, <2>4 DEF Belongs, Retagged
  <2> QED
    BY <2>1, <2>3, <2>5, UpdateStep DEF AfterAdmin, Retagged
<1>11. CASE Die
  <2>1. /\ UNCHANGED <<schema, id, rows, handed, blind>> /\ boot' = "down"
        /\ login' = [h \in Handlers |-> 0]
    BY <1>11 DEF Die, db, history
  <2>2. \A r \in rows, n \in Names : id[n] # 0 /\ Belongs(r, id[n]) => Belongs(r, id[n])'
    BY <2>1 DEF Belongs, Retagged
  <2>3. HandedRow'
    BY <2>1, <2>2, HandedKept DEF HandedInv
  <2> QED
    BY <2>1, <2>3 DEF HandedInv, OneRowPerToken, AdminFirst, Sighted, MasterRow, LoginOf, AfterAdmin, Retagged
<1>12. ASSUME NEW n \in Members, Register(n) PROVE HandedInv'
  <2>1. n \in Names /\ id[n] = 0 /\ n # Admin /\ id' = [id EXCEPT ![n] = NextId] /\ id'[n] # 0
    BY <1>1, <1>12, NextIdInRange DEF Register, CreateUser
  <2>2. /\ UNCHANGED <<boot, schema, adminID, master, blind, login>> /\ boot = "up"
        /\ \/ Insert(id'[n], "default") /\ handed' = handed \cup {<<minted', id'[n]>>}
           \/ UNCHANGED <<minted, rows, handed>>
    BY <1>12 DEF Register, Mint, process
  <2> QED
    BY <2>1, <2>2, RequestStep
<1>13. ASSUME NEW t \in TgUsers, RegisterByTelegram(t) PROVE HandedInv'
  <2>1. /\ t \in Names /\ t # Admin /\ id'[t] # 0
        /\ id' = id \/ (id[t] = 0 /\ id' = [id EXCEPT ![t] = NextId])
    BY <1>1, <1>13, NextIdInRange DEF RegisterByTelegram, CreateUser, Linked
  <2>2. /\ UNCHANGED <<boot, schema, adminID, master, blind, login>> /\ boot = "up"
        /\ \/ Insert(id'[t], "tg-login") /\ handed' = handed \cup {<<minted', id'[t]>>}
           \/ UNCHANGED <<minted, rows, handed>>
    BY <1>13 DEF RegisterByTelegram, Mint, process
  <2> QED
    BY <2>1, <2>2, RequestStep
<1>14. ASSUME NEW t \in TgUsers, RegisterByTelegramHalf(t) PROVE HandedInv'
  <2>1. t \in Names /\ t # Admin /\ id[t] = 0 /\ id' = [id EXCEPT ![t] = NextId]
    BY <1>1, <1>14 DEF RegisterByTelegramHalf, CreateUser
  <2>2. /\ UNCHANGED <<boot, schema, adminID, master, blind, login, minted, rows, handed>> /\ boot = "up"
    BY <1>14 DEF RegisterByTelegramHalf, process, history
  <2> QED
    BY <2>1, <2>2, RequestStep
<1>15. ASSUME NEW h \in Handlers, NEW n \in {Admin} \cup Members, Authenticate(h, n) PROVE HandedInv'
  BY <1>1, <1>15, AuthenticateStep
<1>16. ASSUME NEW h \in Handlers, AuthenticateInserts(h) PROVE HandedInv'
  <2>1. PICK n \in Names : id[n] = login[h]
    BY <1>16 DEF AuthenticateInserts, HandedInv, LoginOf
  <2>2. /\ UNCHANGED <<boot, schema, id, adminID, master, blind>> /\ boot = "up" /\ id'[n] # 0
        /\ \/ Insert(id'[n], "default") /\ handed' = handed \cup {<<minted', id'[n]>>}
           \/ UNCHANGED <<minted, rows, handed>>
    BY <1>16, <2>1 DEF AuthenticateInserts, Mint
  <2>3. \A g \in Handlers : login'[g] # 0 => login'[g] = login[g]
    BY <1>1, <1>16 DEF AuthenticateInserts
  <2> QED
    BY <2>2, <2>3, RequestStep
<1>17. ASSUME NEW i \in Invites,
              CreateInvite(i) \/ InviteExpires(i) \/ \E c \in Chats : RedeemInvite(i, c)
       PROVE  HandedInv'
  BY <1>17, QuietStep DEF CreateInvite, InviteExpires, RedeemInvite, process, history
<1>18. CASE UNCHANGED vars
  BY <1>18, QuietStep DEF vars, db, process, history
<1> QED
  BY <1>2, <1>3, <1>4, <1>5, <1>6, <1>7, <1>8, <1>9, <1>10, <1>11, <1>12, <1>13, <1>14,
     <1>15, <1>16, <1>17, <1>18 DEF Next, NewPersistentStore

LEMMA HandedInvSuffices == TypeOK /\ MasterInv /\ HandedInv => TokensHonoured
<1> SUFFICES ASSUME TypeOK, MasterInv, HandedInv, boot = "up", NEW h \in handed,
                    ~(blind /\ h[1] \in {master, Legacy})
             PROVE  GetUserByToken(h[1]) = h[2]
  BY DEF TokensHonoured
<1>1. h[1] # Legacy
  BY DEF HandedInv, HandedRow
<1>2. PICK r \in rows : r.tok = h[1] /\ r.user = h[2]
  BY <1>1 DEF HandedInv, HandedRow, Belongs, Retagged
<1>3. PICK n \in Names : id[n] # 0 /\ id[n] = h[2]
  BY DEF HandedInv, HandedRow
<1>4. \A q \in rows : q.tok = h[1] => q = r
  BY <1>2 DEF HandedInv, OneRowPerToken
<1>5. CASE h[1] = master
  <2>1. adminID # 0 /\ adminID = id[Admin]
    BY <1>5 DEF HandedInv, Sighted, AfterAdmin, Retagged, MasterInv, KnownAdmin
  <2>2. adminID = 1
    BY <1>5, <2>1 DEF HandedInv, AdminFirst
  <2>3. r.user = adminID
    BY <1>4, <1>5, <2>1 DEF HandedInv, MasterRow
  <2> QED
    BY <1>2, <1>5, <2>2, <2>3 DEF GetUserByToken
<1>6. CASE h[1] # master
  <2>1. (CHOOSE q \in rows : q.tok = h[1]) = r
    BY <1>2, <1>4
  <2>2. \E q \in rows : q.tok = h[1] /\ \E m \in Names : id[m] = q.user /\ q.user # 0
    BY <1>2, <1>3
  <2> QED
    BY <1>2, <1>6, <2>1, <2>2 DEF GetUserByToken
<1> QED
  BY <1>5, <1>6

(* A token that was answered to a client authenticates its user for as     *)
(* long as the server serves, wherever the migrations of an old database   *)
(* were interrupted and whatever statement of a request failed             *)
(* (migrateAPITokensSchema, ensureMasterToken, GetUserByToken).            *)
THEOREM TokensCorrect == Spec => []TokensHonoured
<1>1. Init => Linked
  BY DEF Init, Linked
<1> QED
  BY <1>1, TypeInit, TypeStep, MasterInit, MasterStep, LinkedStep, HandedInit, HandedStep,
     HandedInvSuffices, PTL DEF Spec
=============================================================================
