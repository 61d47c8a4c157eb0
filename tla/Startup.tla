------------------------------ MODULE Startup ------------------------------
(***************************************************************************)
(* Starting the server over the database it finds: a new file, one of an   *)
(* older version, or one a start was cut short over.  InitDB creates what  *)
(* is missing, column by column, table by table and row by row, with no    *)
(* transaction around it; then InitPush loads the push key, and the server *)
(* serves.  A start may be cut at any statement, and a statement may fail: *)
(* the code ends the process, goes on without it, or reads a failed count  *)
(* as 0, depending on the place.                                           *)
(*                                                                         *)
(* The columns are grouped by the step that adds them.  The seeded lists   *)
(* are cut to two rows each, in the order of the code.  The fix-up of old  *)
(* photos is left out.  While the server is up, the admin edits the rows   *)
(* that the next start reads.                                              *)
(***************************************************************************)
EXTENDS Integers, Sequences, FiniteSets, SequencesExt

CONSTANTS
  MaxStops,   \* bound: starts cut short and servers stopped
  MaxErrors,  \* bound: statements that fail
  MaxEdits    \* bound: what the admin changes

ASSUME StartupAssumption == MaxStops \in Nat /\ MaxErrors \in Nat /\ MaxEdits \in Nat

VARIABLES
  at,         \* "down", the step of InitDB or InitPush under way, or "up"
  todo,       \* what is left of that step, Unread before it looks
  columns,    \* the groups of tables and columns there are
  categories, \* the categories table: names
  products,   \* the products table, by id
  users,      \* the users table, by username
  tables,     \* the tables table, by number
  key,        \* the stored push key
  serving,    \* pushVAPIDPublicKey: the key the process hands to phones
  issued,     \* tokens and keys made so far
  before,     \* history: the rows this start found
  failed,     \* history: the steps of this start in which a statement failed
  stops, faults, edits  \* bounds

rows == <<categories, products, users, tables, key>>
bounds == <<stops, faults, edits>>
startupVars == <<at, todo, columns, rows, serving, issued, before, failed, bounds>>

Unread == <<>>
NoToken == 0
NoKey == 0
NoCategory == ""
Unplaced == FALSE

\* The order of the start.
Steps ==
  <<"create", "menu columns", "flatten", "categories", "staff columns", "backfill",
    "hours columns", "push columns", "floor columns", "table 1", "menu", "staff",
    "floor", "tokens", "push", "up">>

Groups == {"create", "menu columns", "staff columns", "hours columns", "push columns", "floor columns"}
After(step) == Steps[(CHOOSE i \in DOMAIN Steps : Steps[i] = step) + 1]

\* The seeds.  The first account is the administrator's.
defaultCategories == <<"Brunch", "Coffee">>
egoMenu == <<"Brunch", "Coffee">>      \* of each dish, its category
seedUsersAdminLast == <<"manager", "admin">>
seedUsers == <<"admin", "manager">>
egoFloorPreset == <<1, 2>>

Product(category, subcategory) == [category |-> category, subcategory |-> subcategory]
Table(token) == [token |-> token, placed |-> Unplaced, bookable |-> TRUE]
Placed(ts) == {n \in DOMAIN ts : ts[n].placed}
LastKey(f) == IF DOMAIN f = {} THEN 0 ELSE CHOOSE n \in DOMAIN f : \A m \in DOMAIN f : m <= n
With(f, x, y) == [z \in DOMAIN f \cup {x} |-> IF z = x THEN y ELSE f[z]]
Without(f, x) == [z \in DOMAIN f \ {x} |-> f[z]]

\* A database of an older version has what its columns can hold.
StartupInit ==
  /\ at = "down" /\ todo = Unread
  /\ \/ columns = {} /\ categories = {} /\ products = <<>> /\ users = <<>> /\ tables = <<>> /\ key = NoKey
     \/ \E add \in SUBSET (Groups \ {"create"}), changed, onMap \in BOOLEAN :
          /\ columns = add \cup {"create"}
          /\ categories = IF "menu columns" \in add THEN {"Brunch", "Coffee"} ELSE {}
          /\ products = <<Product("Food", IF "menu columns" \in add THEN "Brunch" ELSE NoCategory)>>
          /\ users = [u \in {"admin", "manager"} |-> [default |-> u = "admin" => ~changed, must |-> FALSE]]
          /\ onMap => "floor columns" \in add
          /\ tables = [n \in {3} |-> [Table(NoToken) EXCEPT !.placed = onMap]]
          /\ key = IF "push columns" \in add THEN 1 ELSE NoKey
  /\ serving = NoKey
  /\ issued = 1
  /\ before = [products |-> products, users |-> users, tables |-> tables, key |-> key]
  /\ failed = {}
  /\ stops = 0 /\ faults = 0 /\ edits = 0

-----------------------------------------------------------------------------
(* A start begins, takes its steps, is cut.                                *)

BeginStart ==
  /\ at = "down"
  /\ at' = Steps[1] /\ todo' = Unread
  /\ before' = [products |-> products, users |-> users, tables |-> tables, key |-> key]
  /\ failed' = {}
  /\ UNCHANGED <<columns, rows, serving, issued, bounds>>

\* The process ends: by itself on a fatal error, or killed, at any point.
Stop ==
  /\ at # "down" /\ stops < MaxStops
  /\ stops' = stops + 1
  /\ at' = "down" /\ todo' = Unread /\ serving' = NoKey
  /\ UNCHANGED <<columns, rows, issued, before, failed, faults, edits>>

\* A step with the rest still to do, or done.
Go(step, rest) ==
  /\ at = step
  /\ at' = IF rest = <<>> THEN After(step) ELSE step
  /\ todo' = IF rest = <<>> THEN Unread ELSE rest

Doing(step) == at = step /\ todo # Unread
Needs(group) == group \in columns
Runs == UNCHANGED <<faults, failed>>
Fails(step) ==
  /\ faults < MaxErrors
  /\ faults' = faults + 1
  /\ failed' = failed \cup {step}

unmoved == <<serving, before, stops, edits>>

addColumnIfMissing(group) ==
  /\ Go(group, <<>>)
  /\ columns' = columns \cup {group}
  /\ Runs /\ UNCHANGED <<rows, issued, unmoved>>

CreateTables == addColumnIfMissing("create")
AddMenuColumns == addColumnIfMissing("menu columns")
AddStaffColumns == addColumnIfMissing("staff columns")
AddHoursColumns == addColumnIfMissing("hours columns")
AddPushColumns == addColumnIfMissing("push columns")
AddFloorColumns == addColumnIfMissing("floor columns")

-----------------------------------------------------------------------------
(* The menu.                                                               *)

FlattenAll(ps) == [p \in DOMAIN ps |-> [ps[p] EXCEPT !.category = ps[p].subcategory]]
Flatten(ps) ==
  [p \in DOMAIN ps |-> IF ps[p].subcategory = NoCategory THEN ps[p]
                       ELSE [ps[p] EXCEPT !.category = ps[p].subcategory]]

FlattenCategories ==
  /\ Go("flatten", <<>>) /\ Needs("menu columns")
  /\ products' = Flatten(products)
  /\ Runs /\ UNCHANGED <<columns, categories, users, tables, key, issued, unmoved>>

\* SELECT COUNT(*), its error not looked at: a count that fails is 0.
Count(step, empty, work) ==
  /\ todo = Unread
  /\ \/ Runs /\ Go(step, IF empty THEN work ELSE <<>>)
     \/ Fails(step) /\ Go(step, work)
  /\ UNCHANGED <<columns, rows, issued, unmoved>>

CountCategories == Count("categories", categories = {}, defaultCategories)

\* A category that cannot be made (it is there: names are unique) is skipped.
seedDefaultCategories ==
  /\ Doing("categories")
  /\ Go("categories", Tail(todo))
  /\ \/ Runs /\ categories' = categories \cup {Head(todo)}
     \/ Fails("categories") /\ UNCHANGED categories
  /\ UNCHANGED <<columns, products, users, tables, key, issued, unmoved>>

CountProducts == Count("menu", DOMAIN products = {}, egoMenu)

CreateProduct(ps, category) == With(ps, LastKey(ps) + 1, Product(category, NoCategory))

seedEGOMenu ==
  /\ Doing("menu")
  /\ Go("menu", Tail(todo))
  /\ \/ /\ Runs /\ Needs("menu columns") /\ Needs("hours columns")
        /\ products' = CreateProduct(products, Head(todo))
     \/ Fails("menu") /\ UNCHANGED products
  /\ UNCHANGED <<columns, categories, users, tables, key, issued, unmoved>>

-----------------------------------------------------------------------------
(* The accounts.                                                           *)

\* The accounts of the seed, in the order of a map: any.
ListDefaults ==
  /\ todo = Unread /\ \E order \in SetToSeqs(ToSet(seedUsers)) : Go("backfill", order)
  /\ Runs /\ UNCHANGED <<columns, rows, issued, unmoved>>

Published(u) == u \in DOMAIN users /\ users[u].default

\* An account that cannot be read is taken for one that is not there.
backfillMustChangePassword ==
  /\ Doing("backfill")
  /\ Go("backfill", Tail(todo))
  /\ \/ /\ Runs
        /\ users' = IF Needs("staff columns") /\ Published(Head(todo))
                    THEN [users EXCEPT ![Head(todo)].must = TRUE] ELSE users
     \/ Fails("backfill") /\ UNCHANGED users
  /\ UNCHANGED <<columns, categories, products, tables, key, issued, unmoved>>

CountUsers == Count("staff", DOMAIN users = {}, seedUsers)

SeededUser(u) == [default |-> u \in ToSet(seedUsers), must |-> TRUE]

NameTaken == Doing("staff") /\ Head(todo) \in DOMAIN users

seedDefaultUsers ==
  /\ Doing("staff") /\ Needs("staff columns")
  /\ ~NameTaken
  /\ Go("staff", Tail(todo))
  /\ users' = With(users, Head(todo), SeededUser(Head(todo)))
  /\ Runs /\ UNCHANGED <<columns, categories, products, tables, key, issued, unmoved>>

\* Usernames are unique; an account that cannot be made ends the process.
SeedingFails ==
  /\ NameTaken
  /\ at' = "down" /\ todo' = Unread
  /\ UNCHANGED <<columns, rows, serving, issued, before, failed, bounds>>

-----------------------------------------------------------------------------
(* The floor.                                                              *)

\* INSERT OR IGNORE with a new token, which is lost when the table is there.
InsertTable(n) ==
  /\ tables' = IF n \in DOMAIN tables THEN tables ELSE With(tables, n, Table(issued + 1))
  /\ issued' = IF n \in DOMAIN tables THEN issued ELSE issued + 1

\* The error of this one is not looked at.
SeedTableOne ==
  /\ Go("table 1", <<>>)
  /\ \/ Runs /\ Needs("floor columns") /\ InsertTable(1)
     \/ Fails("table 1") /\ UNCHANGED <<tables, issued>>
  /\ UNCHANGED <<columns, categories, products, users, key, unmoved>>

\* The statements of ApplyTableLayout, for each table of the preset, and
\* those that take a table out of online booking and off the map.
ApplyTableLayout(n) == <<<<"insert", n>>, <<"layout", n>>, <<"place", n>>>>
TakeOff(n) == <<<<"unbook", n>>, <<"unplace", n>>>>

ApplyEGOFloor ==
  FlattenSeq([i \in DOMAIN egoFloorPreset |-> ApplyTableLayout(egoFloorPreset[i])])
  \o FlattenSeq([i \in 1..Cardinality(DOMAIN tables \ ToSet(egoFloorPreset)) |->
                   TakeOff(SetToSortSeq(DOMAIN tables \ ToSet(egoFloorPreset), <)[i])])

CountPlaced == Count("floor", Placed(tables) = {}, ApplyEGOFloor)

FloorStatement(what, n) ==
  \/ what = "insert" /\ InsertTable(n)
  \/ what = "layout" /\ tables' = [tables EXCEPT ![n].bookable = TRUE] /\ UNCHANGED issued
  \/ what = "place" /\ tables' = [tables EXCEPT ![n].placed = TRUE] /\ UNCHANGED issued
  \/ what = "unbook" /\ tables' = [tables EXCEPT ![n].bookable = FALSE] /\ UNCHANGED issued
  \/ what = "unplace" /\ tables' = [tables EXCEPT ![n].placed = Unplaced] /\ UNCHANGED issued

\* An error ends the loading of the floor and the start goes on.
LoadFloor ==
  /\ Doing("floor")
  /\ \/ /\ Runs /\ Needs("floor columns")
        /\ Go("floor", Tail(todo)) /\ FloorStatement(Head(todo)[1], Head(todo)[2])
     \/ Fails("floor") /\ Go("floor", <<>>) /\ UNCHANGED <<tables, issued>>
  /\ UNCHANGED <<columns, categories, products, users, key, unmoved>>

Untokened == {n \in DOMAIN tables : tables[n].token = NoToken}

\* The tables come in no set order.
ListUntokened ==
  /\ todo = Unread /\ Needs("floor columns")
  /\ \E order \in SetToSeqs(Untokened) : Go("tokens", order)
  /\ Runs /\ UNCHANGED <<columns, rows, issued, unmoved>>

\* An error ends the process.
ensureTableTokens ==
  /\ Doing("tokens")
  /\ Go("tokens", Tail(todo))
  /\ tables' = [tables EXCEPT ![Head(todo)].token = issued + 1]
  /\ issued' = issued + 1
  /\ Runs /\ UNCHANGED <<columns, categories, products, users, key, unmoved>>

-----------------------------------------------------------------------------
(* The push key: read, or made and stored, and only then handed out.       *)

InitPush ==
  /\ at = "push" /\ at' = "up" /\ todo' = Unread
  /\ \/ Runs /\ key # NoKey /\ serving' = key /\ UNCHANGED <<key, issued>>
     \/ Runs /\ key = NoKey /\ key' = issued + 1 /\ serving' = issued + 1 /\ issued' = issued + 1
     \/ Fails("push") /\ serving' = NoKey /\ UNCHANGED <<key, issued>>
  /\ UNCHANGED <<columns, categories, products, users, tables, before, stops, edits>>

-----------------------------------------------------------------------------
(* What the admin changes while the server is up.                          *)

Edit ==
  /\ at = "up" /\ edits < MaxEdits
  /\ edits' = edits + 1
  /\ UNCHANGED <<at, todo, columns, categories, key, serving, before, failed, stops, faults>>

UpdateProduct(p) ==
  /\ Edit
  /\ \E c \in categories : products' = [products EXCEPT ![p].category = c]
  /\ UNCHANGED <<users, tables, issued>>
DeleteProduct(p) ==
  /\ Edit
  /\ products' = Without(products, p)
  /\ UNCHANGED <<users, tables, issued>>
SetUserPassword(u) ==
  /\ Edit
  /\ users' = [users EXCEPT ![u] = [default |-> FALSE, must |-> FALSE]]
  /\ UNCHANGED <<products, tables, issued>>
AdminAddSpot ==
  /\ Edit
  /\ tables' = With(tables, LastKey(tables) + 1, [Table(issued + 1) EXCEPT !.placed = TRUE])
  /\ issued' = issued + 1
  /\ UNCHANGED <<products, users>>
DeleteTable(n) ==
  /\ Edit
  /\ tables' = Without(tables, n)
  /\ UNCHANGED <<products, users, issued>>
RotateTableToken(n) ==
  /\ Edit
  /\ tables' = [tables EXCEPT ![n].token = issued + 1]
  /\ issued' = issued + 1
  /\ UNCHANGED <<products, users>>
SetTablePosition(n) ==
  /\ Edit /\ ~tables[n].placed
  /\ tables' = [tables EXCEPT ![n].placed = TRUE]
  /\ UNCHANGED <<products, users, issued>>

-----------------------------------------------------------------------------

InitDB ==
  \/ CreateTables \/ AddMenuColumns \/ FlattenCategories
  \/ CountCategories \/ seedDefaultCategories
  \/ AddStaffColumns \/ ListDefaults \/ backfillMustChangePassword
  \/ AddHoursColumns \/ AddPushColumns \/ AddFloorColumns
  \/ SeedTableOne \/ CountProducts \/ seedEGOMenu \/ CountUsers \/ seedDefaultUsers
  \/ SeedingFails
  \/ CountPlaced \/ LoadFloor \/ ListUntokened \/ ensureTableTokens

Edits ==
  \/ \E p \in DOMAIN products : UpdateProduct(p) \/ DeleteProduct(p)
  \/ \E u \in DOMAIN users : SetUserPassword(u)
  \/ \E n \in DOMAIN tables : DeleteTable(n) \/ RotateTableToken(n) \/ SetTablePosition(n)
  \/ AdminAddSpot

StartupNext == BeginStart \/ Stop \/ InitDB \/ InitPush \/ Edits

StartupSpec == StartupInit /\ [][StartupNext]_startupVars

-----------------------------------------------------------------------------
(* Properties.                                                             *)

\* However often earlier starts were cut or their statements failed, a
\* server that is up has every column; an account of the administrator, so
\* somebody can get in; a forced change on every account that still has the
\* published password, unless marking it failed in this very start; on every
\* table a QR code of its own; and hands phones the push key it has stored,
\* the one the next start will load.  No start ends for good over an account
\* that an earlier one seeded: unless its count failed, it seeds no name that
\* is taken.
StartsWhole ==
  /\ NameTaken => "staff" \in failed
  /\ at = "up" =>
       /\ columns = Groups
       /\ "admin" \in DOMAIN users
       /\ "backfill" \notin failed => \A u \in DOMAIN users : users[u].default => users[u].must
       /\ Untokened = {}
       /\ \A m, n \in DOMAIN tables : tables[m].token = tables[n].token => m = n
       /\ serving \in {NoKey, key}

\* What a start leaves of the rows it found: printed QR codes, the push key
\* the phones subscribed with, the accounts and their passwords, every
\* product; the category of a product that never had a subcategory.  Unless
\* its own count failed, it adds dishes only to an empty menu, and moves
\* tables or adds others than table 1 only when no table was on the map.
KeepsRows ==
  /\ \A n \in DOMAIN before.tables :
       n \in DOMAIN tables /\ tables[n].token \in {before.tables[n].token}
                                                  \cup {t \in 1..issued : before.tables[n].token = NoToken}
  /\ before.key # NoKey => key = before.key
  /\ \A u \in DOMAIN before.users :
       /\ u \in DOMAIN users /\ users[u].default = before.users[u].default
       /\ users[u].must # before.users[u].must => users[u].default
  /\ \A p \in DOMAIN before.products :
       /\ p \in DOMAIN products
       /\ before.products[p].subcategory = NoCategory => products[p] = before.products[p]
  /\ DOMAIN before.products # {} /\ "menu" \notin failed => DOMAIN products = DOMAIN before.products
  /\ Placed(before.tables) # {} /\ "floor" \notin failed =>
       /\ DOMAIN tables \subseteq DOMAIN before.tables \cup {1}
       /\ \A n \in DOMAIN before.tables :
            /\ tables[n].placed = before.tables[n].placed
            /\ tables[n].bookable = before.tables[n].bookable

\* Every statement of a start keeps what the admin put there.
StartsKeepEdits == [][at \notin {"down", "up"} => KeepsRows']_startupVars

\* A start leaves the category of a product alone once it is one of the
\* list's (the flattening is "the one-time migration", "safe to run every
\* startup: once category already equals subcategory there's nothing left to
\* change", db.go:283 and :300).
CategoryStays ==
  [][FlattenCategories => \A p \in DOMAIN products :
       products[p].category \in categories => products'[p].category = products[p].category]_startupVars

=============================================================================
