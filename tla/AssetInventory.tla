--------------------------- MODULE AssetInventory ---------------------------
(***************************************************************************)
(* The asset inventory (Pages/AssetsInventory.tsx): a sidebar of           *)
(* categories, one class per category that says how its assets are put     *)
(* into a table, a search field, and links from an asset to those of       *)
(* other categories.  Answers come in any order and are put into the table *)
(* by the class of the category that is current then.                      *)
(*                                                                         *)
(* An asset maps its fields to sets of strings: one for a text, any number *)
(* for a list.  A step that throws unmounts the whole application.         *)
(***************************************************************************)
EXTENDS AssetClasses, Requests, Sequences, Functions

CONSTANTS
    Inventory,  \* the assets of each category in the graph database
    Typed,      \* what is typed into the search field
    MaxAsks,    \* requests under way at once
    MaxFaults,  \* requests that fail
    Waits       \* whether the user waits for the answer

ConstantsFit ==
    /\ DOMAIN Inventory \subseteq Categories /\ "iamUsers" \in DOMAIN Inventory
    /\ MaxAsks \in Nat \ {0} /\ MaxFaults \in Nat /\ Waits \in BOOLEAN

-----------------------------------------------------------------------------
VARIABLES
    category,  \* assetCategory
    selected,  \* selectedSubItem of the sidebar
    filter,    \* searchFilter
    rows,      \* allTableRows: the class that built them, the category asked
    asks,      \* getAssetInventory requests under way, with their category
    crashed,   \* a render or an effect has thrown
    faults,
    meant      \* history: the search the user means, and by what: an item of
               \* the sidebar, typing, or a link, which is of a field

vars == <<category, selected, filter, rows, asks, crashed, faults, meant>>

NoRows(c) == [class |-> c, of |-> "none"]

FieldsOK ==
    /\ category \in DOMAIN Inventory /\ selected \in DOMAIN Inventory
    /\ rows \in [class: DOMAIN Inventory, of: DOMAIN Inventory \cup {"none"}]
    /\ IsABag(asks) /\ BagToSet(asks) \subseteq DOMAIN Inventory
    /\ crashed \in BOOLEAN /\ faults \in 0 .. MaxFaults
TypeOK == FieldsOK /\ UnderWay(asks) =< MaxAsks

\* An empty list is a nil slice in Go, and null in JSON.
AsJson(asset) == Restrict(asset, {f \in DOMAIN asset : asset[f] # {}})
Answer(c) == IF c = "none" THEN {} ELSE {AsJson(a) : a \in Inventory[c]}

ColumnsOf(class) == Range(assetToObjects[class].columns)
Value(column, asset) == UNION {asset[f] : f \in column.value \cap DOMAIN asset}
LinksOf(column, asset) ==
    IF column.to # "" /\ column.when \in DOMAIN asset
    THEN asset[column.lists] ELSE {}

Builds(class, asset) ==
    \A column \in ColumnsOf(class) :
        /\ column.built \subseteq DOMAIN asset
        /\ column.when \in DOMAIN asset => column.lists \in DOMAIN asset
Draws(class, asset) ==
    \A column \in ColumnsOf(class) : column.drawn \subseteq DOMAIN asset
HeadersDraw(class) ==
    /\ class \in Categories
    /\ Len(assetToObjects[class].header.keys) <= assetToObjects[class].header.css

searchFilterFunction(r, text) ==
    {a \in Answer(r.of) :
        text = "" \/ \E column \in ColumnsOf(r.class) : text \in Value(column, a)}
DisplayedRows == searchFilterFunction(rows, filter)

\* The first column of some classes is an array, and the search stops at its
\* first element that is null unless one before it matches.
Searches(class, asset, text) ==
    \A column \in ColumnsOf(class) : text # "" /\ "account_id" \in column.value =>
        /\ column.drawn \subseteq DOMAIN asset
        /\ "account_id" \in DOMAIN asset \/ \E f \in column.drawn : text \in asset[f]

\* The fields that the class of a category dereferences in its assets, and the
\* field of an instance's roles if it has a key pair: an asset that has them
\* can be shown in its own table.
Reads == [
    iamUsers |-> {"arn"}, iamGroups |-> {"arn"}, iamRoles |-> {"arn"}, iamPolicies |-> {"name"},
    ec2Instances |-> {"instance_id", "account_id"}, lambdaFunctions |-> {"name", "account_id"},
    s3Buckets |-> {"name", "account_id"},
    rdsInstances |-> {"user_identifier", "endpoint_address", "endpoint_port"},
    vpcs |-> {"id", "account_id"}, internetGateways |-> {"arn"},
    securityGroups |-> {"id", "name", "account_id"},
    elasticLoadBalancersV2 |-> {"dns_name", "account_id"}, kmsKeys |-> {"id", "account_id"}]
Showable(c, asset) ==
    /\ Reads[c] \subseteq DOMAIN asset
    /\ "key_pairs" \in DOMAIN asset => "iam_roles" \in DOMAIN asset

\* The fields of assets that name assets of another category, and the fields
\* by which these are named.
Refers == [iam_users |-> "iamUsers", iam_groups |-> "iamGroups", iam_roles |-> "iamRoles",
           iam_policies |-> "iamPolicies", vpc |-> "vpcs"]
IdOf == [iamUsers |-> "arn", iamGroups |-> "arn", iamRoles |-> "arn",
         iamPolicies |-> "id", vpcs |-> "id"]
HasId(asset, c, id) == IdOf[c] \in DOMAIN asset /\ id \in asset[IdOf[c]]

\* Rows r under search text: built, searched and drawn, or thrown.
Show(c, r, text) ==
    /\ rows' = r /\ filter' = text
    /\ crashed' = ~ /\ HeadersDraw(c)
                    /\ \A a \in Answer(r.of) : Builds(r.class, a) /\ Searches(r.class, a, text)
                    /\ \A a \in searchFilterFunction(r, text) : Draws(r.class, a)

Init ==
    /\ category = "iamUsers" /\ selected = "iamUsers" /\ filter = ""
    /\ rows = NoRows("iamUsers") /\ asks = SetToBag({"iamUsers"})
    /\ crashed = FALSE /\ faults = 0 /\ meant = [by |-> "item", text |-> ""]

MayAct == ~crashed /\ (Waits => asks = EmptyBag)

\* Mutant: the sidebar clears the search on every change.
ClearsAlways(c, item, text) == ""

\* The effect of the sidebar when it is told of category c: only a category
\* selected in it clears the search, one reached by a link keeps it.
Searched(c, item, text) == IF c = item THEN "" ELSE text

\* The effects of a new category: another class, a request, the sidebar.
GoTo(c, item, text) ==
    \/ /\ c = category
       /\ selected' = item /\ Show(c, rows, text)
       /\ UNCHANGED <<category, asks>>
    \/ /\ c # category /\ UnderWay(asks) < MaxAsks
       /\ category' = c /\ selected' = c
       /\ asks' = asks (+) SetToBag({c})
       /\ Show(c, rows, Searched(c, item, text))

navIndicesToItemName(menu, sub) == navigation[menu].children[sub]

ClickItem(menu, sub) ==
    LET c == navIndicesToItemName(menu, sub) IN
    /\ MayAct /\ navigation[menu].children[sub] \in DOMAIN Inventory
    /\ GoTo(c, c, filter)
    /\ meant' = IF c = category THEN meant ELSE [by |-> "item", text |-> ""]
    /\ UNCHANGED faults

\* A click on an asset in a list, or on the VPC of a row.
FollowLink ==
    /\ MayAct
    /\ \E asset \in DisplayedRows : \E column \in ColumnsOf(rows.class) :
       \E id \in LinksOf(column, asset) :
           /\ column.to \in DOMAIN Inventory
           /\ GoTo(column.to, selected, id)
           /\ meant' = [by |-> column.when, text |-> id]
    /\ UNCHANGED faults

handleSearchChange ==
    /\ MayAct
    /\ \E text \in Typed :
           /\ Show(category, rows, text) /\ meant' = [by |-> "typing", text |-> text]
    /\ UNCHANGED <<category, selected, asks, faults>>

getAllRows(c) ==
    /\ ~crashed
    /\ asks' = asks (-) SetToBag({c})
    /\ Show(category, [class |-> category, of |-> c], filter)
    /\ UNCHANGED <<category, selected, faults, meant>>

\* The message of the failure is kept and never shown.
AskFails(c) ==
    /\ ~crashed /\ faults < MaxFaults /\ faults' = faults + 1
    /\ asks' = asks (-) SetToBag({c})
    /\ Show(category, NoRows(category), filter)
    /\ UNCHANGED <<category, selected, meant>>

\* The page is loaded again; what is still under way is not heard of.
Reload ==
    /\ category' = "iamUsers" /\ selected' = "iamUsers" /\ filter' = ""
    /\ rows' = NoRows("iamUsers") /\ asks' = SetToBag({"iamUsers"})
    /\ crashed' = FALSE /\ meant' = [by |-> "item", text |-> ""]
    /\ UNCHANGED faults

Asked == BagToSet(asks)

Next ==
    \/ \E menu \in DOMAIN navigation : \E sub \in DOMAIN navigation[menu].children :
           ClickItem(menu, sub)
    \/ FollowLink \/ handleSearchChange \/ Reload
    \/ \E c \in Asked : getAllRows(c) \/ AskFails(c)

Spec == Init /\ [][Next]_vars

-----------------------------------------------------------------------------
Quiet == ~crashed /\ asks = EmptyBag
Settles == Quiet \/ crashed

\* The rows are of the class of the category, or an answer is still to come,
\* upon which they are built anew.
RowsInv ==
    /\ FieldsOK
    /\ asks = EmptyBag => rows.class = category

\* Whatever the order of clicks and answers, once all have come the rows
\* stand under the headers of their own class (AssetsInventory.tsx:120).
ColumnsUnderHeaders ==
    Quiet /\ DisplayedRows # {} =>
        LET columns == assetToObjects[rows.class].columns IN
        [i \in DOMAIN columns |-> columns[i].key] = assetToObjects[category].header.keys

\* The search is what the user last meant: nothing after an item of the
\* sidebar, the asset after a link, and the sidebar follows (SideBarNav.tsx:29).
FilterAsMeant == ~crashed => filter = meant.text /\ selected = category

\* The table holds the assets of the category: for a user who waits and
\* requests that do not fail; refuted otherwise.
TableShowsCategory == Quiet => rows = [class |-> category, of |-> category]

\* A link leads to the asset that the field names, if the graph has it; those
\* of the key pairs of EC2 name nothing the inventory lists.
LinkFindsAsset ==
    Quiet /\ meant.by \in DOMAIN Refers =>
        LET c == Refers[meant.by] IN
        \A a \in Answer(c) : HasId(a, c, meant.text) =>
            a \in DisplayedRows /\ rows.of = c

\* Only assets that lack what the class of their own category reads make the
\* page throw, such as a database without an endpoint and an instance with
\* keys but no role.
CrashHasReason == crashed => \E a \in Answer(rows.of) : ~Showable(rows.of, a)
=============================================================================
