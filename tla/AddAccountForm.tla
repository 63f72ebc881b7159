--------------------------- MODULE AddAccountForm ---------------------------
(***************************************************************************)
(* The form that registers an account (AddNewAccount.tsx) and the handler  *)
(* behind it (ManualAddAccountDetails).  The list of profiles comes late   *)
(* or not at all, fields change while a request is on the way, and an      *)
(* answer may be lost after the row is stored, so that users try again.    *)
(* They may also leave the form, of which a new one is mounted when they   *)
(* come back; the handler of the old one runs on and switches the tab.     *)
(***************************************************************************)
EXTENDS Naturals, FiniteSets

CONSTANTS
    Names,       \* account names a user may type
    Profiles,    \* named profiles of the server
    First,       \* the profile the server lists first
    Regions,     \* regions on offer besides All Regions
    Slots,       \* submissions that may be under way at once
    Faults       \* requests that may fail or lose their answer

All == "All Regions"

ConstantsFit ==
    /\ Names # {} /\ First \in Profiles /\ "" \notin Profiles
    /\ All \notin Regions /\ Faults \in Nat

VARIABLES
    form,      \* the fields of the form displayed, or of the next one
    profiles,  \* awsProfiles, the options of the profile field
    asked,     \* the request for the profiles is on the way
    loading, message,
    request,   \* the submissions on the way, at the server or on their way back
    tab,       \* of the settings page; "none" on other pages
    rows,      \* account_details, by name
    faults

Tabs == {"Add New Account", "Connected Accounts"}
Form == [name: Names, method: {"profile", "access_key"}, profile: Profiles \cup {""},
         key: {"", "key"}, regions: SUBSET (Regions \cup {All})]
NoRow == [stored |-> FALSE]
Details == [stored: {TRUE}, method: {"profile", "access_key"}, profile: Profiles \cup {""},
            key: {"", "key"}, regions: SUBSET (Regions \cup {All})]
NoRequest == [at |-> "none"]

\* Whose handler awaits the answer: the form displayed, one that was left but
\* whose settings page is still there, or one of a page that is gone too.
Requests == [at: {"server", "answered"}, of: {"form", "settings", "gone"},
             name: Names, details: Details, error: {"", "error"}]

vars == <<form, profiles, asked, loading, message, request, tab, rows, faults>>

TypeOK ==
    /\ form \in Form
    /\ profiles \in {{}, Profiles}
    /\ asked \in BOOLEAN /\ loading \in BOOLEAN
    /\ message \in {"", "error", "The Regions dropdown cannot be empty."}
    /\ request \in [Slots -> {NoRequest} \cup Requests]
    /\ tab \in Tabs \cup {"none"}
    /\ rows \in [Names -> {NoRow} \cup Details]
    /\ faults \in 0..Faults

Fresh == [name |-> CHOOSE n \in Names : TRUE, method |-> "profile", profile |-> "",
          key |-> "", regions |-> {All}]

Init ==
    /\ form = Fresh /\ profiles = {} /\ asked = TRUE
    /\ loading = FALSE /\ message = "" /\ request = [s \in Slots |-> NoRequest]
    /\ tab = "Add New Account" /\ rows = [n \in Names |-> NoRow] /\ faults = 0

-----------------------------------------------------------------------------
\* The profiles of the server, of which the first one is chosen.
getAwsProfiles ==
    /\ asked /\ asked' = FALSE /\ tab = "Add New Account"
    /\ \/ profiles' = Profiles /\ form' = [form EXCEPT !.profile = First] /\ UNCHANGED faults
       \/ faults < Faults /\ faults' = faults + 1 /\ UNCHANGED <<profiles, form>>
    /\ UNCHANGED <<loading, message, request, tab, rows>>

Set(field, values) ==
    \E v \in values : v # form[field] /\ form' = [form EXCEPT ![field] = v]

\* All Regions replaces what was chosen, and disables the others.
PickRegion ==
    \/ \E r \in Regions : form.regions # {All} /\ r \notin form.regions
        /\ form' = [form EXCEPT !.regions = @ \cup {r}]
    \/ All \notin form.regions /\ form' = [form EXCEPT !.regions = {All}]

DropRegion == \E r \in form.regions : form' = [form EXCEPT !.regions = @ \ {r}]

\* The fields of the other method are hidden, and keep what was entered.
Edit ==
    /\ tab = "Add New Account"
    /\ \/ Set("name", Names) \/ Set("method", {"profile", "access_key"})
       \/ form.method = "profile" /\ Set("profile", profiles)
       \/ form.method = "access_key" /\ Set("key", {"key"})
       \/ PickRegion \/ DropRegion
    /\ UNCHANGED <<profiles, asked, loading, message, request, tab, rows, faults>>

\* Mutant: the whole form is sent, the hidden fields too.
SentWhole(f) == [stored |-> TRUE, method |-> f.method, regions |-> f.regions,
                 profile |-> f.profile, key |-> f.key]

\* What is sent: the credentials of the chosen method.
addAccountDetails(f) ==
    [stored |-> TRUE, method |-> f.method, regions |-> f.regions,
     profile |-> IF f.method = "profile" THEN f.profile ELSE "",
     key     |-> IF f.method = "access_key" THEN f.key ELSE ""]

Post(s) ==
    /\ request[s] = NoRequest
    /\ loading' = TRUE /\ UNCHANGED message
    /\ request' = [request EXCEPT ![s] =
           [at |-> "server", of |-> "form", name |-> form.name,
            details |-> addAccountDetails(form), error |-> ""]]

onSubmit ==
    /\ tab = "Add New Account" /\ ~loading
    /\ \/ /\ form.regions = {} /\ message' = "The Regions dropdown cannot be empty."
          /\ UNCHANGED <<loading, request>>
       \/ form.regions # {} /\ \E s \in Slots : Post(s)
    /\ UNCHANGED <<form, profiles, asked, tab, rows, faults>>

\* Mutant: a row of the same name is replaced.
AcceptsAgain(n, details) == details.method = "profile" => details.profile \in Profiles

\* ManualAddAccountDetails: a profile must exist and a name be new.
Accepts(n, details) ==
    /\ details.method = "profile" => details.profile \in Profiles
    /\ rows[n] = NoRow

\* The handler stores the credentials of the method only, as well.
Stored(details) ==
    IF details.method = "profile" THEN [details EXCEPT !.key = ""]
    ELSE [details EXCEPT !.profile = ""]

\* An answer to a page that is gone finds nobody.
Reply(s, error) ==
    request' = [request EXCEPT ![s] = IF @.of = "gone" THEN NoRequest
                                      ELSE [@ EXCEPT !.at = "answered", !.error = error]]
Fault == faults < Faults /\ faults' = faults + 1

\* A request is accepted, although its answer may be lost on the way back,
\* refused, or fails: it does not reach the server, the profiles cannot be
\* listed, or the database returns an error, and nothing is stored.
Serve(s) ==
    /\ request[s].at = "server"
    /\ LET n == request[s].name
           details == request[s].details IN
       \/ /\ Accepts(n, details) /\ rows' = [rows EXCEPT ![n] = Stored(details)]
          /\ \/ Reply(s, "") /\ UNCHANGED faults
             \/ Reply(s, "error") /\ Fault
       \/ ~Accepts(n, details) /\ Reply(s, "error") /\ UNCHANGED <<rows, faults>>
       \/ Reply(s, "error") /\ Fault /\ UNCHANGED rows
    /\ UNCHANGED <<form, profiles, asked, loading, message, tab>>

\* What is left to handlers once a form is gone, and once the settings page
\* is; and what the next form starts from.
Outlived(r, by) ==
    CASE r = NoRequest -> r
      [] r # NoRequest /\ by = "gone" /\ r.at = "answered" -> NoRequest
      [] OTHER -> [r EXCEPT !.of = IF @ = "gone" THEN @ ELSE by]
Orphaned(by) == [s \in Slots |-> Outlived(request[s], by)]
Unmount ==
    /\ form' = Fresh /\ profiles' = {} /\ asked' = FALSE
    /\ loading' = FALSE /\ message' = ""

\* Another tab, or another page, whatever is under way; and a new form.
SwitchTab(t) ==
    /\ tab # "none" /\ tab' = t /\ t # tab
    /\ IF t = "Add New Account"
       THEN asked' = TRUE /\ UNCHANGED <<form, profiles, loading, message, request>>
       ELSE Unmount /\ request' = Orphaned("settings")
    /\ UNCHANGED <<rows, faults>>

LeavePage ==
    /\ tab # "none" /\ tab' = "none"
    /\ Unmount /\ request' = Orphaned("gone")
    /\ UNCHANGED <<rows, faults>>

OpenSettings(t) ==
    /\ tab = "none" /\ tab' = t /\ asked' = (t = "Add New Account")
    /\ UNCHANGED <<form, profiles, loading, message, request, rows, faults>>

\* An error is a message of the form, if that is still there.
ShowError(s) ==
    /\ request[s].error # ""
    /\ IF request[s].of = "form" THEN message' = request[s].error /\ loading' = FALSE
       ELSE UNCHANGED <<message, loading>>
    /\ request' = [request EXCEPT ![s] = NoRequest]
    /\ UNCHANGED <<form, profiles, asked, tab>>

\* onSubmitCallback changes the tab of the settings page it comes from, and
\* the form displayed there is gone, that of another submission as well.
LeaveForm(s) ==
    /\ request[s].error = ""
    /\ IF tab = "Add New Account" /\ request[s].of # "gone"
       THEN /\ tab' = "Connected Accounts" /\ Unmount
            /\ request' = [Orphaned("settings") EXCEPT ![s] = NoRequest]
       ELSE /\ request' = [request EXCEPT ![s] = NoRequest]
            /\ UNCHANGED <<form, profiles, asked, loading, message, tab>>

Answer(s) ==
    /\ request[s].at = "answered"
    /\ ShowError(s) \/ LeaveForm(s)
    /\ UNCHANGED <<rows, faults>>

Next ==
    \/ getAwsProfiles \/ Edit \/ onSubmit \/ LeavePage
    \/ \E s \in Slots : Serve(s) \/ Answer(s)
    \/ \E t \in Tabs : SwitchTab(t) \/ OpenSettings(t)

Spec == Init /\ [][Next]_vars

-----------------------------------------------------------------------------
\* Every account has regions to scan, All Regions only by itself, and a
\* profile that exists if it is to be scanned with one.  Nobody checks access
\* keys: accounts whose keys are empty are stored, and cannot be scanned.
RegionsAndProfilesFit ==
    \A n \in Names : rows[n] # NoRow =>
        /\ rows[n].regions # {}
        /\ All \in rows[n].regions => rows[n].regions = {All}
        /\ rows[n].method = "profile" => rows[n].profile \in Profiles

\* Credentials of the other method, typed and then hidden, are not sent.
HiddenStaysHere ==
    \A s \in Slots : request[s].at = "server" =>
        /\ request[s].details.method = "profile" => request[s].details.key = ""
        /\ request[s].details.method = "access_key" => request[s].details.profile = ""

\* The button of a form waits for the submission of that form, and not for
\* those of forms that were left, whose answers do not free it either.
WaitsForItsOwn ==
    loading <=> \E s \in Slots : request[s] # NoRequest /\ request[s].of = "form"

\* (Of a step.) A retry, after an answer that was lost and with fields that
\* have changed, or of a form that was left and one beside it, never
\* overwrites what was stored first.
FirstAttemptStands == \A n \in Names : rows[n] # NoRow => rows'[n] = rows[n]

\* (Of a step.) Of the submissions of one name, however they overlap, only
\* the one whose details are stored is told that it succeeded.
OnlyOneIsTold ==
    \A s \in Slots :
        request[s].at = "server" /\ request'[s].at = "answered" /\ request'[s].error = ""
            => /\ rows[request[s].name] = NoRow
               /\ rows'[request[s].name] = request[s].details

\* (Of a step.) An answer changes the tab only if the account it is about is
\* stored as it was submitted, and its settings page is the one displayed. The
\* form it takes away may be a later one.
LeftMeansStored ==
    \A s \in Slots :
        (/\ request[s].at = "answered" /\ request'[s] = NoRequest
         /\ tab = "Add New Account" /\ tab' = "Connected Accounts")
            => /\ rows[request[s].name] = request[s].details
               /\ request[s].error = "" /\ request[s].of # "gone"

\* The button of the form waits for an answer.
Submitting == loading
=============================================================================
