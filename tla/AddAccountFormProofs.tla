------------------------- MODULE AddAccountFormProofs -------------------------
(***************************************************************************)
(* What the form that registers an account guarantees, for every set of    *)
(* names, profiles and regions, however many submissions overlap, whenever *)
(* the form is left, and however many requests fail or lose their answer.  *)
(* The backend checks the profile and the name only: that regions are      *)
(* there, and that All Regions stands alone, is a property of what the     *)
(* fields can hold, which has to survive the way through the request to    *)
(* the row.  Access keys are checked nowhere, and nothing is proved of     *)
(* them but that they are not sent for a profile.                          *)
(***************************************************************************)
EXTENDS AddAccountForm, TLAPS

(* Regions as the field may hold them: All Regions by itself, or any       *)
(* others; and as they may be sent: not empty.                             *)
AllAlone(regions) == All \in regions => regions = {All}

FitToSend(details) ==
    /\ details.regions # {} /\ AllAlone(details.regions)
    /\ details.method = "profile" => details.key = ""
    /\ details.method = "access_key" => details.profile = ""

(* A request carries the credentials of one method only, and regions; an   *)
(* answer without an error means that the row is what was sent.            *)
Honest(r) ==
    r # NoRequest =>
        /\ FitToSend(r.details)
        /\ r.at = "answered" /\ r.error = "" => rows[r.name] = r.details
RequestInv == \A s \in Slots : Honest(request[s])

(* The form displayed has one submission at most, and waits while it has.  *)
Own(r) == r # NoRequest /\ r.of = "form"
ButtonInv ==
    /\ WaitsForItsOwn
    /\ loading => tab = "Add New Account"
    /\ \A s, t \in Slots : Own(request[s]) /\ Own(request[t]) => s = t

FormInv ==
    /\ TypeOK
    /\ AllAlone(form.regions)
    /\ RequestInv
    /\ ButtonInv
    /\ RegionsAndProfilesFit

-----------------------------------------------------------------------------
(* The constants, one by one; and a request that is under way.             *)
LEMMA Constants ==
    ConstantsFit => First \in Profiles /\ All \notin Regions /\ Faults \in Nat /\ Names # {}
  BY DEF ConstantsFit

LEMMA FaultsAreCounted ==
    ASSUME ConstantsFit, TypeOK, faults' = faults \/ (faults < Faults /\ faults' = faults + 1)
    PROVE  faults' \in 0 .. Faults
  <1>1. Faults \in Nat /\ faults \in 0 .. Faults
    BY Constants DEF TypeOK
  <1> QED
    BY <1>1

LEMMA UnderWay ==
    ASSUME NEW r \in {NoRequest} \cup Requests, r.at \in {"server", "answered"}
    PROVE  r # NoRequest /\ r \in Requests
  BY DEF NoRequest

LEMMA NoneUnderWay == NoRequest.at = "none"
  BY DEF NoRequest

LEMMA DetailsAreStored == ASSUME NEW details \in Details PROVE details # NoRow
  <1>1. details.stored = TRUE
    BY DEF Details
  <1>2. NoRow.stored = FALSE
    BY DEF NoRow
  <1> QED
    BY <1>1, <1>2

LEMMA Typed == TypeOK => \A s \in Slots : request[s] \in {NoRequest} \cup Requests
  BY DEF TypeOK

LEMMA FreshFits == ConstantsFit => Fresh \in Form /\ AllAlone(Fresh.regions)
  BY Constants DEF Fresh, Form, AllAlone

(* What is said of the button depends on which requests are the form's.    *)
LEMMA SameButton ==
    ASSUME ButtonInv, UNCHANGED <<loading, tab>>,
           \A s \in Slots : Own(request[s])' <=> Own(request[s])
    PROVE  ButtonInv'
  BY DEF ButtonInv, WaitsForItsOwn, Own

LEMMA NobodyWaits ==
    ASSUME ~loading', \A s \in Slots : ~Own(request[s])'
    PROVE  ButtonInv'
  BY DEF ButtonInv, WaitsForItsOwn, Own

LEMMA FormInit == ConstantsFit /\ Init => FormInv
  <1> SUFFICES ASSUME ConstantsFit, Init PROVE FormInv
    OBVIOUS
  <1> USE DEF Init
  <1>1. form \in Form /\ AllAlone(form.regions)
    BY FreshFits
  <1>2. faults \in 0 .. Faults
    <2>1. Faults \in Nat /\ faults = 0
      BY Constants
    <2> QED
      BY ONLY <2>1
  <1>3. TypeOK
    BY <1>1, <1>2 DEF TypeOK, Tabs
  <1>4. RequestInv /\ ButtonInv /\ RegionsAndProfilesFit
    BY DEF RequestInv, Honest, ButtonInv, WaitsForItsOwn, Own, RegionsAndProfilesFit
  <1> QED
    BY <1>1, <1>3, <1>4 DEF FormInv

LEMMA ProfilesArrive == ConstantsFit /\ FormInv /\ getAwsProfiles => FormInv'
  <1> SUFFICES ASSUME ConstantsFit, FormInv, getAwsProfiles PROVE FormInv'
    OBVIOUS
  <1> USE DEF FormInv, getAwsProfiles
  <1>1. form' \in Form /\ form'.regions = form.regions
    BY Constants DEF TypeOK, Form
  <1>2. faults' \in 0 .. Faults
    BY FaultsAreCounted
  <1>3. profiles' \in {{}, Profiles} /\ asked' \in BOOLEAN
    BY DEF TypeOK
  <1>4. TypeOK'
    BY <1>1, <1>2, <1>3 DEF TypeOK
  <1>5. RequestInv' /\ RegionsAndProfilesFit'
    BY DEF RequestInv, Honest, RegionsAndProfilesFit
  <1>6. ButtonInv'
    BY SameButton DEF Own
  <1> QED
    BY <1>1, <1>4, <1>5, <1>6

LEMMA Edits == ConstantsFit /\ FormInv /\ Edit => FormInv'
  <1> SUFFICES ASSUME ConstantsFit, FormInv, Edit PROVE FormInv'
    OBVIOUS
  <1> USE DEF FormInv
  <1>1. UNCHANGED <<profiles, asked, loading, message, request, tab, rows, faults>>
    BY DEF Edit
  <1>2. form \in Form /\ profiles \subseteq Profiles /\ AllAlone(form.regions)
    BY DEF TypeOK
  <1>3. form' \in Form /\ AllAlone(form'.regions)
    <2>1. CASE Set("name", Names)
      BY <2>1, <1>2 DEF Set, Form
    <2>2. CASE Set("method", {"profile", "access_key"})
      BY <2>2, <1>2 DEF Set, Form
    <2>3. CASE Set("profile", profiles)
      BY <2>3, <1>2 DEF Set, Form
    <2>4. CASE Set("key", {"key"})
      BY <2>4, <1>2 DEF Set, Form
    <2>5. CASE PickRegion
      <3>1. ASSUME NEW r \in Regions, form.regions # {All},
                   form' = [form EXCEPT !.regions = @ \cup {r}]
            PROVE  form' \in Form /\ AllAlone(form'.regions)
        <4>1. r # All /\ All \notin form.regions
          BY <3>1, <1>2, Constants DEF AllAlone
        <4> QED
          BY <3>1, <4>1, <1>2 DEF Form, AllAlone
      <3>2. ASSUME form' = [form EXCEPT !.regions = {All}]
            PROVE  form' \in Form /\ AllAlone(form'.regions)
        BY <3>2, <1>2 DEF Form, AllAlone
      <3> QED
        BY <2>5, <3>1, <3>2 DEF PickRegion
    <2>6. CASE DropRegion
      BY <2>6, <1>2 DEF DropRegion, Form, AllAlone
    <2> QED
      BY <2>1, <2>2, <2>3, <2>4, <2>5, <2>6 DEF Edit
  <1>4. TypeOK'
    BY <1>1, <1>3 DEF TypeOK
  <1>5. RequestInv' /\ RegionsAndProfilesFit'
    BY <1>1 DEF RequestInv, Honest, RegionsAndProfilesFit
  <1>6. ButtonInv'
    BY <1>1, SameButton DEF Own
  <1> QED
    BY <1>3, <1>4, <1>5, <1>6

LEMMA Submits == FormInv /\ onSubmit => FormInv'
  <1> SUFFICES ASSUME FormInv, onSubmit PROVE FormInv'
    OBVIOUS
  <1> USE DEF FormInv
  <1>1. UNCHANGED <<form, profiles, asked, tab, rows, faults>>
    BY DEF onSubmit
  <1>2. CASE form.regions = {}
    <2>1. UNCHANGED <<loading, request>> /\ message' = "The Regions dropdown cannot be empty."
      BY <1>2 DEF onSubmit
    <2>2. ButtonInv'
      BY <1>1, <2>1, SameButton DEF Own
    <2> QED
      BY <1>1, <2>1, <2>2 DEF TypeOK, RequestInv, Honest, RegionsAndProfilesFit
  <1>3. CASE form.regions # {}
    <2> DEFINE new == [at |-> "server", of |-> "form", name |-> form.name,
                       details |-> addAccountDetails(form), error |-> ""]
    <2>1. PICK s \in Slots :
            /\ request[s] = NoRequest /\ loading' = TRUE /\ UNCHANGED message
            /\ request' = [request EXCEPT ![s] = new]
      BY <1>3 DEF onSubmit, Post
    <2>2. addAccountDetails(form) \in Details /\ form.name \in Names
      BY DEF TypeOK, Form, Details, addAccountDetails
    <2>3. FitToSend(addAccountDetails(form))
      BY <1>3 DEF FitToSend, addAccountDetails
    <2>4. new \in Requests /\ new.at = "server" /\ new.of = "form" /\ FitToSend(new.details)
      BY <2>2, <2>3 DEF Requests
    <2>5. new # NoRequest
      BY <2>4 DEF NoRequest
    <2> HIDE DEF new
    <2>6. \A t \in Slots : request'[t] = IF t = s THEN new ELSE request[t]
      BY <2>1 DEF TypeOK
    <2>7. request' \in [Slots -> {NoRequest} \cup Requests]
      BY <2>1, <2>4 DEF TypeOK
    <2>8. TypeOK'
      BY <1>1, <2>1, <2>7 DEF TypeOK
    <2>9. RequestInv'
      BY <1>1, <2>4, <2>6 DEF RequestInv, Honest
    <2>10. tab = "Add New Account" /\ ~loading
      BY DEF onSubmit
    <2>11. \A t \in Slots : Own(request'[t]) <=> t = s
      BY <2>4, <2>5, <2>6, <2>10 DEF ButtonInv, WaitsForItsOwn, Own
    <2>12. ButtonInv'
      BY <1>1, <2>1, <2>10, <2>11 DEF ButtonInv, WaitsForItsOwn, Own
    <2> QED
      BY <1>1, <2>8, <2>9, <2>12 DEF RegionsAndProfilesFit
  <1> QED
    BY <1>2, <1>3

(* What the handler stores of a request is the request.                    *)
LEMMA StoredAsSent ==
    ASSUME NEW details \in Details, FitToSend(details)
    PROVE  Stored(details) = details
  BY DEF Stored, FitToSend, Details

(* The steps of the server for a slot, in one form: the row is stored or   *)
(* not, and an answer without an error has its row.                        *)
LEMMA Served ==
    ASSUME FormInv, NEW s \in Slots, Serve(s)
    PROVE  /\ request[s] \in Requests /\ request[s] # NoRequest
           /\ request[s].name \in Names /\ request[s].details \in Details
           /\ FitToSend(request[s].details)
           /\ UNCHANGED <<form, profiles, asked, loading, message, tab>>
           /\ faults' = faults \/ (faults < Faults /\ faults' = faults + 1)
           /\ \/ /\ Accepts(request[s].name, request[s].details)
                 /\ rows' = [rows EXCEPT ![request[s].name] = request[s].details]
              \/ UNCHANGED rows
           /\ \E error \in {"", "error"} :
                 /\ Reply(s, error)
                 /\ error = "" =>
                       /\ Accepts(request[s].name, request[s].details)
                       /\ rows' = [rows EXCEPT ![request[s].name] = request[s].details]
  <1>1. request[s].at = "server" /\ request[s] \in {NoRequest} \cup Requests
    BY DEF Serve, FormInv, TypeOK
  <1>2. request[s] \in Requests /\ request[s] # NoRequest
    BY <1>1, UnderWay
  <1>3. request[s].name \in Names /\ request[s].details \in Details
    BY <1>2 DEF Requests
  <1>4. FitToSend(request[s].details)
    BY <1>2 DEF FormInv, RequestInv, Honest
  <1>5. Stored(request[s].details) = request[s].details
    BY <1>3, <1>4, StoredAsSent
  <1> QED
    BY <1>2, <1>3, <1>4, <1>5 DEF Serve, Fault

LEMMA Replied ==
    ASSUME TypeOK, NEW s \in Slots, NEW error \in {"", "error"}, Reply(s, error),
           request[s] \in Requests
    PROVE  /\ request' \in [Slots -> {NoRequest} \cup Requests]
           /\ \A t \in Slots \ {s} : request'[t] = request[t]
           /\ request[s].of = "gone" => request'[s] = NoRequest
           /\ request[s].of # "gone" =>
                 /\ request'[s] \in Requests
                 /\ request'[s].of = request[s].of /\ request'[s].at = "answered"
                 /\ request'[s].name = request[s].name /\ request'[s].error = error
                 /\ request'[s].details = request[s].details
  <1> DEFINE r == request[s]
             q == [r EXCEPT !.at = "answered", !.error = error]
  <1>1. /\ q \in Requests
        /\ q.of = r.of /\ q.at = "answered" /\ q.name = r.name
        /\ q.error = error /\ q.details = r.details
    BY DEF Requests
  <1>2. request' = [request EXCEPT ![s] = IF r.of = "gone" THEN NoRequest ELSE q]
    BY DEF Reply
  <1> HIDE DEF r, q
  <1>3. request \in [Slots -> {NoRequest} \cup Requests]
    BY DEF TypeOK
  <1>4. /\ request' \in [Slots -> {NoRequest} \cup Requests]
        /\ \A t \in Slots \ {s} : request'[t] = request[t]
        /\ request'[s] = IF r.of = "gone" THEN NoRequest ELSE q
    BY <1>1, <1>2, <1>3
  <1> QED
    BY <1>1, <1>4 DEF r

LEMMA Serves == ASSUME ConstantsFit, FormInv, NEW s \in Slots, Serve(s) PROVE FormInv'
  <1> DEFINE n == request[s].name
             d == request[s].details
             ok == Accepts(n, d)
  <1>1. /\ request[s] \in Requests /\ request[s] # NoRequest /\ n \in Names /\ d \in Details
        /\ FitToSend(d) /\ UNCHANGED <<form, profiles, asked, loading, message, tab>>
        /\ (ok /\ rows' = [rows EXCEPT ![n] = d]) \/ UNCHANGED rows
    BY Served
  <1>2. PICK error \in {"", "error"} :
          Reply(s, error) /\ (error = "" => ok /\ rows' = [rows EXCEPT ![n] = d])
    BY Served
  <1>3. TypeOK /\ request \in [Slots -> {NoRequest} \cup Requests]
    BY DEF FormInv, TypeOK
  <1>4. /\ request' \in [Slots -> {NoRequest} \cup Requests]
        /\ \A t \in Slots \ {s} : request'[t] = request[t]
        /\ request[s].of = "gone" => request'[s] = NoRequest
        /\ request[s].of # "gone" =>
              /\ request'[s] \in Requests
              /\ request'[s].of = request[s].of /\ request'[s].at = "answered"
              /\ request'[s].name = n /\ request'[s].error = error
              /\ request'[s].details = d
    BY <1>1, <1>2, <1>3, Replied
  <1>5. faults' \in 0 .. Faults
    BY <1>3, Served, FaultsAreCounted
  <1>6. rows \in [Names -> {NoRow} \cup Details] /\ rows' \in [Names -> {NoRow} \cup Details]
    BY <1>1, <1>3 DEF TypeOK
  <1>7. TypeOK'
    BY <1>1, <1>3, <1>4, <1>5, <1>6 DEF TypeOK
  <1>8. \A m \in Names : rows[m] # NoRow => rows'[m] = rows[m]
    BY <1>1, <1>6 DEF Accepts
  <1>9. RequestInv'
    <2> SUFFICES ASSUME NEW t \in Slots PROVE Honest(request[t])'
      BY DEF RequestInv
    <2>1. Honest(request[t])
      BY DEF FormInv, RequestInv
    <2>2. CASE t = s
      <3>1. error = "" => rows'[n] = d
        BY <1>1, <1>2, <1>6
      <3> QED
        BY <2>2, <1>1, <1>4, <3>1 DEF Honest
    <2>3. CASE t # s /\ request[t] # NoRequest
      <3>1. request'[t] = request[t] /\ request[t] \in Requests
        BY <2>3, <1>3, <1>4
      <3>2. request[t].name \in Names /\ request[t].details # NoRow
        BY <3>1, DetailsAreStored DEF Requests
      <3> QED
        BY <2>1, <2>3, <3>1, <3>2, <1>8 DEF Honest
    <2>4. CASE t # s /\ request[t] = NoRequest
      BY <2>4, <1>4 DEF Honest
    <2> QED
      BY <2>2, <2>3, <2>4
  <1>10. ButtonInv'
    <2>1. \A t \in Slots : Own(request[t])' <=> Own(request[t])
      <3>1. NoRequest \notin Requests
        BY DEF NoRequest, Requests
      <3> QED
        BY <1>1, <1>4, <3>1 DEF Own
    <2> QED
      BY <1>1, <2>1, SameButton DEF FormInv
  <1>11. RegionsAndProfilesFit'
    <2> SUFFICES ASSUME NEW m \in Names, rows'[m] # NoRow
                 PROVE  /\ rows'[m].regions # {}
                        /\ All \in rows'[m].regions => rows'[m].regions = {All}
                        /\ rows'[m].method = "profile" => rows'[m].profile \in Profiles
      BY DEF RegionsAndProfilesFit
    <2>1. CASE rows'[m] = rows[m]
      BY <2>1 DEF FormInv, RegionsAndProfilesFit
    <2>2. CASE rows'[m] # rows[m]
      <3>1. ok /\ m = n /\ rows'[m] = d
        BY <2>2, <1>1, <1>6
      <3>2. d.method = "profile" => d.profile \in Profiles
        BY <3>1 DEF Accepts
      <3> QED
        BY <1>1, <3>1, <3>2 DEF FitToSend, AllAlone
    <2> QED
      BY <2>1, <2>2
  <1>12. AllAlone(form'.regions)
    BY <1>1 DEF FormInv
  <1> QED
    BY <1>7, <1>9, <1>10, <1>11, <1>12 DEF FormInv

(* Once a form is gone its requests, or what is left of them, are as       *)
(* honest as before, and none of them is the form's.                       *)
LEMMA Orphans ==
    ASSUME FormInv, NEW by \in {"settings", "gone"}, NEW s \in Slots
    PROVE  /\ Outlived(request[s], by) \in {NoRequest} \cup Requests
           /\ Honest(Outlived(request[s], by)) /\ ~Own(Outlived(request[s], by))
  <1> DEFINE r == request[s]
             q == [r EXCEPT !.of = IF @ = "gone" THEN @ ELSE by]
  <1>1. r \in {NoRequest} \cup Requests /\ Honest(r)
    BY DEF FormInv, TypeOK, RequestInv
  <1>2. CASE Outlived(r, by) = NoRequest
    BY <1>2 DEF Honest, Own
  <1>3. CASE Outlived(r, by) # NoRequest
    <2>1. r # NoRequest /\ r \in Requests /\ Outlived(r, by) = q
      BY <1>1, <1>3 DEF Outlived
    <2>2. q \in Requests /\ q.of # "form" /\ q.name = r.name /\ q.details = r.details
          /\ q.at = r.at /\ q.error = r.error
      BY <2>1 DEF Requests
    <2>3. Honest(r) /\ r # NoRequest
      BY <1>1, <2>1
    <2> HIDE DEF q, r
    <2>4. q \in Requests /\ Honest(q) /\ ~Own(q)
      BY <2>2, <2>3 DEF Honest, Own
    <2>5. Outlived(r, by) = q
      BY <2>1 DEF q, r
    <2>6. Outlived(r, by) \in {NoRequest} \cup Requests
          /\ Honest(Outlived(r, by)) /\ ~Own(Outlived(r, by))
      BY <2>4, <2>5
    <2> QED
      BY <2>6 DEF r
  <1> QED
    BY <1>2, <1>3

(* The form is unmounted, and of the requests that are left none is its.   *)
LEMMA Leaving ==
    ASSUME ConstantsFit, FormInv, Unmount, UNCHANGED <<rows, faults>>,
           tab' \in Tabs \cup {"none"},
           NEW by \in {"settings", "gone"},
           request' = Orphaned(by)
               \/ \E s \in Slots : request' = [Orphaned(by) EXCEPT ![s] = NoRequest]
    PROVE  FormInv'
  <1>1. \A t \in Slots : request'[t] = NoRequest \/ request'[t] = Outlived(request[t], by)
    BY DEF Orphaned
  <1>2. request' \in [Slots -> {NoRequest} \cup Requests]
    <2>1. Orphaned(by) \in [Slots -> {NoRequest} \cup Requests]
      BY Orphans DEF Orphaned
    <2> QED
      BY <2>1
  <1>3. \A t \in Slots : Honest(request[t])' /\ ~Own(request[t])'
    <2> TAKE t \in Slots
    <2>1. CASE request'[t] = NoRequest
      BY <2>1 DEF Honest, Own
    <2>2. CASE request'[t] = Outlived(request[t], by)
      <3> DEFINE q == Outlived(request[t], by)
      <3>1. request'[t] = q /\ Honest(q) /\ ~Own(q)
        BY <2>2, Orphans
      <3> HIDE DEF q
      <3> QED
        BY <3>1 DEF Honest, Own
    <2> QED
      BY <1>1, <2>1, <2>2
  <1>4. form' \in Form /\ AllAlone(form'.regions)
    BY FreshFits DEF Unmount
  <1>5. TypeOK'
    BY <1>2, <1>4 DEF FormInv, TypeOK, Unmount
  <1>6. RequestInv'
    BY <1>3 DEF RequestInv
  <1>7. ButtonInv'
    BY <1>3, NobodyWaits DEF Unmount, Own
  <1> QED
    BY <1>4, <1>5, <1>6, <1>7 DEF FormInv, RegionsAndProfilesFit

LEMMA Switches ==
    ASSUME ConstantsFit, FormInv, NEW t \in Tabs, SwitchTab(t) PROVE FormInv'
  <1>1. CASE t = "Add New Account"
    <2>1. ~loading /\ \A s \in Slots : ~Own(request[s])
      BY <1>1 DEF SwitchTab, FormInv, ButtonInv, WaitsForItsOwn, Own
    <2>2. UNCHANGED <<form, profiles, loading, message, request, rows, faults>>
          /\ asked' \in BOOLEAN /\ tab' \in Tabs
      BY <1>1 DEF SwitchTab
    <2>3. ButtonInv'
      BY <2>1, <2>2, NobodyWaits DEF Own
    <2> QED
      BY <2>2, <2>3
         DEF FormInv, TypeOK, RequestInv, Honest, RegionsAndProfilesFit
  <1>2. CASE t # "Add New Account"
    BY <1>2, Leaving DEF SwitchTab
  <1> QED
    BY <1>1, <1>2

LEMMA Opens ==
    ASSUME FormInv, NEW t \in Tabs, OpenSettings(t) PROVE FormInv'
  <1>1. ~loading /\ \A s \in Slots : ~Own(request[s])
    BY DEF OpenSettings, FormInv, ButtonInv, WaitsForItsOwn, Own
  <1>2. UNCHANGED <<form, profiles, loading, message, request, rows, faults>>
        /\ asked' \in BOOLEAN /\ tab' \in Tabs
    BY DEF OpenSettings
  <1>3. ButtonInv'
    BY <1>1, <1>2, NobodyWaits DEF Own
  <1> QED
    BY <1>2, <1>3
       DEF FormInv, TypeOK, RequestInv, Honest, RegionsAndProfilesFit

(* The answer is taken, and the other requests stay.                       *)
LEMMA Taken ==
    ASSUME FormInv, NEW s \in Slots, request' = [request EXCEPT ![s] = NoRequest],
           UNCHANGED rows
    PROVE  /\ request' \in [Slots -> {NoRequest} \cup Requests] /\ RequestInv'
           /\ \A t \in Slots : Own(request[t])' <=> Own(request[t]) /\ t # s
  <1>1. request \in [Slots -> {NoRequest} \cup Requests]
    BY DEF FormInv, TypeOK
  <1>2. request' \in [Slots -> {NoRequest} \cup Requests]
    BY <1>1
  <1>3. \A t \in Slots : request'[t] = IF t = s THEN NoRequest ELSE request[t]
    BY <1>1
  <1>4. RequestInv'
    BY <1>3 DEF FormInv, RequestInv, Honest
  <1>5. \A t \in Slots : Own(request[t])' <=> Own(request[t]) /\ t # s
    BY <1>3 DEF Own
  <1> QED
    BY <1>2, <1>4, <1>5

LEMMA AnswersCome ==
    ASSUME ConstantsFit, FormInv, NEW s \in Slots, Answer(s) PROVE FormInv'
  <1>1. request[s].at = "answered" /\ UNCHANGED <<rows, faults>>
    BY DEF Answer
  <1>2. request[s] \in Requests /\ request[s] # NoRequest
    BY <1>1, Typed, UnderWay DEF FormInv
  <1>3. RegionsAndProfilesFit'
    BY <1>1 DEF FormInv, RegionsAndProfilesFit
  <1>4. CASE ShowError(s)
    <2>1. request' = [request EXCEPT ![s] = NoRequest]
          /\ UNCHANGED <<form, profiles, asked, tab>>
      BY <1>4 DEF ShowError
    <2>2. /\ request' \in [Slots -> {NoRequest} \cup Requests] /\ RequestInv'
          /\ \A t \in Slots : Own(request[t])' <=> Own(request[t]) /\ t # s
      BY <1>1, <2>1, Taken
    <2>3. message' \in {"", "error", "The Regions dropdown cannot be empty."}
          /\ loading' \in BOOLEAN
      BY <1>2, <1>4 DEF ShowError, FormInv, TypeOK, Requests
    <2>4. TypeOK'
      BY <1>1, <2>1, <2>2, <2>3 DEF FormInv, TypeOK
    <2>5. ButtonInv'
      <3>1. CASE request[s].of = "form"
        <4>1. Own(request[s]) /\ ~loading'
          BY <1>2, <1>4, <3>1 DEF ShowError, Own
        <4>2. \A t \in Slots : ~Own(request[t])'
          BY <2>2, <4>1 DEF FormInv, ButtonInv
        <4> QED
          BY <4>1, <4>2, NobodyWaits
      <3>2. CASE request[s].of # "form"
        <4>1. ~Own(request[s]) /\ UNCHANGED <<loading, tab>>
          BY <1>4, <2>1, <3>2 DEF ShowError, Own
        <4>2. \A t \in Slots : Own(request[t])' <=> Own(request[t])
          BY <2>2, <4>1
        <4> QED
          BY <4>1, <4>2, SameButton DEF FormInv
      <3> QED
        BY <3>1, <3>2
    <2> QED
      BY <1>3, <2>1, <2>2, <2>4, <2>5 DEF FormInv
  <1>5. CASE LeaveForm(s) /\ tab = "Add New Account" /\ request[s].of # "gone"
    <2>1. /\ tab' = "Connected Accounts" /\ Unmount
          /\ request' = [Orphaned("settings") EXCEPT ![s] = NoRequest]
      BY <1>5 DEF LeaveForm
    <2> QED
      BY <1>1, <2>1, Leaving DEF Tabs
  <1>6. CASE LeaveForm(s) /\ ~(tab = "Add New Account" /\ request[s].of # "gone")
    <2>1. /\ request' = [request EXCEPT ![s] = NoRequest]
          /\ UNCHANGED <<form, profiles, asked, loading, message, tab>>
      BY <1>6 DEF LeaveForm
    <2>2. /\ request' \in [Slots -> {NoRequest} \cup Requests] /\ RequestInv'
          /\ \A t \in Slots : Own(request[t])' <=> Own(request[t]) /\ t # s
      BY <1>1, <2>1, Taken
    <2>3. ~Own(request[s])
      BY <1>6 DEF FormInv, ButtonInv, WaitsForItsOwn, Own
    <2>4. \A t \in Slots : Own(request[t])' <=> Own(request[t])
      BY <2>2, <2>3
    <2>5. ButtonInv'
      BY <2>1, <2>4, SameButton DEF FormInv
    <2>6. TypeOK'
      BY <1>1, <2>1, <2>2 DEF FormInv, TypeOK
    <2> QED
      BY <1>3, <2>1, <2>2, <2>5, <2>6 DEF FormInv
  <1> QED
    BY <1>4, <1>5, <1>6 DEF Answer

LEMMA FormStep == ConstantsFit /\ FormInv /\ [Next]_vars => FormInv'
  <1> SUFFICES ASSUME ConstantsFit, FormInv, [Next]_vars PROVE FormInv'
    OBVIOUS
  <1>1. CASE UNCHANGED vars
    BY <1>1 DEF vars, FormInv, TypeOK, RequestInv, Honest, ButtonInv, WaitsForItsOwn, Own,
                RegionsAndProfilesFit
  <1>2. CASE LeavePage
    BY <1>2, Leaving DEF LeavePage
  <1> QED
    BY <1>1, <1>2, ProfilesArrive, Edits, Submits, Serves, AnswersCome, Switches, Opens DEF Next

-----------------------------------------------------------------------------
(* In every state of the form the fields, the requests and the rows fit    *)
(* together as FormInv says.                                               *)
THEOREM FormInvariant == ConstantsFit => (Spec => []FormInv)
  <1> SUFFICES ASSUME ConstantsFit PROVE Spec => []FormInv
    OBVIOUS
  <1>1. Init => FormInv
    BY FormInit
  <1>2. FormInv /\ [Next]_vars => FormInv'
    BY FormStep
  <1> QED
    BY <1>1, <1>2, PTL DEF Spec

(* Every account that is stored has regions, All Regions only by itself,   *)
(* and a profile that exists if its method is a profile, although nobody   *)
(* checks the regions after the form.                                      *)
THEOREM RegionsAndProfilesAreFit == ConstantsFit => (Spec => []RegionsAndProfilesFit)
  BY FormInvariant, PTL DEF FormInv

LEMMA RequestsAreHonest == FormInv => HiddenStaysHere
  <1> SUFFICES ASSUME FormInv, NEW s \in Slots, request[s].at = "server"
               PROVE  FitToSend(request[s].details)
    BY DEF HiddenStaysHere, FitToSend
  <1>1. request[s] # NoRequest
    BY DEF NoRequest
  <1> QED
    BY <1>1 DEF FormInv, RequestInv, Honest

LEMMA ButtonWaits == FormInv => WaitsForItsOwn
  BY DEF FormInv, ButtonInv

LEMMA FirstStands == ASSUME FormInv, Next PROVE FirstAttemptStands
  <1> SUFFICES ASSUME NEW n \in Names, rows[n] # NoRow PROVE rows'[n] = rows[n]
    BY DEF FirstAttemptStands
  <1>1. ASSUME NEW s \in Slots, Serve(s) PROVE rows'[n] = rows[n]
    BY <1>1, Served DEF Accepts, FormInv, TypeOK
  <1>2. CASE UNCHANGED rows
    BY <1>2
  <1> QED
    BY <1>1, <1>2 DEF Next, getAwsProfiles, Edit, onSubmit, Answer, LeavePage, SwitchTab, OpenSettings

(* No other step than Serve(s) of the slot itself answers a request.       *)
LEMMA OneTold == ASSUME FormInv, Next PROVE OnlyOneIsTold
  <1> SUFFICES ASSUME NEW s \in Slots, request[s].at = "server",
                      request'[s].at = "answered", request'[s].error = ""
               PROVE  /\ rows[request[s].name] = NoRow
                      /\ rows'[request[s].name] = request[s].details
    BY DEF OnlyOneIsTold
  <1>0. TypeOK /\ request \in [Slots -> {NoRequest} \cup Requests]
    BY DEF FormInv, TypeOK
  <1>1. request'[s] # request[s] /\ request'[s] # NoRequest
    BY NoneUnderWay
  <1>2. CASE Serve(s)
    <2>1. PICK error \in {"", "error"} :
            /\ Reply(s, error)
            /\ error = "" =>
                  /\ Accepts(request[s].name, request[s].details)
                  /\ rows' = [rows EXCEPT ![request[s].name] = request[s].details]
      BY <1>2, Served
    <2>2. request[s] \in Requests /\ request[s].name \in Names
      BY <1>2, Served
    <2>3. request'[s].error = error
      BY <1>0, <1>1, <2>1, <2>2, Replied
    <2> QED
      BY <1>0, <2>1, <2>2, <2>3 DEF Accepts, TypeOK
  <1>3. ASSUME NEW t \in Slots, t # s, Serve(t) PROVE request'[s] = request[s]
    <2>1. request[t] \in Requests /\ \E error \in {"", "error"} : Reply(t, error)
      BY <1>3, Served
    <2> QED
      BY <1>0, <1>3, <2>1, Replied
  <1>4. CASE onSubmit
    <2>1. UNCHANGED request \/ \E t \in Slots : Post(t)
      BY <1>4 DEF onSubmit
    <2>2. ASSUME NEW t \in Slots, Post(t) PROVE request'[s].at # "answered"
      BY <2>2, <1>0 DEF Post
    <2> QED
      BY <1>1, <2>1, <2>2
  <1>5. ASSUME NEW by \in {"settings", "gone"} PROVE Outlived(request[s], by).at # "answered"
    <2>1. request[s] \in Requests
      BY <1>0, UnderWay
    <2> QED
      BY <2>1 DEF Outlived, Requests, NoRequest
  <1>6. ASSUME NEW by \in {"settings", "gone"}, request' = Orphaned(by) PROVE FALSE
    BY <1>5, <1>6 DEF Orphaned
  <1>7. ASSUME NEW t \in Slots, Answer(t) PROVE FALSE
    <2>1. t # s /\ (ShowError(t) \/ LeaveForm(t))
      BY <1>7 DEF Answer
    <2>2. \/ request' = [request EXCEPT ![t] = NoRequest]
          \/ request' = [Orphaned("settings") EXCEPT ![t] = NoRequest]
      BY <2>1 DEF ShowError, LeaveForm
    <2>3. request'[s] = request[s] \/ request'[s] = Outlived(request[s], "settings")
      BY <1>0, <2>1, <2>2 DEF Orphaned
    <2> QED
      BY <1>1, <1>5, <2>3
  <1>8. ASSUME UNCHANGED request PROVE FALSE
    BY <1>1, <1>8
  <1> QED
    BY <1>1, <1>2, <1>3, <1>4, <1>6, <1>7, <1>8
       DEF Next, getAwsProfiles, Edit, LeavePage, SwitchTab, OpenSettings

LEMMA StoredIfLeft == ASSUME FormInv, Next PROVE LeftMeansStored
  <1> SUFFICES ASSUME NEW s \in Slots,
                      request[s].at = "answered", request'[s] = NoRequest,
                      tab = "Add New Account", tab' = "Connected Accounts"
               PROVE  /\ rows[request[s].name] = request[s].details
                      /\ request[s].error = "" /\ request[s].of # "gone"
    BY DEF LeftMeansStored
  <1>0. request \in [Slots -> {NoRequest} \cup Requests]
    BY DEF FormInv, TypeOK
  <1>1. request[s] # NoRequest /\ request[s] \in Requests /\ Honest(request[s])
    BY <1>0, UnderWay DEF FormInv, RequestInv
  <1>2. Outlived(request[s], "settings") # NoRequest
    BY <1>1 DEF Outlived, Requests, NoRequest
  <1>3. ASSUME NEW t \in Tabs, SwitchTab(t) PROVE FALSE
    BY <1>2, <1>3 DEF SwitchTab, Orphaned
  <1>4. PICK t \in Slots : Answer(t)
    BY <1>3 DEF Next, getAwsProfiles, Edit, onSubmit, Serve, LeavePage, OpenSettings
  <1>5. /\ LeaveForm(t) /\ request[t].of # "gone" /\ request[t].error = ""
        /\ request' = [Orphaned("settings") EXCEPT ![t] = NoRequest]
    BY <1>4 DEF Answer, ShowError, LeaveForm
  <1>6. t = s
    BY <1>2, <1>5 DEF Orphaned
  <1> QED
    BY <1>1, <1>5, <1>6 DEF Honest

LEMMA RetriesStep ==
    FormInv /\ Next => FirstAttemptStands /\ OnlyOneIsTold /\ LeftMeansStored
  BY FirstStands, OneTold, StoredIfLeft

(* Credentials of the method that is not chosen are not sent, by the form  *)
(* displayed or by one that was left.                                      *)
THEOREM HiddenIsNotSent == ConstantsFit => (Spec => []HiddenStaysHere)
  BY RequestsAreHonest, FormInvariant, PTL

(* The button of a form waits for the submission of that form, whichever   *)
(* submissions of forms that were left are still under way.                *)
THEOREM ButtonWaitsForItsOwn == ConstantsFit => (Spec => []WaitsForItsOwn)
  BY ButtonWaits, FormInvariant, PTL

(* Of submissions that are tried again or overlap, those of forms that     *)
(* were left included, none overwrites what is stored, only one of a name  *)
(* is told that it succeeded, and the form displayed is taken away by an   *)
(* answer only if the account that this answer is about is stored as it    *)
(* was submitted.                                                          *)
THEOREM RetriesOverwriteNothing ==
    ConstantsFit => (Spec => [][FirstAttemptStands /\ OnlyOneIsTold /\ LeftMeansStored]_vars)
  <1> SUFFICES ASSUME ConstantsFit
               PROVE  Spec => [][FirstAttemptStands /\ OnlyOneIsTold /\ LeftMeansStored]_vars
    OBVIOUS
  <1>1. FormInv /\ [Next]_vars => [FirstAttemptStands /\ OnlyOneIsTold /\ LeftMeansStored]_vars
    BY RetriesStep
  <1> QED
    BY <1>1, FormInvariant, PTL DEF Spec
=============================================================================
