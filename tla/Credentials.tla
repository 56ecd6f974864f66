------------------------------ MODULE Credentials -----------------------------
(***************************************************************************)
(* What lets a request in: the address and the password of the admin, the   *)
(* sessions and the API keys; and the page of the dashboard that deletes    *)
(* keys.  A request is suspended between any two of its statements.  Whose  *)
(* sessions and keys they are is the subject of Accounts: here there is one *)
(* account.  A hash with its salt is the password it was made from.         *)
(***************************************************************************)
EXTENDS FiniteSets

CONSTANTS
  Requests, Addresses, Passwords, Cookies, ApiKeys, Labels,
  Unknown   \* no value

ASSUME CredentialsAssumption ==
  Unknown \notin Addresses \cup Passwords \cup Cookies \cup ApiKeys \cup Labels

VARIABLES
  admin,      \* the row of users: its email and password
  cookies,    \* cookie -> "unused", "live", or "gone": logged out or expired
  label,      \* API key -> the label it was made with
  present,    \* the API keys that have a row
  request,    \* request -> where it is, with its locals
  shown,      \* the keys that the table of the page shows
  dialog,     \* the dialog of the page: its key, the text when a key last went up, the button
  (* History variables. *)
  promised,   \* what the last change of a column, if it was alone, was answered
  revoked     \* API keys whose deletion was answered

credvars == <<admin, cookies, label, present, request, shown, dialog, promised, revoked>>
Table == <<label, present, revoked>>
Page == <<shown, dialog>>

Columns == {"email", "password"}
NoRequest == [at |-> "none", op |-> "none"]
NoDialog == [open |-> FALSE, key |-> Unknown, typed |-> Unknown, enabled |-> FALSE]

CredInit ==
  /\ admin \in [email : Addresses, password : Passwords]
  /\ cookies = [c \in Cookies |-> "unused"]
  /\ label = [k \in ApiKeys |-> Unknown]
  /\ present = {} /\ revoked = {}
  /\ request = [r \in Requests |-> NoRequest]
  /\ shown = {} /\ dialog = NoDialog
  /\ promised = admin

Live(c) == cookies[c] = "live"

Goes(r, q) == request' = [request EXCEPT ![r] = q]
Onto(r, place) == Goes(r, [request[r] EXCEPT !.at = place])
Ends(r) == Goes(r, NoRequest)

------------------------------------------------------------------------------
(* Login.  `expect` is what it must be answered, as long as it is certain.  *)

LogIn(r, e, p) ==
  /\ request[r] = NoRequest
  /\ Goes(r, [at |-> "find", op |-> "login", email |-> e, password |-> p,
              expect |-> IF Unknown \in {promised.email, promised.password} THEN "any"
                         ELSE IF promised = [email |-> e, password |-> p] THEN "in" ELSE "out"])
  /\ UNCHANGED <<admin, cookies, Table, promised, Page>>

FindUser(r) ==
  /\ request[r].at = "find" /\ request[r].op = "login"
  /\ Onto(r, IF admin = [email |-> request[r].email, password |-> request[r].password]
             THEN "open" ELSE "out")
  /\ UNCHANGED <<admin, cookies, Table, promised, Page>>

OpenSession(r) ==
  /\ request[r].at = "open"
  /\ \E c \in Cookies : cookies[c] = "unused" /\ cookies' = [cookies EXCEPT ![c] = "live"]
  /\ Onto(r, "in")
  /\ UNCHANGED <<admin, Table, promised, Page>>

(* logout, or a session that expires                                        *)
CloseSession(c) ==
  /\ Live(c)
  /\ cookies' = [cookies EXCEPT ![c] = "gone"]
  /\ UNCHANGED <<admin, Table, request, promised, Page>>

------------------------------------------------------------------------------
(* A change of one column: of the email or of the password by a session, or  *)
(* of the password by `memayu reset-password`.  A change is alone if no      *)
(* other change of its column is in flight at any time of it.                *)

Changes(q, column) == q.op = "change" /\ q.column = column

Change(r, column, new, place, c, current) ==
  /\ request[r] = NoRequest
  /\ request' =
       [s \in Requests |->
          CASE s = r -> [at |-> place, op |-> "change", column |-> column, new |-> new,
                         cookie |-> c, late |-> c # Unknown /\ cookies[c] = "gone",
                         current |-> current, row |-> Unknown,
                         alone |-> \A o \in Requests : ~Changes(request[o], column)]
            [] s # r /\ Changes(request[s], column) -> [request[s] EXCEPT !.alone = FALSE]
            [] s # r /\ request[s].op = "login" -> [request[s] EXCEPT !.expect = "any"]
            [] OTHER -> request[s]]
  /\ promised' = [promised EXCEPT ![column] = Unknown]
  /\ UNCHANGED <<admin, cookies, Table, Page>>

ChangeEmail(r, new, c) == Change(r, "email", new, "cookie", c, Unknown)
ChangePassword(r, current, new, c) == Change(r, "password", new, "cookie", c, current)
ResetPassword(r, new) == Change(r, "password", new, "update", Unknown, Unknown)

(* change_password reads the row and wants its password.                    *)
CheckCurrent(r) ==
  /\ request[r].at = "inside" /\ Changes(request[r], "password")
  /\ IF admin.password = request[r].current
     THEN Goes(r, [[request[r] EXCEPT !.row = admin] EXCEPT !.at = "update"])
     ELSE Ends(r)
  /\ UNCHANGED <<admin, cookies, Table, promised, Page>>

EmailLetIn(r) ==
  /\ request[r].at = "inside" /\ Changes(request[r], "email")
  /\ Onto(r, "update")
  /\ UNCHANGED <<admin, cookies, Table, promised, Page>>

(* update_password and update_email                                         *)
Updated_WholeRow(q) ==
  IF q.row = Unknown THEN [admin EXCEPT ![q.column] = q.new] ELSE [q.row EXCEPT ![q.column] = q.new]

Updated(q) == [admin EXCEPT ![q.column] = q.new]

Update(r) ==
  /\ request[r].at = "update"
  /\ admin' = Updated(request[r])
  /\ Onto(r, "changed")
  /\ UNCHANGED <<cookies, Table, promised, Page>>

AnswerChange(r) ==
  /\ request[r].at = "changed"
  /\ promised' = IF request[r].alone
                 THEN [promised EXCEPT ![request[r].column] = request[r].new] ELSE promised
  /\ Ends(r)
  /\ UNCHANGED <<admin, cookies, Table, Page>>

------------------------------------------------------------------------------
(* auth_middleware and CurrentUser.  `late`: it arrived after the deletion  *)
(* of its key was answered, or after its session ended.                     *)

Call(r, pass) ==
  /\ request[r] = NoRequest
  /\ Goes(r, pass)
  /\ UNCHANGED <<admin, cookies, Table, promised, Page>>

CallWithKey(r, k) ==
  label[k] # Unknown /\ Call(r, [at |-> "key", op |-> "call", key |-> k, late |-> k \in revoked])
CallWithCookie(r, c) ==
  /\ cookies[c] # "unused"
  /\ Call(r, [at |-> "cookie", op |-> "call", cookie |-> c, late |-> cookies[c] = "gone"])

ResolveSession(r) ==
  /\ request[r].at = "cookie"
  /\ IF Live(request[r].cookie) THEN Onto(r, "inside") ELSE Ends(r)
  /\ UNCHANGED <<admin, cookies, Table, promised, Page>>

FindKey(r) ==
  /\ request[r].at = "key"
  /\ IF request[r].key \in present THEN Onto(r, "touch") ELSE Ends(r)
  /\ UNCHANGED <<admin, cookies, Table, promised, Page>>

(* touch_api_key: an UPDATE of a row that may be gone by now                *)
Touched_Upserted(k) == present \cup {k}

Touched(k) == present

TouchKey(r) ==
  /\ request[r].at = "touch"
  /\ present' = Touched(request[r].key)
  /\ Onto(r, "inside")
  /\ UNCHANGED <<admin, cookies, label, revoked, promised, Page>>

Finish(r) ==
  /\ request[r].at \in {"inside", "in", "out"} /\ request[r].op \in {"call", "login"}
  /\ Ends(r)
  /\ UNCHANGED <<admin, cookies, Table, promised, Page>>

Generate(r, k, x) ==
  /\ request[r].at = "inside" /\ request[r].op = "call"
  /\ label[k] = Unknown
  /\ label' = [label EXCEPT ![k] = x]
  /\ present' = present \cup {k}
  /\ Ends(r)
  /\ UNCHANGED <<admin, cookies, revoked, promised, Page>>

(* DELETE /api/api-keys/:id, by an id that was listed                       *)
DeleteById(r, k) ==
  /\ request[r].at = "inside" /\ request[r].op = "call"
  /\ label[k] # Unknown
  /\ present' = present \ {k} /\ revoked' = revoked \cup {k}
  /\ Ends(r)
  /\ UNCHANGED <<admin, cookies, label, promised, Page>>

------------------------------------------------------------------------------
(* The page.  Its dialog asks for the label of the key that is to go.       *)

OpenPage ==
  /\ \E c \in Cookies : Live(c)
  /\ shown' = present /\ dialog' = NoDialog
  /\ UNCHANGED <<admin, cookies, Table, request, promised>>

OpenDialog_ButtonKept(k) == [dialog EXCEPT !.open = TRUE, !.key = k, !.typed = Unknown]

OpenDialog(k) == [open |-> TRUE, key |-> k, typed |-> Unknown, enabled |-> FALSE]

Choose(k) ==
  /\ ~dialog.open /\ k \in shown
  /\ dialog' = OpenDialog(k)
  /\ UNCHANGED <<admin, cookies, Table, request, promised, shown>>

(* A key-up in the input, with what it holds by then.  (Text that changes    *)
(* without a key, pasted with the mouse, changes nothing until the next.)   *)
Type(x) ==
  /\ dialog.open
  /\ dialog' = [[dialog EXCEPT !.typed = x] EXCEPT !.enabled = (x = label[dialog.key])]
  /\ UNCHANGED <<admin, cookies, Table, request, promised, shown>>

CloseDialog ==
  /\ dialog.open
  /\ dialog' = [dialog EXCEPT !.open = FALSE]
  /\ UNCHANGED <<admin, cookies, Table, request, promised, shown>>

Confirm(r, c) ==
  /\ dialog.open /\ dialog.enabled
  /\ request[r] = NoRequest
  /\ cookies[c] # "unused"
  /\ Goes(r, [at |-> "cookie", op |-> "delete", cookie |-> c, late |-> cookies[c] = "gone",
              key |-> dialog.key, typed |-> dialog.typed, rows |-> {}])
  /\ dialog' = [dialog EXCEPT !.open = FALSE]
  /\ UNCHANGED <<admin, cookies, Table, promised, shown>>

DeleteChosen(r) ==
  /\ request[r].at = "inside" /\ request[r].op = "delete"
  /\ present' = present \ {request[r].key}
  /\ Onto(r, "list")
  /\ UNCHANGED <<admin, cookies, label, revoked, promised, Page>>

ListKeys(r) ==
  /\ request[r].at = "list"
  /\ Goes(r, [[request[r] EXCEPT !.at = "render"] EXCEPT !.rows = present])
  /\ UNCHANGED <<admin, cookies, Table, promised, Page>>

(* The answer, which may come after that of a later request, replaces the   *)
(* table.                                                                   *)
Render(r) ==
  /\ request[r].at = "render"
  /\ shown' = request[r].rows
  /\ revoked' = revoked \cup {request[r].key}
  /\ Ends(r)
  /\ UNCHANGED <<admin, cookies, label, present, promised, dialog>>

(* An error of a statement, a client that left, a process that died.        *)
Drop(r) ==
  /\ request[r] # NoRequest
  /\ Ends(r)
  /\ UNCHANGED <<admin, cookies, Table, promised, Page>>

CredNext ==
  \/ \E r \in Requests :
       \/ \E e \in Addresses, p \in Passwords : LogIn(r, e, p)
       \/ \E e \in Addresses, c \in Cookies : cookies[c] # "unused" /\ ChangeEmail(r, e, c)
       \/ \E p, n \in Passwords, c \in Cookies : cookies[c] # "unused" /\ ChangePassword(r, p, n, c)
       \/ \E n \in Passwords : ResetPassword(r, n)
       \/ \E k \in ApiKeys : CallWithKey(r, k) \/ DeleteById(r, k)
       \/ \E k \in ApiKeys, x \in Labels : Generate(r, k, x)
       \/ \E c \in Cookies : CallWithCookie(r, c) \/ Confirm(r, c)
       \/ FindUser(r) \/ OpenSession(r)
       \/ CheckCurrent(r) \/ EmailLetIn(r) \/ Update(r) \/ AnswerChange(r)
       \/ ResolveSession(r) \/ FindKey(r) \/ TouchKey(r) \/ Finish(r)
       \/ DeleteChosen(r) \/ ListKeys(r) \/ Render(r)
       \/ Drop(r)
  \/ \E c \in Cookies : CloseSession(c)
  \/ OpenPage
  \/ \E k \in ApiKeys : Choose(k)
  \/ \E x \in Labels : Type(x)
  \/ CloseDialog

CredSpec == CredInit /\ [][CredNext]_credvars

------------------------------------------------------------------------------
(* Properties.                                                              *)

(* A change that was answered, and that no other change of its column        *)
(* overlapped, stands until the next one: nothing that was in flight, a      *)
(* login, the other column's change or a reset, undoes it.  And a login that *)
(* overlaps no change is let in exactly with what stands.                    *)
AnsweredChangesStand ==
  /\ \A column \in Columns : promised[column] \in {Unknown, admin[column]}
  /\ \A r \in Requests :
       request[r].op = "login" =>
         /\ request[r].at = "in" => request[r].expect # "out"
         /\ request[r].at = "out" => request[r].expect # "in"

(* A key that was deleted, and a session that has ended, let nobody in that  *)
(* comes afterwards, whatever was in flight with it.                         *)
RevokedStaysOut ==
  \A r \in Requests :
    request[r].at \in {"inside", "touch", "list", "render"} => ~request[r].late

(* The page deletes no key but the one whose label its input held when a key *)
(* last went up there.                                                      *)
DeletesConfirmed ==
  \A r \in Requests : request[r].op = "delete" => request[r].typed = label[request[r].key]
=============================================================================
