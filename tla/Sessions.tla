------------------------------ MODULE Sessions ------------------------------
(***************************************************************************)
(* Login and settings (server/login.go).  A session is a map of values in  *)
(* a file of its own, named by a cookie.  Each handler gets a copy of the  *)
(* map when it starts and saves the whole copy later, without a lock: the  *)
(* callback with two calls to GitHub in between.  The requests come from   *)
(* one browser, whose tabs share the cookies.                              *)
(*                                                                         *)
(* External: gorilla's FilesystemStore, and GitHub, which redirects back   *)
(* with a code that works once and only with the verifier of its login.    *)
(***************************************************************************)
CONSTANTS Requests,   \* slots, each for one request at a time
          Ids,        \* session ids: random, hence never used twice
          Verifiers,  \* PKCE verifiers: likewise
          Users, mainUser,
          Zones,      \* the names of time zones that LoadLocation accepts
          None, Unused, Gone

\* The sessions of a browser, and what one holds.
Names == {"login-oauth2", "login"}
Values == [verifier : Verifiers \cup {None},
           githubUserData : Users \cup {None},
           timezone : Zones \cup {None}]
NoValues == [verifier |-> None, githubUserData |-> None, timezone |-> None]

ASSUME SessionsAssumption ==
  /\ mainUser \in Users
  /\ None \notin Ids \cup Verifiers \cup Users \cup Zones
  /\ Unused \notin Values /\ Gone \notin Values /\ Unused # Gone

VARIABLES files,      \* files[n][id]: the values of session id of that name
          jar,        \* the browser's cookies: for each name an id or None
          req,        \* what is in each slot
          generated,  \* the verifiers generated so far
          offered,    \* those of the logins that GitHub has redirected back
          spent,      \* those whose code has been exchanged
          (* history, read by no action *)
          serial,     \* no request was sent while another was under way
          told,       \* the browser has been told that it is logged in
          chosen,     \* the time zone that the user saved last
          pending     \* the verifier that was saved last and not yet used

history == <<serial, told, chosen, pending>>
vars == <<files, jar, req, generated, offered, spent, history>>

\* pc says what the handler does next, or which answer is on its way:
\* "redirected" to GitHub, "welcomed", "refused" for its verifier, "answered".
Running == {"login", "callback", "exchange", "saveOauth", "saveLogin",
            "settings"}
Answers == {"redirected", "welcomed", "refused", "answered"}
Idle == [pc |-> "idle", id |-> [n \in Names |-> None],
         oauth |-> NoValues, login |-> NoValues, code |-> None, set |-> {}]

Init ==
  /\ files = [n \in Names |-> [i \in Ids |-> Unused]]
  /\ jar = [n \in Names |-> None]
  /\ req = [r \in Requests |-> Idle]
  /\ generated = {} /\ offered = {} /\ spent = {}
  /\ serial = TRUE /\ told = FALSE /\ chosen = None /\ pending = None

(***************************************************************************)
(* The store.  Get fails when the file that the cookie names is not there  *)
(* or does not decode; without a cookie the session is new and empty.      *)
(***************************************************************************)
Got(n, id) == id # None => files[n][id] \in Values
Get(n, id) == IF id = None THEN NoValues ELSE files[n][id]

\* Save writes every value to the session's file, which a new session gets
\* only now, and hands the cookie to the answer.
Save(r, n, values, pc) ==
  \E id \in Ids :
    /\ IF req[r].id[n] = None THEN files[n][id] = Unused ELSE id = req[r].id[n]
    /\ files' = [files EXCEPT ![n][id] = values]
    /\ req' = [req EXCEPT ![r].pc = pc, ![r].id[n] = id, ![r].set = @ \cup {n}]

\* Mutant: the cookie is handed out although Save has failed.
MutSaveFails(r, n) ==
  \E id \in Ids :
    /\ IF req[r].id[n] = None THEN files[n][id] = Unused ELSE id = req[r].id[n]
    /\ req' = [req EXCEPT ![r].pc = "answered", ![r].id[n] = id,
                          ![r].set = @ \cup {n}]
    /\ UNCHANGED files

\* Save fails before it has opened the file, or half way through writing it.
SaveFails(r, n) ==
  /\ \/ UNCHANGED files
     \/ /\ req[r].id[n] # None
        /\ files' = [files EXCEPT ![n][req[r].id[n]] = Gone]
  /\ req' = [req EXCEPT ![r].pc = "answered"]

(***************************************************************************)
(* The wrappers of the handlers.  A session in which nobody is logged in   *)
(* is redirected to /login.                                                *)
(***************************************************************************)
\* Mutant: the settings do not ask for a login.
MutSomeLogin(id) == Got("login", id)

someLogin(id) == Got("login", id) /\ Get("login", id).githubUserData # None
mainLogin(id) == Got("login", id) /\ Get("login", id).githubUserData = mainUser
getTimeLocation(id) == Get("login", id).timezone

\* A request is sent with the cookies that the browser has now.
Send(r, q) ==
  /\ req[r] = Idle
  /\ req' = [req EXCEPT ![r] = q]
  /\ serial' = (serial /\ req = [o \in Requests |-> Idle])

(***************************************************************************)
(* GET /login                                                              *)
(***************************************************************************)
login(r) ==
  /\ Got("login-oauth2", jar["login-oauth2"])
  /\ \E v \in Verifiers \ generated :
       /\ generated' = generated \cup {v}
       /\ Send(r, [Idle EXCEPT !.pc = "login", !.id = jar, !.code = v,
                     !.oauth = [Get("login-oauth2", jar["login-oauth2"])
                                  EXCEPT !.verifier = v]])
  /\ UNCHANGED <<files, jar, offered, spent, told, chosen, pending>>

LoginSave(r) ==
  /\ req[r].pc = "login"
  /\ Save(r, "login-oauth2", req[r].oauth, "redirected")
  /\ pending' = req[r].code
  /\ UNCHANGED <<jar, generated, offered, spent, serial, told, chosen>>

(***************************************************************************)
(* GET /login/callback.  The verifier is deleted from the copy, and the    *)
(* copy is saved only when GitHub has told who logs in.                    *)
(***************************************************************************)
loginCallback(r) ==
  /\ Got("login-oauth2", jar["login-oauth2"])
  /\ \E c \in offered :
       Send(r, [Idle EXCEPT !.pc = "callback", !.id = jar, !.code = c,
                  !.oauth = Get("login-oauth2", jar["login-oauth2"])])
  /\ UNCHANGED <<files, jar, generated, offered, spent, told, chosen, pending>>

\* Mutant: the login session starts over, without what it held.
MutCallbackGet(r) ==
  /\ req[r].pc = "callback"
  /\ req' = [req EXCEPT ![r] =
       IF ~Got("login", @.id["login"]) THEN [@ EXCEPT !.pc = "answered"]
       ELSE IF @.oauth.verifier = None THEN [@ EXCEPT !.pc = "refused"]
       ELSE [@ EXCEPT !.pc = "exchange"]]
  /\ UNCHANGED <<files, jar, generated, offered, spent, history>>

CallbackGet(r) ==
  /\ req[r].pc = "callback"
  /\ req' = [req EXCEPT ![r] =
       LET id == @.id["login"] IN
       IF ~Got("login", id) THEN [@ EXCEPT !.pc = "answered"]
       ELSE IF @.oauth.verifier = None THEN [@ EXCEPT !.pc = "refused"]
       ELSE [@ EXCEPT !.pc = "exchange", !.login = Get("login", id)]]
  /\ UNCHANGED <<files, jar, generated, offered, spent, history>>

\* Mutant: a failed exchange saves the session, its verifier deleted.
MutExchangeFails(r) ==
  LET q == req[r] IN
  /\ q.pc = "exchange"
  /\ files' = [files EXCEPT !["login-oauth2"][q.id["login-oauth2"]] =
                 [q.oauth EXCEPT !.verifier = None]]
  /\ req' = [req EXCEPT ![r].pc = IF q.oauth.verifier # q.code
                                  THEN "refused" ELSE "answered"]
  /\ UNCHANGED <<jar, generated, offered, spent, history>>

\* Exchange and the request for the user's data.
Exchange(r) ==
  LET q == req[r] IN
  /\ q.pc = "exchange"
  /\ q.oauth.verifier = q.code /\ q.code \notin spent
  /\ spent' = spent \cup {q.code}
  /\ \E u \in Users :
       req' = [req EXCEPT ![r].pc = "saveOauth",
                 ![r].oauth.verifier = None, ![r].login.githubUserData = u]
  /\ UNCHANGED <<files, jar, generated, offered, history>>

\* GitHub refuses the verifier or the code, or is not reached, or fails after
\* it has taken the code.  Nothing is saved.
ExchangeFails(r) ==
  LET q == req[r] IN
  /\ q.pc = "exchange"
  /\ IF q.oauth.verifier # q.code
     THEN /\ req' = [req EXCEPT ![r].pc = "refused"]
          /\ UNCHANGED spent
     ELSE /\ req' = [req EXCEPT ![r].pc = "answered"]
          /\ spent' \in {spent, spent \cup {q.code}}
  /\ UNCHANGED <<files, jar, generated, offered, history>>

CallbackSaveOauth(r) ==
  /\ req[r].pc = "saveOauth"
  /\ Save(r, "login-oauth2", req[r].oauth, "saveLogin")
  /\ pending' = None
  /\ UNCHANGED <<jar, generated, offered, spent, serial, told, chosen>>

CallbackSaveLogin(r) ==
  /\ req[r].pc = "saveLogin"
  /\ Save(r, "login", req[r].login, "welcomed")
  /\ UNCHANGED <<jar, generated, offered, spent, history>>

(***************************************************************************)
(* POST /login/settings                                                    *)
(***************************************************************************)
loginSettings(r) ==
  /\ someLogin(jar["login"])
  /\ \E z \in Zones :
       Send(r, [Idle EXCEPT !.pc = "settings", !.id = jar,
                  !.login = [Get("login", jar["login"]) EXCEPT !.timezone = z]])
  /\ UNCHANGED <<files, jar, generated, offered, spent, told, chosen, pending>>

SettingsSave(r) ==
  /\ req[r].pc = "settings"
  /\ Save(r, "login", req[r].login, "answered")
  /\ chosen' = req[r].login.timezone
  /\ UNCHANGED <<jar, generated, offered, spent, serial, told, pending>>

StorageError(r) ==
  /\ \/ req[r].pc \in {"login", "saveOauth"} /\ SaveFails(r, "login-oauth2")
     \/ req[r].pc \in {"saveLogin", "settings"} /\ SaveFails(r, "login")
  /\ UNCHANGED <<jar, generated, offered, spent, history>>

(***************************************************************************)
(* The browser takes the cookies of an answer, and follows a redirect to   *)
(* GitHub and back.  An answer may also be lost, or the server stop before *)
(* there is one.                                                           *)
(***************************************************************************)
Receive(r) ==
  LET q == req[r] IN
  /\ q.pc \in Answers
  /\ jar' = [n \in Names |-> IF n \in q.set THEN q.id[n] ELSE jar[n]]
  /\ offered' = IF q.pc = "redirected" THEN offered \cup {q.code} ELSE offered
  /\ told' = (told \/ q.pc = "welcomed")
  /\ req' = [req EXCEPT ![r] = Idle]
  /\ UNCHANGED <<files, generated, spent, serial, chosen, pending>>

NoAnswer(r) ==
  /\ req[r] # Idle
  /\ req' = [req EXCEPT ![r] = Idle]
  /\ UNCHANGED <<files, jar, generated, offered, spent, history>>

\* The browser forgets a cookie, and with it what its user may expect.  (Not
\* while a request is under way, whose answer might bring the cookie back.)
Forget(n) ==
  /\ jar[n] # None
  /\ req = [o \in Requests |-> Idle]
  /\ jar' = [jar EXCEPT ![n] = None]
  /\ told' = (told /\ n # "login")
  /\ chosen' = IF n = "login" THEN None ELSE chosen
  /\ pending' = IF n = "login-oauth2" THEN None ELSE pending
  /\ UNCHANGED <<files, req, generated, offered, spent, serial>>

\* The files are in the directory for temporary files, which others clear.
FileLost ==
  /\ \E n \in Names, id \in Ids :
       /\ files[n][id] \in Values
       /\ files' = [files EXCEPT ![n][id] = Gone]
  /\ UNCHANGED <<jar, req, generated, offered, spent, history>>

Next ==
  \/ \E r \in Requests :
       \/ login(r) \/ LoginSave(r)
       \/ loginCallback(r) \/ CallbackGet(r) \/ Exchange(r) \/ ExchangeFails(r)
       \/ CallbackSaveOauth(r) \/ CallbackSaveLogin(r)
       \/ loginSettings(r) \/ SettingsSave(r)
       \/ StorageError(r) \/ Receive(r) \/ NoAnswer(r)
  \/ \E n \in Names : Forget(n)
  \/ FileLost

Spec == Init /\ [][Next]_vars

(***************************************************************************)
(* Properties                                                              *)
(***************************************************************************)

\* Requests, cookies and files have their types; a handler that will save a
\* login session has a user in it.
TypeOK ==
  /\ files \in [Names -> [Ids -> Values \cup {Unused, Gone}]]
  /\ jar \in [Names -> Ids \cup {None}]
  /\ req \in [Requests ->
       [pc : Running \cup Answers \cup {"idle"}, id : [Names -> Ids \cup {None}],
        oauth : Values, login : Values, code : Verifiers \cup {None},
        set : SUBSET Names]]
  /\ \A r \in Requests :
       req[r].pc \in {"saveLogin", "settings"} => req[r].login.githubUserData # None
  /\ generated \subseteq Verifiers /\ offered \subseteq generated
  /\ spent \subseteq offered
  /\ serial \in BOOLEAN /\ told \in BOOLEAN
  /\ chosen \in Zones \cup {None} /\ pending \in generated \cup {None}

\* A cookie is handed out only for a session that is stored: else every later
\* request would fail (login.go:49), also the one to log in again (109).
CookieHasFile ==
  \A n \in Names : jar[n] # None => files[n][jar[n]] # Unused

\* Who has been told that they are logged in stays so, whatever their tabs do
\* at once, as long as the cookie and the file it names are there.  A Save that
\* fails half way leaves a file that is not.
LoggedInStays ==
  told => LET id == jar["login"] IN
          /\ id # None
          /\ Got("login", id) => Get("login", id).githubUserData # None

LoggedIn ==
  Got("login", jar["login"]) /\ Get("login", jar["login"]).githubUserData # None

\* What logs a user out: a lost cookie or file, a Save of a login session that
\* fails half way, or an answer that hands out another session whose file has
\* been lost since it was saved.  No other request does, nor any other failure.
LogoutOnlyByLoss ==
  [][LoggedIn /\ ~LoggedIn' =>
       \/ Forget("login") \/ FileLost
       \/ \E r \in Requests :
            \/ StorageError(r) /\ req[r].pc \in {"saveLogin", "settings"}
            \/ /\ Receive(r) /\ "login" \in req[r].set
               /\ files["login"][req[r].id["login"]] = Gone]_vars

\* The zone that a handler finds, if a session is there, is the one its user set.
ZoneAsSet ==
  mainLogin(jar["login"]) => getTimeLocation(jar["login"]) = chosen

\* It is, if requests are sent one after the other: the callback of a new login
\* keeps the zone, also when it fails or its answer is lost.
ZoneKept == serial => ZoneAsSet

\* Nobody is told to log in again (login.go:149), or has the verifier refused,
\* who comes back from the login begun last: failed exchanges can be tried
\* again, and a login given up takes nothing from the next one.
LatestLoginWorks ==
  \A r \in Requests :
    serial /\ req[r].pc = "refused" => req[r].code # pending
=============================================================================
