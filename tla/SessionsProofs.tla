--------------------------- MODULE SessionsProofs ----------------------------
(***************************************************************************)
(* Proofs about login sessions, for any number of tabs, sessions, logins,  *)
(* users and time zones, whatever fails.                                   *)
(***************************************************************************)
EXTENDS Sessions, TLAPS

Request ==
  [pc : Running \cup Answers \cup {"idle"}, id : [Names -> Ids \cup {None}],
   oauth : Values, login : Values, code : Verifiers \cup {None},
   set : SUBSET Names]

LEMMA RequestTypes == TypeOK => req \in [Requests -> Request]
BY DEF TypeOK, Request

-----------------------------------------------------------------------------
(* What the operations on sessions and requests do.                        *)

(* A save writes one file, and changes one request.                        *)
LEMMA Saved ==
  ASSUME TypeOK, NEW r \in Requests, NEW n \in Names, NEW values \in Values,
         NEW pc \in Running \cup Answers, Save(r, n, values, pc)
  PROVE  \E i \in Ids :
           /\ IF req[r].id[n] = None THEN files[n][i] = Unused
                                     ELSE i = req[r].id[n]
           /\ files' \in [Names -> [Ids -> Values \cup {Unused, Gone}]]
           /\ \A m \in Names, j \in Ids :
                files'[m][j] = IF m = n /\ j = i THEN values ELSE files[m][j]
           /\ req' \in [Requests -> Request]
           /\ \A o \in Requests \ {r} : req'[o] = req[o]
           /\ req'[r].pc = pc
           /\ \A m \in Names : req'[r].id[m] = IF m = n THEN i ELSE req[r].id[m]
           /\ req'[r].oauth = req[r].oauth /\ req'[r].login = req[r].login
           /\ req'[r].code = req[r].code
           /\ req'[r].set = req[r].set \cup {n}
<1>1. PICK i \in Ids :
        /\ IF req[r].id[n] = None THEN files[n][i] = Unused
                                  ELSE i = req[r].id[n]
        /\ files' = [files EXCEPT ![n][i] = values]
        /\ req' = [req EXCEPT ![r].pc = pc, ![r].id[n] = i, ![r].set = @ \cup {n}]
  BY DEF Save
<1>2. req \in [Requests -> Request] /\ req[r] \in Request
  BY RequestTypes
<1>3. /\ files' \in [Names -> [Ids -> Values \cup {Unused, Gone}]]
      /\ \A m \in Names, j \in Ids :
           files'[m][j] = IF m = n /\ j = i THEN values ELSE files[m][j]
  BY <1>1 DEF TypeOK
<1>4. /\ req' \in [Requests -> Request]
      /\ \A o \in Requests \ {r} : req'[o] = req[o]
      /\ req'[r].pc = pc
      /\ \A m \in Names : req'[r].id[m] = IF m = n THEN i ELSE req[r].id[m]
      /\ req'[r].oauth = req[r].oauth /\ req'[r].login = req[r].login
      /\ req'[r].code = req[r].code
      /\ req'[r].set = req[r].set \cup {n}
  BY <1>1, <1>2 DEF Request
<1> QED
  BY <1>1, <1>3, <1>4

(* A step that is no save changes one request, and of it what it says.     *)
LEMMA Changed ==
  ASSUME TypeOK, NEW r \in Requests, NEW q \in Request,
         req' = [req EXCEPT ![r] = q]
  PROVE  /\ req' \in [Requests -> Request]
         /\ \A o \in Requests \ {r} : req'[o] = req[o]
         /\ req'[r] = q
BY RequestTypes

LEMMA Moved ==
  ASSUME TypeOK, NEW r \in Requests, NEW pc \in Running \cup Answers,
         req' = [req EXCEPT ![r].pc = pc]
  PROVE  /\ req' \in [Requests -> Request]
         /\ \A o \in Requests \ {r} : req'[o] = req[o]
         /\ req'[r].pc = pc
         /\ req'[r].id = req[r].id /\ req'[r].set = req[r].set
         /\ req'[r].oauth = req[r].oauth /\ req'[r].login = req[r].login
         /\ req'[r].code = req[r].code
<1>1. req \in [Requests -> Request] /\ req[r] \in Request
  BY RequestTypes
<1> QED
  BY <1>1 DEF Request

LEMMA IdleRequest == Idle \in Request
BY DEF Idle, Request, Values, NoValues

LEMMA GetValues ==
  ASSUME TypeOK, NEW n \in Names, NEW id \in Ids \cup {None}, Got(n, id)
  PROVE  Get(n, id) \in Values
BY DEF Get, Got, Values, NoValues

LEMMA SetVerifier ==
  ASSUME NEW values \in Values, NEW v \in Verifiers
  PROVE  /\ [values EXCEPT !.verifier = v] \in Values
         /\ [values EXCEPT !.verifier = v].verifier = v
BY DEF Values

LEMMA SetZone ==
  ASSUME NEW values \in Values, NEW z \in Zones
  PROVE  /\ [values EXCEPT !.timezone = z] \in Values
         /\ [values EXCEPT !.timezone = z].githubUserData = values.githubUserData
         /\ [values EXCEPT !.timezone = z].timezone = z
BY DEF Values

LEMMA LoginSent ==
  ASSUME TypeOK, NEW r \in Requests, login(r)
  PROVE  \E v \in Verifiers \ generated :
           /\ generated' = generated \cup {v}
           /\ req[r] = Idle
           /\ req' \in [Requests -> Request]
           /\ \A o \in Requests \ {r} : req'[o] = req[o]
           /\ req'[r].pc = "login" /\ req'[r].id = jar /\ req'[r].set = {}
           /\ req'[r].code = v /\ req'[r].oauth.verifier = v
<1>1. PICK v \in Verifiers \ generated :
        /\ generated' = generated \cup {v}
        /\ Send(r, [Idle EXCEPT !.pc = "login", !.id = jar, !.code = v,
                      !.oauth = [Get("login-oauth2", jar["login-oauth2"])
                                   EXCEPT !.verifier = v]])
  BY DEF login
<1> DEFINE oauth == [Get("login-oauth2", jar["login-oauth2"]) EXCEPT !.verifier = v]
           q == [Idle EXCEPT !.pc = "login", !.id = jar, !.code = v, !.oauth = oauth]
<1>2. oauth \in Values /\ oauth.verifier = v
  <2>1. Get("login-oauth2", jar["login-oauth2"]) \in Values
    BY GetValues DEF login, TypeOK, Names
  <2> QED
    BY <2>1, SetVerifier
<1> HIDE DEF oauth
<1>3. q \in Request /\ q.pc = "login" /\ q.id = jar /\ q.set = {} /\ q.code = v
      /\ q.oauth = oauth
  BY <1>2, IdleRequest DEF Request, Running, TypeOK, Idle
<1>4. req[r] = Idle /\ req' = [req EXCEPT ![r] = q]
  BY <1>1 DEF Send, oauth
<1> HIDE DEF q
<1> QED
  BY <1>1, <1>2, <1>3, <1>4, Changed

LEMMA CallbackSent ==
  ASSUME TypeOK, NEW r \in Requests, loginCallback(r)
  PROVE  \E c \in offered :
           /\ req[r] = Idle
           /\ req' \in [Requests -> Request]
           /\ \A o \in Requests \ {r} : req'[o] = req[o]
           /\ req'[r].pc = "callback" /\ req'[r].id = jar /\ req'[r].set = {}
           /\ req'[r].code = c
           /\ req'[r].oauth = Get("login-oauth2", jar["login-oauth2"])
<1>1. PICK c \in offered :
        Send(r, [Idle EXCEPT !.pc = "callback", !.id = jar, !.code = c,
                   !.oauth = Get("login-oauth2", jar["login-oauth2"])])
  BY DEF loginCallback
<1> DEFINE oauth == Get("login-oauth2", jar["login-oauth2"])
           q == [Idle EXCEPT !.pc = "callback", !.id = jar, !.code = c, !.oauth = oauth]
<1>2. oauth \in Values
  BY GetValues DEF loginCallback, TypeOK, Names
<1> HIDE DEF oauth
<1>3. q \in Request /\ q.pc = "callback" /\ q.id = jar /\ q.set = {} /\ q.code = c
      /\ q.oauth = oauth
  BY <1>2, IdleRequest DEF Request, Running, TypeOK, Idle
<1>4. req[r] = Idle /\ req' = [req EXCEPT ![r] = q]
  BY <1>1 DEF Send, oauth
<1> HIDE DEF q
<1> QED
  BY <1>3, <1>4, Changed DEF oauth

LEMMA SettingsSent ==
  ASSUME TypeOK, NEW r \in Requests, loginSettings(r)
  PROVE  /\ jar["login"] # None
         /\ req[r] = Idle
         /\ req' \in [Requests -> Request]
         /\ \A o \in Requests \ {r} : req'[o] = req[o]
         /\ req'[r].pc = "settings" /\ req'[r].id = jar /\ req'[r].set = {}
         /\ req'[r].login.githubUserData # None
         /\ req'[r].login.timezone \in Zones
<1>1. PICK z \in Zones :
        Send(r, [Idle EXCEPT !.pc = "settings", !.id = jar,
                   !.login = [Get("login", jar["login"]) EXCEPT !.timezone = z]])
  BY DEF loginSettings
<1> DEFINE l == [Get("login", jar["login"]) EXCEPT !.timezone = z]
           q == [Idle EXCEPT !.pc = "settings", !.id = jar, !.login = l]
<1>2. l \in Values /\ l.githubUserData # None /\ l.timezone = z
  <2>1. Get("login", jar["login"]) \in Values
    BY GetValues DEF loginSettings, someLogin, TypeOK, Names
  <2> QED
    BY <2>1, SetZone DEF loginSettings, someLogin
<1>3. jar["login"] # None
  BY DEF loginSettings, someLogin, Get, NoValues
<1> HIDE DEF l
<1>4. q \in Request /\ q.pc = "settings" /\ q.id = jar /\ q.set = {} /\ q.login = l
  BY <1>2, IdleRequest DEF Request, Running, TypeOK, Idle
<1>5. req[r] = Idle /\ req' = [req EXCEPT ![r] = q]
  BY <1>1 DEF Send, l
<1> HIDE DEF q
<1> QED
  BY <1>2, <1>3, <1>4, <1>5, Changed

LEMMA SessionsRead ==
  ASSUME TypeOK, NEW r \in Requests, CallbackGet(r)
  PROVE  /\ req' \in [Requests -> Request]
         /\ \A o \in Requests \ {r} : req'[o] = req[o]
         /\ req'[r].id = req[r].id /\ req'[r].set = req[r].set
         /\ req'[r].code = req[r].code /\ req'[r].oauth = req[r].oauth
         /\ \/ req'[r].pc = "answered"
            \/ req'[r].pc = "refused" /\ req[r].oauth.verifier = None
            \/ /\ req'[r].pc = "exchange"
               /\ Got("login", req[r].id["login"])
               /\ req'[r].login = Get("login", req[r].id["login"])
<1>1. req[r] \in Request /\ req[r].id["login"] \in Ids \cup {None}
  BY RequestTypes DEF Request, Names
<1> DEFINE id == req[r].id["login"]
<1>2. CASE ~Got("login", id)
  <2>1. req' = [req EXCEPT ![r].pc = "answered"]
    BY <1>2 DEF CallbackGet
  <2> QED
    BY <2>1, Moved DEF Answers
<1>3. CASE Got("login", id) /\ req[r].oauth.verifier = None
  <2>1. req' = [req EXCEPT ![r].pc = "refused"]
    BY <1>3 DEF CallbackGet
  <2> QED
    BY <1>3, <2>1, Moved DEF Answers
<1>4. CASE Got("login", id) /\ req[r].oauth.verifier # None
  <2> DEFINE l == Get("login", id)
             q == [req[r] EXCEPT !.pc = "exchange", !.login = l]
  <2>1. l \in Values
    BY <1>1, <1>4, GetValues DEF Names
  <2>2. req' = [req EXCEPT ![r] = q]
    BY <1>4 DEF CallbackGet
  <2> HIDE DEF l
  <2>3. q \in Request /\ q.pc = "exchange" /\ q.id = req[r].id
        /\ q.set = req[r].set /\ q.code = req[r].code /\ q.oauth = req[r].oauth
        /\ q.login = l
    BY <1>1, <2>1 DEF Request, Running
  <2> HIDE DEF q
  <2> QED
    BY <1>4, <2>2, <2>3, Changed DEF l
<1> QED
  BY <1>2, <1>3, <1>4

LEMMA Exchanged ==
  ASSUME TypeOK, NEW r \in Requests, Exchange(r)
  PROVE  /\ req' \in [Requests -> Request]
         /\ \A o \in Requests \ {r} : req'[o] = req[o]
         /\ req'[r].id = req[r].id /\ req'[r].set = req[r].set
         /\ req'[r].pc = "saveOauth" /\ req'[r].code = req[r].code
         /\ req'[r].oauth.verifier = None
         /\ req'[r].login.timezone = req[r].login.timezone
         /\ req'[r].login.githubUserData # None
<1>1. PICK u \in Users :
        req' = [req EXCEPT ![r].pc = "saveOauth",
                  ![r].oauth.verifier = None, ![r].login.githubUserData = u]
  BY DEF Exchange
<1>2. req \in [Requests -> Request] /\ req[r] \in Request /\ u # None
  BY RequestTypes, SessionsAssumption
<1>3. req' \in [Requests -> Request] /\ \A o \in Requests \ {r} : req'[o] = req[o]
  BY <1>1, <1>2 DEF Request, Running, Values
<1> QED
  BY <1>1, <1>2, <1>3 DEF Request, Values

LEMMA ExchangeFailed ==
  ASSUME TypeOK, NEW r \in Requests, ExchangeFails(r)
  PROVE  /\ req' \in [Requests -> Request]
         /\ \A o \in Requests \ {r} : req'[o] = req[o]
         /\ req'[r].id = req[r].id /\ req'[r].set = req[r].set
         /\ req'[r].code = req[r].code
         /\ \/ req'[r].pc = "refused" /\ req[r].oauth.verifier # req[r].code
            \/ req'[r].pc = "answered"
<1>1. CASE req[r].oauth.verifier # req[r].code
  <2>1. req' = [req EXCEPT ![r].pc = "refused"] /\ "refused" \in Running \cup Answers
    BY <1>1 DEF ExchangeFails, Answers
  <2> QED
    BY <1>1, <2>1, Moved
<1>2. CASE req[r].oauth.verifier = req[r].code
  <2>1. req' = [req EXCEPT ![r].pc = "answered"] /\ "answered" \in Running \cup Answers
    BY <1>2 DEF ExchangeFails, Answers
  <2> QED
    BY <2>1, Moved
<1> QED
  BY <1>1, <1>2

LEMMA StorageFailed ==
  ASSUME TypeOK, NEW r \in Requests, StorageError(r)
  PROVE  /\ files' \in [Names -> [Ids -> Values \cup {Unused, Gone}]]
         /\ \A m \in Names, j \in Ids :
              \/ files'[m][j] = files[m][j]
              \/ files'[m][j] = Gone
         /\ req' \in [Requests -> Request]
         /\ \A o \in Requests \ {r} : req'[o] = req[o]
         /\ req'[r].pc = "answered"
         /\ req'[r].id = req[r].id /\ req'[r].set = req[r].set
<1>1. PICK n \in Names : SaveFails(r, n)
  BY DEF StorageError, Names
<1>2. req' = [req EXCEPT ![r].pc = "answered"]
  BY <1>1 DEF SaveFails
<1>3. req[r].id[n] \in Ids \cup {None}
  BY RequestTypes DEF Request
<1>4. \/ UNCHANGED files
      \/ req[r].id[n] \in Ids /\ files' = [files EXCEPT ![n][req[r].id[n]] = Gone]
  BY <1>1, <1>3 DEF SaveFails
<1>5. /\ files' \in [Names -> [Ids -> Values \cup {Unused, Gone}]]
      /\ \A m \in Names, j \in Ids :
           files'[m][j] = files[m][j] \/ files'[m][j] = Gone
  <2>1. files \in [Names -> [Ids -> Values \cup {Unused, Gone}]]
    BY DEF TypeOK
  <2>2. CASE UNCHANGED files
    BY <2>1, <2>2
  <2>3. CASE /\ req[r].id[n] \in Ids
             /\ files' = [files EXCEPT ![n][req[r].id[n]] = Gone]
    BY <2>1, <2>3
  <2> QED
    BY <1>4, <2>2, <2>3
<1> QED
  BY <1>2, <1>5, Moved DEF Answers

LEMMA Left ==
  ASSUME TypeOK, NEW r \in Requests, Receive(r) \/ NoAnswer(r)
  PROVE  /\ req' \in [Requests -> Request]
         /\ \A o \in Requests \ {r} : req'[o] = req[o]
         /\ req'[r] = Idle
<1>1. req' = [req EXCEPT ![r] = Idle]
  BY DEF Receive, NoAnswer
<1> QED
  BY <1>1, RequestTypes, IdleRequest

LEMMA AnyFileLost ==
  ASSUME TypeOK, FileLost
  PROVE  /\ files' \in [Names -> [Ids -> Values \cup {Unused, Gone}]]
         /\ \A m \in Names, j \in Ids :
              \/ files'[m][j] = files[m][j]
              \/ files'[m][j] = Gone
BY DEF FileLost, TypeOK

-----------------------------------------------------------------------------
(* Types.                                                                  *)

HasUser(q) ==
  q.pc \in {"saveOauth", "saveLogin", "settings"} => q.login.githubUserData # None

(* Where the code of a request comes from.                                 *)
CodeOf(q) ==
  /\ q.pc \in {"login", "redirected"} => q.code \in generated
  /\ q.pc \in {"callback", "exchange"} => q.code \in offered

Typed ==
  /\ files \in [Names -> [Ids -> Values \cup {Unused, Gone}]]
  /\ jar \in [Names -> Ids \cup {None}]
  /\ req \in [Requests -> Request]
  /\ \A r \in Requests : HasUser(req[r]) /\ CodeOf(req[r])
  /\ generated \subseteq Verifiers /\ offered \subseteq generated
  /\ spent \subseteq offered
  /\ serial \in BOOLEAN /\ told \in BOOLEAN
  /\ chosen \in Zones \cup {None} /\ pending \in generated \cup {None}

LEMMA TypedImplies == Typed => TypeOK
BY DEF Typed, TypeOK, Request, HasUser

LEMMA StepTypes == Typed /\ [Next]_vars => Typed'
<1> SUFFICES ASSUME Typed, [Next]_vars PROVE Typed'
  OBVIOUS
<1>0. TypeOK
  BY TypedImplies
<1> USE DEF Typed
<1>1. CASE UNCHANGED vars
  BY <1>1 DEF vars, history, HasUser, CodeOf
<1>2. ASSUME NEW r \in Requests, login(r) PROVE Typed'
  BY <1>2, LoginSent, <1>0 DEF login, Send, HasUser, CodeOf
<1>3. ASSUME NEW r \in Requests, LoginSave(r) PROVE Typed'
  <2>1. req[r].oauth \in Values /\ req[r].code \in generated /\ req[r].pc = "login"
    BY <1>3, <1>0 DEF LoginSave, Request, CodeOf
  <2> QED
    BY <1>3, <2>1, Saved, <1>0
       DEF LoginSave, HasUser, CodeOf, Names, Answers
<1>4. ASSUME NEW r \in Requests, loginCallback(r) PROVE Typed'
  BY <1>4, CallbackSent, <1>0 DEF loginCallback, Send, HasUser, CodeOf
<1>5. ASSUME NEW r \in Requests, CallbackGet(r) PROVE Typed'
  <2>1. /\ req[r].pc = "callback"
        /\ UNCHANGED <<files, jar, generated, offered, spent, history>>
    BY <1>5 DEF CallbackGet
  <2> QED
    BY <1>0, <1>5, <2>1, SessionsRead DEF history, HasUser, CodeOf
<1>6. ASSUME NEW r \in Requests, Exchange(r) PROVE Typed'
  <2>1. /\ req[r].code \in offered /\ spent' = spent \cup {req[r].code}
        /\ UNCHANGED <<files, jar, generated, offered, history>>
    BY <1>6 DEF Exchange, CodeOf
  <2> QED
    BY <1>0, <1>6, <2>1, Exchanged DEF history, HasUser, CodeOf
<1>7. ASSUME NEW r \in Requests, ExchangeFails(r) PROVE Typed'
  <2>3. req[r].code \in offered
    BY <1>7 DEF ExchangeFails, CodeOf
  <2>4. spent' \subseteq offered
    BY <1>7, <2>3, <1>0 DEF ExchangeFails
  <2> QED
    BY <1>7, <2>4, <1>0, ExchangeFailed DEF ExchangeFails, history, HasUser, CodeOf
<1>8. ASSUME NEW r \in Requests, CallbackSaveOauth(r) PROVE Typed'
  <2>1. req[r].oauth \in Values
    BY DEF Request
  <2> QED
    BY <1>8, <1>0, <2>1, Saved
       DEF CallbackSaveOauth, HasUser, CodeOf, Names, Running
<1>9. ASSUME NEW r \in Requests, CallbackSaveLogin(r) PROVE Typed'
  <2>1. req[r].login \in Values
    BY DEF Request
  <2> QED
    BY <1>9, <2>1, Saved, <1>0
       DEF CallbackSaveLogin, history, HasUser, CodeOf, Names, Answers
<1>10. ASSUME NEW r \in Requests, loginSettings(r) PROVE Typed'
  BY <1>10, SettingsSent, <1>0 DEF loginSettings, Send, HasUser, CodeOf
<1>11. ASSUME NEW r \in Requests, SettingsSave(r) PROVE Typed'
  <2>1. req[r].login \in Values
    BY DEF Request
  <2>2. chosen' \in Zones \cup {None}
    BY <1>11, <2>1 DEF SettingsSave, Values
  <2> QED
    BY <1>11, <2>1, <2>2, Saved, <1>0
       DEF SettingsSave, HasUser, CodeOf, Names, Answers
<1>12. ASSUME NEW r \in Requests, StorageError(r) PROVE Typed'
  BY <1>12, StorageFailed, <1>0 DEF StorageError, history, HasUser, CodeOf
<1>13. ASSUME NEW r \in Requests, Receive(r) PROVE Typed'
  <2>1. jar' \in [Names -> Ids \cup {None}]
    BY <1>13, <1>0 DEF Receive, Request
  <2>2. offered \subseteq offered' /\ offered' \subseteq generated
    BY <1>13, <1>0 DEF Receive, CodeOf
  <2> QED
    BY <1>13, <2>1, <2>2, Left, <1>0 DEF Receive, HasUser, CodeOf, Idle
<1>14. ASSUME NEW r \in Requests, NoAnswer(r) PROVE Typed'
  BY <1>14, Left, <1>0 DEF NoAnswer, history, HasUser, CodeOf, Idle
<1>15. ASSUME NEW n \in Names, Forget(n) PROVE Typed'
  BY <1>15, <1>0 DEF Forget, HasUser, CodeOf
<1>16. CASE FileLost
  BY <1>16, AnyFileLost, <1>0 DEF FileLost, history, HasUser, CodeOf
<1> QED
  BY <1>1, <1>2, <1>3, <1>4, <1>5, <1>6, <1>7, <1>8, <1>9, <1>10, <1>11, <1>12,
     <1>13, <1>14, <1>15, <1>16 DEF Next

LEMMA IdleFields ==
  /\ Idle \in Request /\ Idle.pc = "idle" /\ Idle.set = {} /\ Idle.code = None
  /\ \A n \in Names : Idle.id[n] = None
  /\ Idle.login.timezone = None
BY IdleRequest DEF Idle, NoValues

LEMMA InitTyped == Init => Typed
<1> SUFFICES ASSUME Init PROVE Typed
  OBVIOUS
<1>1. req \in [Requests -> Request] /\ \A r \in Requests : req[r] = Idle
  BY IdleFields DEF Init
<1>2. \A r \in Requests : HasUser(req[r]) /\ CodeOf(req[r])
  BY <1>1, IdleFields DEF HasUser, CodeOf
<1> QED
  BY <1>1, <1>2 DEF Init, Typed

(* What is stored has its type, and who saves a login session has a user.  *)
THEOREM TypesHold == Spec => []TypeOK
<1>1. Init => Typed
  BY InitTyped
<1> QED
  BY <1>1, StepTypes, TypedImplies, PTL DEF Spec

-----------------------------------------------------------------------------
(* Whatever is sent and saved at once.                                     *)

(* The sessions that a request names are stored, also those it hands out.  *)
Kept(q) ==
  /\ \A n \in Names : q.id[n] # None => files[n][q.id[n]] # Unused
  /\ \A n \in q.set : q.id[n] # None
  /\ q.pc = "welcomed" => "login" \in q.set

Stored ==
  /\ \A r \in Requests : Kept(req[r])
  /\ CookieHasFile
  /\ \A i \in Ids :
       files["login"][i] \in Values => files["login"][i].githubUserData # None
  /\ told => jar["login"] # None

(* No step takes a session out of use.                                     *)
StillUsed ==
  \A m \in Names, j \in Ids : files[m][j] # Unused => files'[m][j] # Unused

LEMMA KeptFiles ==
  ASSUME Typed, Stored, StillUsed, jar' = jar, told' = told,
         NEW r \in Requests, \A o \in Requests \ {r} : req'[o] = req[o],
         Kept(req[r])',
         \A i \in Ids : files'["login"][i] \in Values =>
                          files'["login"][i].githubUserData # None
  PROVE  Stored'
<1>1. ASSUME NEW o \in Requests \ {r} PROVE Kept(req[o])'
  BY <1>1 DEF Stored, Kept, StillUsed, Typed, Request
<1> QED
  BY <1>1 DEF Stored, CookieHasFile, StillUsed, Typed

LEMMA StepStored == Typed /\ Stored /\ [Next]_vars => Stored'
<1> SUFFICES ASSUME Typed, Stored, [Next]_vars PROVE Stored'
  OBVIOUS
<1>0. TypeOK
  BY TypedImplies
<1>a. /\ \A r \in Requests : Kept(req[r])
      /\ \A i \in Ids :
           files["login"][i] \in Values => files["login"][i].githubUserData # None
  BY DEF Stored
<1>b. \A r \in Requests : req[r] \in Request /\ req[r].oauth \in Values
                                             /\ req[r].login \in Values
  BY DEF Typed, Request
<1>c. Unused \notin Values /\ Gone \notin Values /\ Unused # Gone
  BY SessionsAssumption
<1>1. CASE UNCHANGED vars
  BY <1>1 DEF vars, history, Stored, Kept, CookieHasFile
<1>2. ASSUME NEW r \in Requests, login(r) \/ loginCallback(r) \/ loginSettings(r)
      PROVE  Stored'
  <2>1. UNCHANGED <<files, jar, told>>
    BY <1>2 DEF login, loginCallback, loginSettings
  <2>2. /\ \A o \in Requests \ {r} : req'[o] = req[o]
        /\ req'[r].id = jar /\ req'[r].set = {} /\ req'[r].pc # "welcomed"
    BY <1>0, <1>2, LoginSent, CallbackSent, SettingsSent
  <2>3. Kept(req[r])'
    BY <2>1, <2>2 DEF Kept, Stored, CookieHasFile
  <2> QED
    BY <1>a, <2>1, <2>2, <2>3, KeptFiles DEF StillUsed
<1>3. ASSUME NEW r \in Requests, NEW n \in Names, NEW values \in Values,
             NEW pc \in Running \cup Answers, Save(r, n, values, pc),
             jar' = jar, told' = told,
             n = "login" => values.githubUserData # None,
             pc = "welcomed" => n = "login"
      PROVE  Stored'
  <2>1. PICK i \in Ids :
          /\ IF req[r].id[n] = None THEN files[n][i] = Unused
                                    ELSE i = req[r].id[n]
          /\ \A m \in Names, j \in Ids :
               files'[m][j] = IF m = n /\ j = i THEN values ELSE files[m][j]
          /\ \A o \in Requests \ {r} : req'[o] = req[o]
          /\ req'[r].pc = pc
          /\ \A m \in Names : req'[r].id[m] = IF m = n THEN i ELSE req[r].id[m]
          /\ req'[r].set = req[r].set \cup {n}
    BY <1>0, <1>3, Saved
  <2>2. StillUsed
    BY <1>c, <2>1 DEF StillUsed
  <2>3. i # None
    BY SessionsAssumption
  <2>4. req[r].set \subseteq Names /\ req[r].id \in [Names -> Ids \cup {None}]
    BY <1>b DEF Request
  <2>5. Kept(req[r])'
    <3>1. ASSUME NEW m \in Names, req'[r].id[m] # None
          PROVE  files'[m][req'[r].id[m]] # Unused
      <4>1. CASE m = n
        BY <1>c, <2>1, <4>1
      <4>2. CASE m # n
        <5>1. req'[r].id[m] = req[r].id[m] /\ req[r].id[m] \in Ids
          BY <2>1, <2>4, <3>1, <4>2
        <5> QED
          BY <1>a, <2>2, <3>1, <5>1 DEF Kept, StillUsed
      <4> QED
        BY <4>1, <4>2
    <3>2. \A m \in req'[r].set : req'[r].id[m] # None
      BY <1>a, <2>1, <2>3, <2>4 DEF Kept
    <3> QED
      BY <1>3, <2>1, <3>1, <3>2 DEF Kept
  <2>6. \A j \in Ids : files'["login"][j] \in Values =>
                         files'["login"][j].githubUserData # None
    BY <1>3, <1>a, <2>1 DEF Names
  <2> QED
    BY <1>3, <2>1, <2>2, <2>5, <2>6, KeptFiles
<1>4. ASSUME NEW r \in Requests, LoginSave(r) \/ CallbackSaveOauth(r) PROVE Stored'
  BY <1>3, <1>4, <1>b DEF LoginSave, CallbackSaveOauth, Names, Running, Answers
<1>5. ASSUME NEW r \in Requests, CallbackSaveLogin(r) \/ SettingsSave(r) PROVE Stored'
  <2>1. req[r].login.githubUserData # None
    BY <1>5 DEF CallbackSaveLogin, SettingsSave, Typed, HasUser
  <2> QED
    BY <1>3, <1>5, <1>b, <2>1
       DEF CallbackSaveLogin, SettingsSave, history, Names, Answers
<1>6. ASSUME NEW r \in Requests, CallbackGet(r) \/ Exchange(r) \/ ExchangeFails(r)
      PROVE  Stored'
  <2>1. UNCHANGED <<files, jar, told>>
    BY <1>6 DEF CallbackGet, Exchange, ExchangeFails, history
  <2>2. /\ \A o \in Requests \ {r} : req'[o] = req[o]
        /\ req'[r].id = req[r].id /\ req'[r].set = req[r].set
        /\ req'[r].pc # "welcomed"
    <3>1. CASE CallbackGet(r) \/ Exchange(r)
      BY <1>0, <3>1, SessionsRead, Exchanged
    <3>2. CASE ExchangeFails(r)
      BY <1>0, <3>2, ExchangeFailed
    <3> QED
      BY <1>6, <3>1, <3>2
  <2>3. Kept(req[r])'
    BY <1>a, <2>1, <2>2 DEF Kept
  <2> QED
    BY <1>a, <2>1, <2>2, <2>3, KeptFiles DEF StillUsed
<1>7. ASSUME NEW r \in Requests, StorageError(r) PROVE Stored'
  <2>1. StillUsed
    BY <1>0, <1>7, <1>c, StorageFailed DEF StillUsed
  <2>2. Kept(req[r])'
    <3>1. req[r].id \in [Names -> Ids \cup {None}]
      BY <1>b DEF Request
    <3>2. req'[r].pc = "answered" /\ req'[r].id = req[r].id /\ req'[r].set = req[r].set
      BY <1>0, <1>7, StorageFailed
    <3>3. Kept(req[r])
      BY <1>a
    <3> QED
      BY <2>1, <3>1, <3>2, <3>3 DEF Kept, StillUsed
  <2>3. \A j \in Ids : files'["login"][j] \in Values =>
                         files'["login"][j].githubUserData # None
    BY <1>0, <1>7, <1>a, <1>c, StorageFailed DEF Names
  <2> QED
    BY <1>0, <1>7, <2>1, <2>2, <2>3, StorageFailed, KeptFiles
       DEF StorageError, history
<1>8. ASSUME NEW r \in Requests, Receive(r) PROVE Stored'
  <2>1. UNCHANGED files
    BY <1>8 DEF Receive
  <2>2. \A o \in Requests : Kept(req[o])'
    BY <1>0, <1>8, <1>a, <2>1, Left DEF Kept, Idle
  <2>3. /\ \A n \in Names : jar'[n] = IF n \in req[r].set THEN req[r].id[n] ELSE jar[n]
        /\ told' = (told \/ req[r].pc = "welcomed")
    BY <1>8 DEF Receive
  <2>4. CookieHasFile'
    BY <1>a, <2>1, <2>3 DEF Stored, CookieHasFile, Kept
  <2>5. (told => jar["login"] # None)'
    BY <1>a, <2>3 DEF Stored, Kept, Names
  <2> QED
    BY <1>a, <2>1, <2>2, <2>4, <2>5 DEF Stored
<1>9. ASSUME NEW r \in Requests, NoAnswer(r) PROVE Stored'
  BY <1>0, <1>9, <1>a, Left DEF NoAnswer, history, Stored, CookieHasFile, Kept, Idle
<1>10. ASSUME NEW n \in Names, Forget(n) PROVE Stored'
  <2>1. UNCHANGED <<files, req>> /\ jar' = [jar EXCEPT ![n] = None]
        /\ told' = (told /\ n # "login")
    BY <1>10 DEF Forget
  <2>2. \A o \in Requests : Kept(req[o])'
    BY <1>a, <2>1 DEF Kept
  <2>3. \A m \in Names : jar'[m] = IF m = n THEN None ELSE jar[m]
    BY <2>1 DEF Typed
  <2>4. CookieHasFile'
    BY <2>1, <2>3 DEF Stored, CookieHasFile
  <2>5. (told => jar["login"] # None)'
    BY <2>1, <2>3 DEF Stored, Names
  <2> QED
    BY <1>a, <2>1, <2>2, <2>4, <2>5 DEF Stored
<1>11. CASE FileLost
  <2>1. StillUsed
    BY <1>0, <1>11, <1>c, AnyFileLost DEF StillUsed
  <2>2. \A j \in Ids : files'["login"][j] \in Values =>
                         files'["login"][j].githubUserData # None
    BY <1>0, <1>11, <1>a, <1>c, AnyFileLost DEF Names
  <2> QED
    BY <1>11, <1>a, <1>b, <2>1, <2>2
       DEF FileLost, history, Stored, CookieHasFile, Kept, StillUsed, Typed, Request
<1> QED
  BY <1>1, <1>2, <1>4, <1>5, <1>6, <1>7, <1>8, <1>9, <1>10, <1>11 DEF Next

LEMMA StoredHolds == Spec => [](Typed /\ Stored)
<1>1. Init => Stored
  <2> SUFFICES ASSUME Init PROVE Stored
    OBVIOUS
  <2>2. /\ \A r \in Requests : req[r] = Idle
        /\ \A n \in Names : jar[n] = None
        /\ told = FALSE
        /\ \A i \in Ids : files["login"][i] = Unused
    <3>1. "login" \in Names
      BY DEF Names
    <3>2. files = [n \in Names |-> [i \in Ids |-> Unused]]
      BY DEF Init
    <3>3. files["login"] = [i \in Ids |-> Unused]
      BY <3>1, <3>2
    <3>4. \A i \in Ids : files["login"][i] = Unused
      BY <3>3
    <3> QED
      BY <3>4 DEF Init
  <2>3. Kept(Idle)
    BY IdleFields DEF Kept
  <2> QED
    BY <2>2, <2>3, SessionsAssumption DEF Stored, CookieHasFile
<1> QED
  BY InitTyped, <1>1, StepTypes, StepStored, PTL DEF Spec

(* No browser is given a cookie whose session was not stored.              *)
THEOREM CookiesHaveFiles == Spec => []CookieHasFile
<1>1. Stored => CookieHasFile
  BY DEF Stored
<1> QED
  BY <1>1, StoredHolds, PTL

(* Overlapping requests never put a login session without a user in the    *)
(* place of one with a user: once told, a browser keeps its cookie, and    *)
(* the file behind it names a user or cannot be read.                      *)
THEOREM LoginsLast == Spec => []LoggedInStays
<1>1. Typed /\ Stored => LoggedInStays
  BY DEF Typed, Stored, LoggedInStays, Got, Get, Names
<1> QED
  BY <1>1, StoredHolds, PTL

(* A user who is logged in is so after a step that leaves the cookie, and  *)
(* the file behind it readable.                                            *)
LEMMA StaysLoggedIn ==
  ASSUME Typed, Stored, Stored', LoggedIn, jar'["login"] = jar["login"],
         files'["login"][jar["login"]] \in Values
  PROVE  LoggedIn'
<1>1. jar["login"] \in Ids
  BY DEF LoggedIn, Get, NoValues, Typed, Names
<1>2. jar["login"] # None
  BY <1>1, SessionsAssumption
<1> QED
  BY <1>1, <1>2 DEF LoggedIn, Got, Get, Stored

LEMMA LoginFile ==
  ASSUME Typed, LoggedIn
  PROVE  jar["login"] \in Ids /\ files["login"][jar["login"]] \in Values
<1>1. jar["login"] # None
  BY DEF LoggedIn, Get, NoValues
<1> QED
  BY <1>1 DEF LoggedIn, Got, Typed, Names

(* The four ways in which a user is logged out.                            *)
LEMMA LogoutSteps ==
  ASSUME Typed, Stored, Stored', Next, LoggedIn, ~LoggedIn'
  PROVE  \/ Forget("login") \/ FileLost
         \/ \E r \in Requests :
              \/ StorageError(r) /\ req[r].pc \in {"saveLogin", "settings"}
              \/ /\ Receive(r) /\ "login" \in req[r].set
                 /\ files["login"][req[r].id["login"]] = Gone
<1>0. TypeOK
  BY TypedImplies
<1>a. /\ jar["login"] \in Ids /\ files["login"][jar["login"]] \in Values
      /\ "login" \in Names
  BY LoginFile DEF Names
<1>b. \A r \in Requests : req[r].oauth \in Values /\ req[r].login \in Values
  BY DEF Typed, Request
<1>1. ASSUME jar' = jar, files' = files PROVE FALSE
  BY <1>1, <1>a, StaysLoggedIn
<1>2. ASSUME NEW r \in Requests, NEW n \in Names, NEW values \in Values,
             NEW pc \in Running \cup Answers, Save(r, n, values, pc), jar' = jar
      PROVE  FALSE
  <2>1. files'["login"][jar["login"]] \in Values
    BY <1>0, <1>2, <1>a, Saved
  <2> QED
    BY <1>2, <2>1, StaysLoggedIn
<1>3. ASSUME NEW r \in Requests, StorageError(r)
      PROVE  req[r].pc \in {"saveLogin", "settings"}
  <2>1. jar' = jar
    BY <1>3 DEF StorageError
  <2>2. CASE SaveFails(r, "login-oauth2")
    <3>1. files'["login"][jar["login"]] = files["login"][jar["login"]]
      BY <2>2, <1>a DEF SaveFails, Typed, Names
    <3> QED
      BY <2>1, <3>1, <1>a, StaysLoggedIn
  <2> QED
    BY <1>3, <2>2 DEF StorageError
<1>4. ASSUME NEW r \in Requests, Receive(r)
      PROVE  /\ "login" \in req[r].set
             /\ files["login"][req[r].id["login"]] = Gone
  <2>1. /\ files' = files
        /\ jar'["login"] = IF "login" \in req[r].set THEN req[r].id["login"]
                                                    ELSE jar["login"]
    BY <1>4, <1>a DEF Receive
  <2>2. "login" \in req[r].set
    BY <2>1, <1>a, StaysLoggedIn
  <2> DEFINE id == req[r].id["login"]
  <2>3. id \in Ids /\ files["login"][id] # Unused
    <3>1. id # None /\ files["login"][id] # Unused
      BY <2>2, <1>a DEF Stored, Kept
    <3> QED
      BY <3>1, <1>a DEF Typed, Request
  <2>4. files["login"][id] \in Values \cup {Unused, Gone}
    BY <2>3, <1>a DEF Typed
  <2>5. CASE files["login"][id] \in Values
    <3>1. files["login"][id].githubUserData # None
      BY <2>3, <2>5 DEF Stored
    <3>2. id # None
      BY <2>3, SessionsAssumption
    <3> QED
      BY <2>1, <2>2, <2>5, <3>1, <3>2 DEF LoggedIn, Got, Get
  <2> QED
    BY <2>2, <2>3, <2>4, <2>5
<1>5. ASSUME NEW n \in Names, Forget(n) PROVE n = "login"
  <2>1. CASE n # "login"
    <3>1. jar'["login"] = jar["login"] /\ files' = files
      BY <1>5, <1>a, <2>1 DEF Forget, Typed
    <3> QED
      BY <3>1, <1>a, StaysLoggedIn
  <2> QED
    BY <2>1
<1>6. ASSUME NEW r \in Requests,
             \/ login(r) \/ loginCallback(r) \/ CallbackGet(r) \/ Exchange(r)
             \/ ExchangeFails(r) \/ loginSettings(r) \/ NoAnswer(r)
      PROVE  FALSE
  <2>1. jar' = jar /\ files' = files
    BY <1>6 DEF login, loginCallback, CallbackGet, Exchange, ExchangeFails,
                loginSettings, NoAnswer
  <2> QED
    BY <2>1, <1>1
<1>7. ASSUME NEW r \in Requests,
             \/ LoginSave(r) \/ CallbackSaveOauth(r) \/ CallbackSaveLogin(r)
             \/ SettingsSave(r)
      PROVE  FALSE
  BY <1>7, <1>2, <1>b DEF LoginSave, CallbackSaveOauth, CallbackSaveLogin,
     SettingsSave, Names, Running, Answers
<1> QED
  BY <1>3, <1>4, <1>5, <1>6, <1>7 DEF Next

(* Apart from the browser dropping its cookie, a user is logged out only   *)
(* by the loss of a file: cleared, half written by a Save of a login       *)
(* session, or gone before an answer hands it out.  No request that        *)
(* succeeds does it, however it overlaps with others.                      *)
THEOREM LoggedOutByLoss == Spec => LogoutOnlyByLoss
<1>1. Typed /\ Stored /\ Stored' /\ [Next]_vars =>
        [LoggedIn /\ ~LoggedIn' =>
           \/ Forget("login") \/ FileLost
           \/ \E r \in Requests :
                \/ StorageError(r) /\ req[r].pc \in {"saveLogin", "settings"}
                \/ /\ Receive(r) /\ "login" \in req[r].set
                   /\ files["login"][req[r].id["login"]] = Gone]_vars
  BY LogoutSteps
<1> QED
  BY <1>1, StoredHolds, StepStored, PTL DEF Spec, LogoutOnlyByLoss

-----------------------------------------------------------------------------
(* Requests sent one after the other.                                      *)

Alone == \A r, o \in Requests : req[r] # Idle /\ req[o] # Idle => r = o

(* The zone, in what a request has read and in the session it names.       *)
ZoneOf(q) ==
  /\ q.pc \in {"callback", "settings"} => q.id["login"] = jar["login"]
  /\ q.pc = "settings" => q.id["login"] # None
  /\ q.pc \in {"exchange", "saveOauth", "saveLogin"} => q.login.timezone = chosen
  /\ q.id["login"] # None /\ files["login"][q.id["login"]] \in Values =>
       files["login"][q.id["login"]].timezone = chosen

ZoneSerial ==
  /\ \A r \in Requests : ZoneOf(req[r])
  /\ jar["login"] = None => chosen = None
  /\ jar["login"] # None /\ files["login"][jar["login"]] \in Values =>
       files["login"][jar["login"]].timezone = chosen

(* The verifier, likewise.                                                 *)
VerifierOf(q) ==
  /\ q.pc = "login" => q.oauth.verifier = q.code /\ q.code \notin offered
  /\ q.pc = "redirected" =>
       /\ q.code = pending /\ "login-oauth2" \in q.set
       /\ files["login-oauth2"][q.id["login-oauth2"]] \in Values =>
            files["login-oauth2"][q.id["login-oauth2"]].verifier = q.code
  /\ "login-oauth2" \in q.set /\ q.pc # "redirected" => pending = None
  /\ q.pc \in {"callback", "exchange"} =>
       (q.code = pending => q.oauth.verifier = pending)
  /\ q.pc = "refused" => q.code # pending

VerifierSerial ==
  /\ \A r \in Requests : VerifierOf(req[r])
  /\ pending \in offered =>
       /\ jar["login-oauth2"] # None
       /\ files["login-oauth2"][jar["login-oauth2"]] \in Values =>
            files["login-oauth2"][jar["login-oauth2"]].verifier = pending

LEMMA StepAlone ==
  ASSUME Typed, serial => Alone, [Next]_vars
  PROVE  (serial => Alone)'
<1> SUFFICES ASSUME serial' PROVE Alone'
  OBVIOUS
<1>0. TypeOK
  BY TypedImplies
<1>1. CASE UNCHANGED vars
  BY <1>1 DEF vars, history, Alone
<1>2. ASSUME NEW r \in Requests,
             login(r) \/ loginCallback(r) \/ loginSettings(r)
      PROVE  Alone'
  <2>1. serial' = (serial /\ req = [o \in Requests |-> Idle])
    BY <1>2 DEF login, loginCallback, loginSettings, Send
  <2>2. \A o \in Requests \ {r} : req'[o] = Idle
    BY <1>0, <1>2, <2>1, LoginSent, CallbackSent, SettingsSent
  <2> QED
    BY <2>2 DEF Alone
<1>3. ASSUME NEW r \in Requests, serial' = serial,
             \A o \in Requests \ {r} : req'[o] = req[o],
             req[r] # Idle \/ req'[r] = Idle
      PROVE  Alone'
  BY <1>3 DEF Alone
<1>4. ASSUME NEW r \in Requests,
             LoginSave(r) \/ CallbackSaveOauth(r)
               \/ CallbackSaveLogin(r) \/ SettingsSave(r)
      PROVE  Alone'
  <2>1. serial' = serial /\ req[r] # Idle
    BY <1>4, IdleFields
       DEF LoginSave, CallbackSaveOauth, CallbackSaveLogin, SettingsSave, history
  <2>2. req[r].oauth \in Values /\ req[r].login \in Values
    BY DEF Typed, Request
  <2>3. \A o \in Requests \ {r} : req'[o] = req[o]
    BY <1>0, <1>4, <2>2, Saved
       DEF LoginSave, CallbackSaveOauth, CallbackSaveLogin, SettingsSave,
           Names, Running, Answers
  <2> QED
    BY <1>3, <2>1, <2>3
<1>5. ASSUME NEW r \in Requests, CallbackGet(r) \/ Exchange(r) \/ ExchangeFails(r)
                                  \/ StorageError(r)
      PROVE  Alone'
  <2>1. serial' = serial /\ req[r] # Idle
    BY <1>5, IdleFields
       DEF CallbackGet, Exchange, ExchangeFails, StorageError, history
  <2>2. \A o \in Requests \ {r} : req'[o] = req[o]
    BY <1>0, <1>5, SessionsRead, Exchanged, ExchangeFailed, StorageFailed
  <2> QED
    BY <1>3, <2>1, <2>2
<1>6. ASSUME NEW r \in Requests, Receive(r) \/ NoAnswer(r) PROVE Alone'
  <2>1. serial' = serial
    BY <1>6 DEF Receive, NoAnswer, history
  <2> QED
    BY <1>0, <1>3, <1>6, <2>1, Left
<1>7. ASSUME NEW n \in Names, Forget(n) PROVE Alone'
  BY <1>7 DEF Forget, Alone
<1>8. CASE FileLost
  BY <1>8 DEF FileLost, history, Alone
<1> QED
  BY <1>1, <1>2, <1>4, <1>5, <1>6, <1>7, <1>8 DEF Next

LEMMA OthersIdle ==
  ASSUME Alone, NEW r \in Requests, req[r] # Idle, NEW o \in Requests \ {r}
  PROVE  req[o] = Idle
BY DEF Alone

LEMMA StepZone ==
  ASSUME Typed, Stored, serial => Alone, serial => ZoneSerial, [Next]_vars
  PROVE  (serial => ZoneSerial)'
<1> SUFFICES ASSUME serial' PROVE ZoneSerial'
  OBVIOUS
<1>0. TypeOK
  BY TypedImplies
<1>1. CASE UNCHANGED vars
  BY <1>1 DEF vars, history, ZoneSerial, ZoneOf
<1>a. ZoneOf(Idle)'
  BY IdleFields DEF ZoneOf, Names
<1>b. \A r \in Requests : /\ req[r] \in Request /\ req[r].id["login"] \in Ids \cup {None}
                          /\ req[r].oauth \in Values /\ req[r].login \in Values
  BY DEF Typed, Request, Names
<1>c. Unused \notin Values /\ Gone \notin Values /\ None \notin Ids
  BY SessionsAssumption
<1>d. jar["login"] \in Ids \cup {None}
  BY DEF Typed, Names
<1>2. ASSUME NEW r \in Requests,
             login(r) \/ loginCallback(r) \/ loginSettings(r)
      PROVE  ZoneSerial'
  <2>1. serial /\ req = [o \in Requests |-> Idle]
    BY <1>2 DEF login, loginCallback, loginSettings, Send
  <2>2. UNCHANGED <<files, jar, chosen>>
    BY <1>2 DEF login, loginCallback, loginSettings
  <2>3. \A o \in Requests \ {r} : req'[o] = Idle
    BY <1>0, <1>2, <2>1, LoginSent, CallbackSent, SettingsSent
  <2>4. /\ req'[r].id = jar
        /\ req'[r].pc \in {"login", "callback", "settings"}
        /\ req'[r].pc = "settings" => jar["login"] # None
    BY <1>0, <1>2, LoginSent, CallbackSent, SettingsSent
  <2>5. ZoneOf(req[r])'
    BY <2>1, <2>2, <2>4 DEF ZoneSerial, ZoneOf
  <2> QED
    BY <1>a, <2>1, <2>2, <2>3, <2>5 DEF ZoneSerial
<1>3. ASSUME NEW r \in Requests, req[r] # Idle, serial' = serial,
             \A o \in Requests \ {r} : req'[o] = req[o], jar' = jar,
             ZoneOf(req[r])',
             jar["login"] = None => chosen' = None,
             jar["login"] # None /\ files'["login"][jar["login"]] \in Values =>
               files'["login"][jar["login"]].timezone = chosen'
      PROVE  ZoneSerial'
  <2>1. \A o \in Requests \ {r} : req'[o] = Idle
    BY <1>3, OthersIdle
  <2> QED
    BY <1>3, <1>a, <2>1 DEF ZoneSerial
<1>4. ASSUME NEW r \in Requests, LoginSave(r) \/ CallbackSaveOauth(r)
      PROVE  ZoneSerial'
  <2>1. PICK pc \in {"redirected", "saveLogin"} :
          /\ Save(r, "login-oauth2", req[r].oauth, pc)
          /\ pc = "saveLogin" => req[r].pc = "saveOauth"
    BY <1>4 DEF LoginSave, CallbackSaveOauth
  <2>2. req[r] # Idle /\ UNCHANGED <<jar, serial, chosen>>
    BY <1>4, IdleFields DEF LoginSave, CallbackSaveOauth
  <2>3. /\ \A j \in Ids : files'["login"][j] = files["login"][j]
        /\ \A o \in Requests \ {r} : req'[o] = req[o]
        /\ req'[r].pc = pc /\ req'[r].id["login"] = req[r].id["login"]
        /\ req'[r].login = req[r].login
    BY <1>0, <1>b, <2>1, Saved DEF Names, Running, Answers
  <2>4. ZoneOf(req[r])'
    BY <1>b, <2>1, <2>2, <2>3 DEF ZoneSerial, ZoneOf
  <2> QED
    BY <1>3, <1>d, <2>2, <2>3, <2>4 DEF ZoneSerial
<1>5. ASSUME NEW r \in Requests, CallbackSaveLogin(r) \/ SettingsSave(r)
      PROVE  ZoneSerial'
  <2>1. PICK pc \in {"welcomed", "answered"} :
          Save(r, "login", req[r].login, pc)
    BY <1>5 DEF CallbackSaveLogin, SettingsSave
  <2>2. req[r] # Idle /\ UNCHANGED <<jar, serial>>
    BY <1>5, IdleFields DEF CallbackSaveLogin, SettingsSave, history
  <2>3. PICK i \in Ids :
          /\ req[r].id["login"] # None => i = req[r].id["login"]
          /\ \A j \in Ids :
               files'["login"][j] = IF j = i THEN req[r].login ELSE files["login"][j]
          /\ \A o \in Requests \ {r} : req'[o] = req[o]
          /\ req'[r].pc = pc /\ req'[r].id["login"] = i
    BY <1>0, <1>b, <2>1, Saved DEF Names, Running, Answers
  <2>4. ZoneOf(req[r]) /\ ZoneSerial
    BY <2>2 DEF ZoneSerial
  <2>5. /\ req[r].login.timezone = chosen'
        /\ jar["login"] = None => chosen' = None
        /\ jar["login"] # None /\ jar["login"] # i => chosen' = chosen
    <3>1. CASE CallbackSaveLogin(r)
      BY <2>4, <3>1 DEF CallbackSaveLogin, history, ZoneOf, ZoneSerial
    <3>2. CASE SettingsSave(r)
      BY <2>3, <2>4, <3>2 DEF SettingsSave, ZoneOf
    <3> QED
      BY <1>5, <3>1, <3>2
  <2>6. ZoneOf(req[r])'
    BY <2>3, <2>5 DEF ZoneOf
  <2> QED
    BY <1>3, <1>d, <2>2, <2>3, <2>4, <2>5, <2>6 DEF ZoneSerial
<1>6. ASSUME NEW r \in Requests, CallbackGet(r) \/ Exchange(r) \/ ExchangeFails(r)
      PROVE  ZoneSerial'
  <2>1. req[r] # Idle /\ UNCHANGED <<files, jar, serial, chosen>>
    BY <1>6, IdleFields DEF CallbackGet, Exchange, ExchangeFails, history
  <2>2. /\ \A o \in Requests \ {r} : req'[o] = req[o]
        /\ req'[r].id = req[r].id
    BY <1>0, <1>6, SessionsRead, Exchanged, ExchangeFailed
  <2>3. ZoneOf(req[r]) /\ ZoneSerial
    BY <2>1 DEF ZoneSerial
  <2>4. req'[r].pc \notin {"callback", "settings"}
    BY <1>0, <1>6, SessionsRead, Exchanged, ExchangeFailed
  <2>5. req'[r].pc \in {"exchange", "saveOauth", "saveLogin"} =>
          req'[r].login.timezone = chosen
    <3>1. CASE CallbackGet(r)
      <4>1. req[r].pc = "callback"
        BY <3>1 DEF CallbackGet
      <4>2. ASSUME Got("login", req[r].id["login"])
            PROVE  Get("login", req[r].id["login"]).timezone = chosen
        BY <2>3, <4>1, <4>2 DEF Got, Get, NoValues, ZoneOf, ZoneSerial
      <4> QED
        BY <1>0, <3>1, <4>2, SessionsRead
    <3>2. CASE Exchange(r)
      BY <1>0, <2>3, <3>2, Exchanged DEF Exchange, ZoneOf
    <3>3. CASE ExchangeFails(r)
      BY <1>0, <3>3, ExchangeFailed
    <3> QED
      BY <1>6, <3>1, <3>2, <3>3
  <2>6. ZoneOf(req[r])'
    BY <2>1, <2>2, <2>3, <2>4, <2>5 DEF ZoneOf
  <2> QED
    BY <1>3, <2>1, <2>2, <2>3, <2>6 DEF ZoneSerial
<1>7. ASSUME NEW r \in Requests, StorageError(r) PROVE ZoneSerial'
  <2>1. req[r] # Idle /\ UNCHANGED <<jar, serial, chosen>>
    BY <1>7, IdleFields DEF StorageError, history
  <2>2. \A j \in Ids : files'["login"][j] = files["login"][j]
                       \/ files'["login"][j] = Gone
    BY <1>0, <1>7, StorageFailed DEF Names
  <2>3. /\ \A o \in Requests \ {r} : req'[o] = req[o]
        /\ req'[r].id = req[r].id /\ req'[r].pc = "answered"
    BY <1>0, <1>7, StorageFailed
  <2>4. ZoneOf(req[r]) /\ ZoneSerial
    BY <2>1 DEF ZoneSerial
  <2>5. ZoneOf(req[r])'
    BY <1>b, <1>c, <2>1, <2>2, <2>3, <2>4 DEF ZoneOf
  <2> QED
    BY <1>3, <1>c, <1>d, <2>1, <2>2, <2>3, <2>4, <2>5 DEF ZoneSerial
<1>8. ASSUME NEW r \in Requests, Receive(r) PROVE ZoneSerial'
  <2>1. /\ req[r] # Idle /\ UNCHANGED <<files, serial, chosen>>
        /\ jar'["login"] = IF "login" \in req[r].set THEN req[r].id["login"]
                           ELSE jar["login"]
    BY <1>8, IdleFields DEF Receive, Answers, Names
  <2>2. \A o \in Requests : req'[o] = Idle
    BY <1>0, <1>8, <2>1, Left, OthersIdle
  <2>3. ZoneOf(req[r]) /\ ZoneSerial /\ Kept(req[r])
    BY <2>1 DEF ZoneSerial, Stored
  <2> QED
    BY <1>a, <2>1, <2>2, <2>3 DEF ZoneSerial, ZoneOf, Kept
<1>9. ASSUME NEW r \in Requests, NoAnswer(r) PROVE ZoneSerial'
  <2>1. req[r] # Idle /\ UNCHANGED <<files, jar, serial, chosen>>
    BY <1>9 DEF NoAnswer, history
  <2>2. ZoneOf(req[r])' /\ \A o \in Requests \ {r} : req'[o] = req[o]
    BY <1>0, <1>9, <1>a, Left
  <2> QED
    BY <1>3, <2>1, <2>2 DEF ZoneSerial
<1>10. ASSUME NEW n \in Names, Forget(n) PROVE ZoneSerial'
  <2>1. /\ UNCHANGED <<files, req, serial>> /\ req = [o \in Requests |-> Idle]
        /\ jar'["login"] = IF n = "login" THEN None ELSE jar["login"]
        /\ chosen' = IF n = "login" THEN None ELSE chosen
    BY <1>10 DEF Forget, Typed, Names
  <2> QED
    BY <1>a, <2>1 DEF ZoneSerial
<1>11. CASE FileLost
  <2>1. UNCHANGED <<jar, req, serial, chosen>>
    BY <1>11 DEF FileLost, history
  <2>2. \A j \in Ids : files'["login"][j] = files["login"][j]
                       \/ files'["login"][j] = Gone
    BY <1>0, <1>11, AnyFileLost DEF Names
  <2> QED
    BY <1>b, <1>c, <1>d, <2>1, <2>2 DEF ZoneSerial, ZoneOf
<1> QED
  BY <1>1, <1>2, <1>4, <1>5, <1>6, <1>7, <1>8, <1>9, <1>10, <1>11 DEF Next

LEMMA StepVerifier ==
  ASSUME Typed, Stored, serial => Alone, serial => VerifierSerial, [Next]_vars
  PROVE  (serial => VerifierSerial)'
<1> SUFFICES ASSUME serial' PROVE VerifierSerial'
  OBVIOUS
<1> DEFINE oa == "login-oauth2"
<1>0. TypeOK
  BY TypedImplies
<1>1. CASE UNCHANGED vars
  BY <1>1 DEF vars, history, VerifierSerial, VerifierOf
<1>a. VerifierOf(Idle)'
  BY IdleFields DEF VerifierOf
<1>b. \A r \in Requests : /\ req[r] \in Request /\ req[r].id[oa] \in Ids \cup {None}
                          /\ req[r].oauth \in Values /\ req[r].login \in Values
  BY DEF Typed, Request, Names
<1>c. /\ Unused \notin Values /\ Gone \notin Values /\ None \notin Ids
      /\ None \notin offered
  BY SessionsAssumption DEF Typed
<1>d. jar[oa] \in Ids \cup {None}
  BY DEF Typed, Names
<1>2. ASSUME NEW r \in Requests,
             login(r) \/ loginCallback(r) \/ loginSettings(r)
      PROVE  VerifierSerial'
  <2>1. serial /\ req = [o \in Requests |-> Idle]
    BY <1>2 DEF login, loginCallback, loginSettings, Send
  <2>2. UNCHANGED <<files, jar, pending, offered>>
    BY <1>2 DEF login, loginCallback, loginSettings
  <2>3. \A o \in Requests \ {r} : req'[o] = Idle
    BY <1>0, <1>2, <2>1, LoginSent, CallbackSent, SettingsSent
  <2>4. VerifierOf(req[r])'
    <3>1. CASE login(r)
      BY <1>0, <2>2, <3>1, LoginSent DEF VerifierOf, Typed
    <3>2. CASE loginCallback(r)
      <4>1. /\ req'[r].pc = "callback" /\ req'[r].set = {}
            /\ req'[r].code \in offered
            /\ req'[r].oauth = Get(oa, jar[oa])
        BY <1>0, <3>2, CallbackSent
      <4>2. req'[r].code = pending => req'[r].oauth.verifier = pending
        BY <2>1, <3>2, <4>1 DEF loginCallback, Got, Get, VerifierSerial
      <4> QED
        BY <2>2, <4>1, <4>2 DEF VerifierOf
    <3>3. CASE loginSettings(r)
      BY <1>0, <3>3, SettingsSent DEF VerifierOf
    <3> QED
      BY <1>2, <3>1, <3>2, <3>3
  <2> QED
    BY <1>a, <2>1, <2>2, <2>3, <2>4 DEF VerifierSerial
<1>3. ASSUME NEW r \in Requests, req[r] # Idle, serial' = serial,
             \A o \in Requests \ {r} : req'[o] = req[o], jar' = jar,
             VerifierOf(req[r])', offered' = offered,
             pending' \in offered =>
               /\ jar[oa] # None
               /\ files'[oa][jar[oa]] \in Values =>
                    files'[oa][jar[oa]].verifier = pending'
      PROVE  VerifierSerial'
  <2>1. \A o \in Requests \ {r} : req'[o] = Idle
    BY <1>3, OthersIdle
  <2> QED
    BY <1>3, <1>a, <2>1 DEF VerifierSerial
<1>4. ASSUME NEW r \in Requests, LoginSave(r) \/ CallbackSaveOauth(r)
      PROVE  VerifierSerial'
  <2>1. PICK pc \in {"redirected", "saveLogin"} :
          /\ Save(r, oa, req[r].oauth, pc)
          /\ pc = "redirected" => req[r].pc = "login" /\ pending' = req[r].code
          /\ pc = "saveLogin" => pending' = None
    BY <1>4 DEF LoginSave, CallbackSaveOauth
  <2>2. req[r] # Idle /\ UNCHANGED <<jar, serial, offered>>
    BY <1>4, IdleFields DEF LoginSave, CallbackSaveOauth
  <2>3. PICK i \in Ids :
          /\ \A j \in Ids :
               files'[oa][j] = IF j = i THEN req[r].oauth ELSE files[oa][j]
          /\ \A o \in Requests \ {r} : req'[o] = req[o]
          /\ req'[r].pc = pc /\ req'[r].id[oa] = i
          /\ req'[r].oauth = req[r].oauth /\ req'[r].code = req[r].code
          /\ oa \in req'[r].set
    BY <1>0, <1>b, <2>1, Saved DEF Names, Running, Answers
  <2>4. VerifierOf(req[r])
    BY <2>2 DEF VerifierSerial
  <2>5. pending' \notin offered
    BY <1>c, <2>1, <2>4 DEF VerifierOf
  <2>6. VerifierOf(req[r])'
    BY <2>1, <2>3, <2>4 DEF VerifierOf
  <2> QED
    BY <1>3, <2>2, <2>3, <2>5, <2>6
<1>5. ASSUME NEW r \in Requests, CallbackSaveLogin(r) \/ SettingsSave(r)
      PROVE  VerifierSerial'
  <2>1. PICK pc \in {"welcomed", "answered"} :
          Save(r, "login", req[r].login, pc)
    BY <1>5 DEF CallbackSaveLogin, SettingsSave
  <2>2. /\ req[r] # Idle /\ req[r].pc # "redirected"
        /\ UNCHANGED <<jar, serial, offered, pending>>
    BY <1>5, IdleFields DEF CallbackSaveLogin, SettingsSave, history
  <2>3. /\ \A j \in Ids : files'[oa][j] = files[oa][j]
        /\ \A o \in Requests \ {r} : req'[o] = req[o]
        /\ req'[r].pc = pc /\ req'[r].set = req[r].set \cup {"login"}
    BY <1>0, <1>b, <2>1, Saved DEF Names, Running, Answers
  <2>4. VerifierOf(req[r]) /\ VerifierSerial
    BY <2>2 DEF VerifierSerial
  <2>5. VerifierOf(req[r])'
    BY <2>2, <2>3, <2>4 DEF VerifierOf
  <2> QED
    BY <1>3, <1>d, <2>2, <2>3, <2>4, <2>5 DEF VerifierSerial
<1>6. ASSUME NEW r \in Requests, CallbackGet(r) \/ Exchange(r) \/ ExchangeFails(r)
      PROVE  VerifierSerial'
  <2>1. /\ req[r] # Idle /\ req[r].pc \in {"callback", "exchange"}
        /\ UNCHANGED <<files, jar, serial, offered, pending>>
    BY <1>6, IdleFields DEF CallbackGet, Exchange, ExchangeFails, history
  <2>2. /\ \A o \in Requests \ {r} : req'[o] = req[o]
        /\ req'[r].set = req[r].set /\ req'[r].code = req[r].code
    BY <1>0, <1>6, SessionsRead, Exchanged, ExchangeFailed
  <2>3. VerifierOf(req[r]) /\ VerifierSerial
    BY <2>1 DEF VerifierSerial
  <2>4. \/ req'[r].pc \in {"answered", "saveOauth"}
        \/ req'[r].pc = "exchange" /\ req'[r].oauth = req[r].oauth
        \/ /\ req'[r].pc = "refused"
           /\ req[r].oauth.verifier = None \/ req[r].oauth.verifier # req[r].code
    BY <1>0, <1>6, SessionsRead, Exchanged, ExchangeFailed
  <2>5. req[r].code \in offered
    BY <2>1 DEF Typed, CodeOf
  <2>6. VerifierOf(req[r])'
    BY <1>c, <2>1, <2>2, <2>3, <2>4, <2>5 DEF VerifierOf
  <2> QED
    BY <1>3, <2>1, <2>2, <2>3, <2>6 DEF VerifierSerial
<1>7. ASSUME NEW r \in Requests, StorageError(r) PROVE VerifierSerial'
  <2>1. /\ req[r] # Idle /\ req[r].pc # "redirected"
        /\ UNCHANGED <<jar, serial, offered, pending>>
    BY <1>7, IdleFields DEF StorageError, history
  <2>2. \A j \in Ids : files'[oa][j] = files[oa][j] \/ files'[oa][j] = Gone
    BY <1>0, <1>7, StorageFailed DEF Names
  <2>3. /\ \A o \in Requests \ {r} : req'[o] = req[o]
        /\ req'[r].set = req[r].set /\ req'[r].pc = "answered"
    BY <1>0, <1>7, StorageFailed
  <2>4. VerifierOf(req[r]) /\ VerifierSerial
    BY <2>1 DEF VerifierSerial
  <2>5. VerifierOf(req[r])'
    BY <2>1, <2>3, <2>4 DEF VerifierOf
  <2> QED
    BY <1>3, <1>c, <1>d, <2>1, <2>2, <2>3, <2>4, <2>5 DEF VerifierSerial
<1>8. ASSUME NEW r \in Requests, Receive(r) PROVE VerifierSerial'
  <2>1. /\ req[r] # Idle /\ UNCHANGED <<files, serial, pending>>
        /\ jar'[oa] = IF oa \in req[r].set THEN req[r].id[oa] ELSE jar[oa]
        /\ offered' = IF req[r].pc = "redirected" THEN offered \cup {req[r].code}
                      ELSE offered
    BY <1>8, IdleFields DEF Receive, Answers, Names
  <2>2. \A o \in Requests : req'[o] = Idle
    BY <1>0, <1>8, <2>1, Left, OthersIdle
  <2>3. VerifierOf(req[r]) /\ VerifierSerial /\ Kept(req[r])
    BY <2>1 DEF VerifierSerial, Stored
  <2>4. CASE req[r].pc = "redirected"
    BY <1>a, <2>1, <2>2, <2>3, <2>4 DEF VerifierSerial, VerifierOf, Kept
  <2>5. CASE req[r].pc # "redirected" /\ oa \in req[r].set
    BY <1>a, <1>c, <2>1, <2>2, <2>3, <2>5 DEF VerifierSerial, VerifierOf
  <2>6. CASE req[r].pc # "redirected" /\ oa \notin req[r].set
    BY <1>a, <2>1, <2>2, <2>3, <2>6 DEF VerifierSerial
  <2> QED
    BY <2>4, <2>5, <2>6
<1>9. ASSUME NEW r \in Requests, NoAnswer(r) PROVE VerifierSerial'
  <2>1. req[r] # Idle /\ UNCHANGED <<files, jar, serial, offered, pending>>
    BY <1>9 DEF NoAnswer, history
  <2>2. VerifierOf(req[r])' /\ \A o \in Requests \ {r} : req'[o] = req[o]
    BY <1>0, <1>9, <1>a, Left
  <2> QED
    BY <1>3, <2>1, <2>2 DEF VerifierSerial
<1>10. ASSUME NEW n \in Names, Forget(n) PROVE VerifierSerial'
  <2>1. /\ UNCHANGED <<files, req, serial, offered>>
        /\ req = [o \in Requests |-> Idle]
        /\ jar'[oa] = IF n = oa THEN None ELSE jar[oa]
        /\ pending' = IF n = oa THEN None ELSE pending
    BY <1>10 DEF Forget, Typed, Names
  <2> QED
    BY <1>a, <1>c, <2>1 DEF VerifierSerial
<1>11. CASE FileLost
  <2>1. UNCHANGED <<jar, req, serial, offered, pending>>
    BY <1>11 DEF FileLost, history
  <2>2. \A j \in Ids : files'[oa][j] = files[oa][j] \/ files'[oa][j] = Gone
    BY <1>0, <1>11, AnyFileLost DEF Names
  <2>3. ASSUME NEW r \in Requests PROVE VerifierOf(req[r])'
    <3>1. VerifierOf(req[r])
      BY <2>1 DEF VerifierSerial
    <3>2. req[r].pc = "redirected" => req[r].id[oa] \in Ids
      BY <1>b, <3>1 DEF VerifierOf, Stored, Kept
    <3> QED
      BY <1>c, <2>1, <2>2, <3>1, <3>2 DEF VerifierOf
  <2> QED
    BY <1>c, <1>d, <2>1, <2>2, <2>3 DEF VerifierSerial
<1> QED
  BY <1>1, <1>2, <1>4, <1>5, <1>6, <1>7, <1>8, <1>9, <1>10, <1>11 DEF Next

LEMMA SerialHolds ==
  Spec => [](Typed /\ Stored /\ (serial => Alone /\ ZoneSerial /\ VerifierSerial))
<1>1. Init => Alone /\ ZoneSerial /\ VerifierSerial
  <2> SUFFICES ASSUME Init PROVE Alone /\ ZoneSerial /\ VerifierSerial
    OBVIOUS
  <2>2. /\ \A r \in Requests : req[r] = Idle
        /\ jar["login"] = None /\ chosen = None
        /\ offered = {}
    BY DEF Init, Names
  <2>3. ZoneOf(Idle) /\ VerifierOf(Idle)
    BY IdleFields DEF ZoneOf, VerifierOf, Names
  <2> QED
    BY <2>2, <2>3 DEF Alone, ZoneSerial, VerifierSerial
<1> QED
  BY <1>1, StoredHolds, StepAlone, StepZone, StepVerifier, PTL DEF Spec

(* Without overlapping requests the zone is always the one chosen last,    *)
(* however many logins follow, and whichever of them fail.                 *)
THEOREM ZonesKept == Spec => []ZoneKept
<1>1. (serial => ZoneSerial) => ZoneKept
  BY DEF ZoneKept, ZoneAsSet, ZoneSerial, mainLogin, getTimeLocation, Got, Get,
         NoValues
<1> QED
  BY <1>1, SerialHolds, PTL

(* Without overlapping requests the login begun last can be completed, or  *)
(* tried again, until it is.                                               *)
THEOREM LatestLoginsWork == Spec => []LatestLoginWorks
<1>1. (serial => VerifierSerial) => LatestLoginWorks
  BY DEF LatestLoginWorks, VerifierSerial, VerifierOf
<1> QED
  BY <1>1, SerialHolds, PTL
=============================================================================
