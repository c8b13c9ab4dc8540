---------------------------- MODULE AuthSessions ----------------------------
(***************************************************************************)
(* The signed-in session of a run: module discovery, the preflight and the *)
(* session handling of a scan (api/services/crawler_service.py), its check *)
(* and its refresh (api/services/auth_lifecycle_service.py), the detection *)
(* of a login page by the crawler, and login itself.                       *)
(*                                                                         *)
(* Handlers are coroutines; discovery, a scan and a refresh run in threads *)
(* of their own and share the storage files of the sessions and the run    *)
(* context.  A session is a number; a later one was issued later.  A       *)
(* storage file is a number too, the place of its auth_session_id among    *)
(* those given out.                                                        *)
(***************************************************************************)
EXTENDS Naturals, Sequences

CONSTANTS
    Runs,
    Refreshes,      \* the refresh requests that may be at work at one time
    MaxSessions     \* bound on the sessions the application issues

ASSUME SessionsAssumption == MaxSessions \in Nat

\* How an application keeps a session, and how the page it shows without one can be told: by its
\* address, by a password field, or by neither (a landing page without a form).
Apps == [storage : {"token", "cookie"}, loginPage : SUBSET {"address", "password"}]

VARIABLES
    app,
    sessions,   \* what the application holds of the sessions it issued
    files,      \* the session in each storage file
    told,       \* the files whose ids clients were given
    context,    \* the run context: [path, status], path 0 without an auth_session_id
    scan,       \* the scan thread of a run
    refresh     \* the thread of a refresh request

authVars == <<app, sessions, files, told, context, scan, refresh>>

Issued == DOMAIN sessions

(* A thread with a browser: the storage file it was given, the session its *)
(* browser has, and what the file held when the browser got it (a history  *)
(* variable).                                                              *)
NoScan == [pc |-> "off", path |-> 0, session |-> 0, found |-> 0, credentials |-> FALSE]
Quiet == [pc |-> "off", run |-> "none", path |-> 0, session |-> 0, found |-> 0]

AuthInit ==
    /\ app \in Apps
    /\ sessions = <<>> /\ files = <<>> /\ told = {}
    /\ context = [r \in Runs |-> [path |-> 0, status |-> "none"]]
    /\ scan = [r \in Runs |-> NoScan]
    /\ refresh = [k \in Refreshes |-> Quiet]

IsLive(s) == s \in Issued /\ sessions[s] = "live"
\* The storage state of the session has not reached the end of its life on this side.
Unexpired(s) == s \in Issued /\ sessions[s] # "expired"

---------------------------------------------------------------------------
(* login(): the session that was issued when it returns.  A rejected login *)
(* returns too where the page that follows does not look like a login page *)
(* (_validate_login_success): without a token, or with a cookie that opens *)
(* nothing.                                                                *)
Rejected == IF app.storage = "token" THEN "expired" ELSE "revoked"
LoginReturns(state) ==
    /\ Len(sessions) < MaxSessions
    /\ state = "live" \/ (state = Rejected /\ app.loginPage = {})
    /\ sessions' = Append(sessions, state)
NewSession == Len(sessions) + 1

\* What a file holds, and what it holds once a session is stored there.
Held(path) == IF path = 0 THEN 0 ELSE files[path]
Store(path, session) == [files EXCEPT ![path] = session]

(* discover_modules: signs in first if it has credentials, saves the state *)
(* in a file of its own and then creates the run.  Whatever fails leaves   *)
(* no run behind, only a session and a file nobody is told of.             *)
Discover(r, credentials) ==
    /\ context[r].status = "none"
    /\ IF credentials
       THEN /\ \E state \in {"live", Rejected} : LoginReturns(state)
            /\ files' = Append(files, NewSession) /\ told' = told \cup {Len(files')}
       ELSE UNCHANGED <<sessions, files, told>>
    /\ context' = [context EXCEPT ![r] = [path |-> IF credentials THEN Len(files') ELSE 0, status |-> "discovered"]]
    /\ UNCHANGED <<app, scan, refresh>>

DiscoverFails(r) ==
    /\ context[r].status = "none"
    /\ \E state \in {"live", Rejected} : LoginReturns(state)
    /\ UNCHANGED <<app, files, told, context, scan, refresh>>

---------------------------------------------------------------------------
(* A scan.  Its request may bring credentials, and may name a session that *)
(* the client was told of, which the run is then bound to; otherwise the   *)
(* scan has the session of the run as it is now.                           *)
StartScan(r, named, credentials) ==
    /\ scan[r].pc = "off"
    /\ named \in told \cup {0}
    /\ LET path == IF named # 0 THEN named ELSE context[r].path
       IN  /\ scan' = [scan EXCEPT ![r] = [NoScan EXCEPT !.pc = IF path # 0 THEN "check" ELSE "open",
                                                        !.path = path, !.credentials = credentials]]
           /\ context' = [context EXCEPT ![r].path = path, ![r].status = "running"]
    /\ UNCHANGED <<app, sessions, files, told, refresh>>

\* AuthenticationExpiredError before there is a browser context, and after.
Refuse(r) == scan' = [scan EXCEPT ![r].pc = "expired_early"]
Expire(r) == scan' = [scan EXCEPT ![r].pc = "expired"]

(* check_auth_session_validity looks at the file first.  An access token   *)
(* that is unexpired is enough, cookies are tried on a page.               *)
CheckFile(r) ==
    /\ scan[r].pc = "check"
    /\ IF ~Unexpired(files[scan[r].path]) THEN Refuse(r)
       ELSE IF app.storage = "token"
       THEN scan' = [scan EXCEPT ![r].pc = "open"]
       ELSE scan' = [scan EXCEPT ![r].pc = "probe", ![r].session = files[scan[r].path]]
    /\ UNCHANGED <<app, sessions, files, told, context, refresh>>

(* The probed page is read at domcontentloaded.  It may be one that needs  *)
(* no session, or one that is about to send the browser to the login page, *)
(* and it may fail to load: neither answer says what the session is.       *)
Probe(r) ==
    /\ scan[r].pc = "probe"
    /\ \/ scan' = [scan EXCEPT ![r].pc = "open"]
       \/ Refuse(r)
    /\ UNCHANGED <<app, sessions, files, told, context, refresh>>

(* The browser of the scan starts from the file as it is by now; with      *)
(* credentials the scan signs in and saves at once, if it can.             *)
AfterOpen(r) == IF scan[r].credentials THEN "login" ELSE "crawl"
\* Mutant of OpenContext: the session that was probed goes on.
OpenProbed(r) ==
    /\ scan[r].pc = "open"
    /\ LET now == Held(scan[r].path)
       IN  scan' = [scan EXCEPT ![r].pc = AfterOpen(r), ![r].session = IF @ # 0 THEN @ ELSE now, ![r].found = now]
    /\ UNCHANGED <<app, sessions, files, told, context, refresh>>
OpenContext(r) ==
    /\ scan[r].pc = "open"
    /\ LET now == Held(scan[r].path)
       IN  scan' = [scan EXCEPT ![r].pc = AfterOpen(r), ![r].session = now, ![r].found = now]
    /\ UNCHANGED <<app, sessions, files, told, context, refresh>>

SignIn(r) ==
    /\ scan[r].pc = "login"
    /\ \/ /\ \E state \in {"live", Rejected} : LoginReturns(state)
          /\ \/ /\ scan' = [scan EXCEPT ![r].pc = "crawl", ![r].session = NewSession]
                /\ UNCHANGED files
             \/ /\ scan[r].path # 0
                /\ scan' = [scan EXCEPT ![r].pc = "crawl", ![r].session = NewSession, ![r].found = NewSession]
                /\ files' = Store(scan[r].path, NewSession)
       \/ /\ scan' = [scan EXCEPT ![r].pc = "failed"]
          /\ UNCHANGED <<sessions, files>>
    /\ UNCHANGED <<app, told, context, refresh>>

(* The engine knows a login page by its address; a password field counts   *)
(* only while the session is not trusted, which any that was given is.     *)
Recognised(r) ==
    \/ "address" \in app.loginPage
    \/ "password" \in app.loginPage /\ scan[r].path = 0

(* The crawl.  Without its session a page is the login page: if that is    *)
(* recognised the engine signs in again or gives up, else it is read like  *)
(* any page.                                                               *)
SignInAgain(r) ==
    /\ scan[r].pc = "crawl" /\ scan[r].credentials
    /\ ~IsLive(scan[r].session) /\ Recognised(r)
    /\ LoginReturns("live")
    /\ scan' = [scan EXCEPT ![r].session = NewSession]
    /\ UNCHANGED <<app, files, told, context, refresh>>

GiveUp(r) ==
    /\ scan[r].pc = "crawl" /\ ~scan[r].credentials
    /\ ~IsLive(scan[r].session) /\ Recognised(r)
    /\ Expire(r)
    /\ UNCHANGED <<app, sessions, files, told, context, refresh>>

\* The application replaces the session while it is used; the browser context has the new one.
Rotate(r) ==
    /\ scan[r].pc = "crawl" /\ IsLive(scan[r].session) /\ Len(sessions) < MaxSessions
    /\ sessions' = Append([sessions EXCEPT ![scan[r].session] = "revoked"], "live")
    /\ scan' = [scan EXCEPT ![r].session = NewSession]
    /\ UNCHANGED <<app, files, told, context, refresh>>

\* It may end before the first page, with what an error left.
CrawlReturns(r) ==
    /\ scan[r].pc = "crawl"
    /\ scan' = [scan EXCEPT ![r].pc = "save"]
    /\ \E status \in {"scanned", "partial_scanned"} : context' = [context EXCEPT ![r].status = status]
    /\ UNCHANGED <<app, sessions, files, told, refresh>>

\* The handlers of the two kinds of failure; only the first of these leaves something to resume.
ScanExpired(r) ==
    /\ scan[r].pc \in {"expired", "expired_early"}
    /\ context' = [context EXCEPT ![r].status = "paused"]
    /\ scan' = [scan EXCEPT ![r].pc = IF @ = "expired" THEN "save" ELSE "done"]
    /\ UNCHANGED <<app, sessions, files, told, refresh>>
ScanFailed(r) ==
    /\ scan[r].pc = "failed"
    /\ context' = [context EXCEPT ![r].status = "failed"]
    /\ scan' = [scan EXCEPT ![r].pc = "save"]
    /\ UNCHANGED <<app, sessions, files, told, refresh>>

(* finally: the state of the browser context replaces the file that the    *)
(* scan was given, whatever has been written there since, if it can.       *)
SaveState(r) ==
    /\ scan[r].pc = "save"
    /\ \/ UNCHANGED files
       \/ scan[r].path # 0 /\ files' = Store(scan[r].path, scan[r].session)
    /\ scan' = [scan EXCEPT ![r].pc = "done"]
    /\ UNCHANGED <<app, sessions, told, context, refresh>>

ScanReturns(r) ==
    /\ scan[r].pc = "done"
    /\ scan' = [scan EXCEPT ![r] = NoScan]
    /\ UNCHANGED <<app, sessions, files, told, context, refresh>>

---------------------------------------------------------------------------
(* refresh_auth_session: a login, the file, the run context.  Nothing      *)
(* keeps two of them apart.  Each takes the file of the run as it starts,  *)
(* and one of its own where the run has none.                              *)
StartRefresh(k, r) ==
    /\ refresh[k].pc = "off" /\ context[r].status # "none"
    /\ refresh' = [refresh EXCEPT ![k] = [Quiet EXCEPT !.pc = "login", !.run = r, !.path = context[r].path]]
    /\ UNCHANGED <<app, sessions, files, told, context, scan>>

RefreshLogin(k) ==
    /\ refresh[k].pc = "login"
    /\ \E state \in {"live", Rejected} : LoginReturns(state)
    /\ refresh' = [refresh EXCEPT ![k].pc = "save", ![k].session = NewSession, ![k].found = Held(refresh[k].path)]
    /\ UNCHANGED <<app, files, told, context, scan>>

\* Any error is an answer and nothing else; a login page that is still there is one of them.
RefreshFails(k) ==
    /\ refresh[k].pc \in {"login", "save"}
    /\ refresh' = [refresh EXCEPT ![k] = Quiet]
    /\ UNCHANGED <<app, sessions, files, told, context, scan>>

RefreshSave(k) ==
    /\ refresh[k].pc = "save"
    /\ LET h == refresh[k]
       IN  \/ /\ h.path # 0
              /\ files' = Store(h.path, h.session)
              /\ refresh' = [refresh EXCEPT ![k].pc = "bind"]
           \/ /\ h.path = 0
              /\ files' = Append(files, h.session)
              /\ refresh' = [refresh EXCEPT ![k].pc = "bind", ![k].path = Len(files')]
    /\ UNCHANGED <<app, sessions, told, context, scan>>

RefreshBind(k) ==
    /\ refresh[k].pc = "bind"
    /\ context' = [context EXCEPT ![refresh[k].run].path = refresh[k].path]
    /\ told' = told \cup {refresh[k].path}
    /\ refresh' = [refresh EXCEPT ![k] = Quiet]
    /\ UNCHANGED <<app, sessions, files, scan>>

---------------------------------------------------------------------------
(* The application forgets a session, or its state reaches its end.        *)
SessionEnds(s, state) ==
    /\ s \in Issued /\ sessions[s] # "expired" /\ sessions[s] # state
    /\ sessions' = [sessions EXCEPT ![s] = state]
    /\ UNCHANGED <<app, files, told, context, scan, refresh>>

ScanStep(r) ==
    \/ CheckFile(r) \/ Probe(r) \/ OpenContext(r) \/ SignIn(r) \/ SignInAgain(r) \/ GiveUp(r) \/ Rotate(r)
    \/ CrawlReturns(r) \/ ScanExpired(r) \/ ScanFailed(r) \/ SaveState(r) \/ ScanReturns(r)
RefreshStep(k) == RefreshLogin(k) \/ RefreshFails(k) \/ RefreshSave(k) \/ RefreshBind(k)

AuthNext ==
    \/ \E r \in Runs :
          \/ \E credentials \in BOOLEAN : Discover(r, credentials)
          \/ DiscoverFails(r)
          \/ \E named \in told \cup {0}, credentials \in BOOLEAN : StartScan(r, named, credentials)
          \/ ScanStep(r)
    \/ \E k \in Refreshes : RefreshStep(k) \/ \E r \in Runs : StartRefresh(k, r)
    \/ \E s \in Issued, state \in {"revoked", "expired"} : SessionEnds(s, state)

AuthSpec == AuthInit /\ [][AuthNext]_authVars

---------------------------------------------------------------------------
\* A thread about to store what its browser has into a file that was written since it got that.
IsOvertaken(h, path) == h.pc = "save" /\ h.path = path /\ h.found # files[path]

(* A newer session in a storage file is replaced by an older one only by a *)
(* lost update: the end of a scan, or a refresh, that got its session      *)
(* before somebody else stored another one in the same file.  Otherwise a  *)
(* scan works with the file as it is, not as it was checked, and whatever  *)
(* it, a refresh or a request with another session brings back is the      *)
(* newest session the file has had.                                        *)
SessionNeverGoesBack ==
    [][\A path \in DOMAIN files : files'[path] < files[path] =>
          \/ \E r \in Runs : scan'[r] # scan[r] /\ IsOvertaken(scan[r], path)
          \/ \E k \in Refreshes : refresh'[k] # refresh[k] /\ IsOvertaken(refresh[k], path)]_authVars
=============================================================================
