------------------------------ MODULE WebSessions ------------------------------
(***************************************************************************)
(* Signing in to the web interface, and the users it keeps in memory.      *)
(*                                                                         *)
(* A browser that opens the login page is given a token, which stays in    *)
(* its session; the user signs it and posts the signature.  A login puts   *)
(* a copy of the account, with that signature, in `user_store`, and its    *)
(* key and signature in the session: a request is that user's as long as   *)
(* both signatures agree.  The settings page changes the account and then  *)
(* writes its own copy of the user back to `user_store`.                   *)
(*                                                                         *)
(* A browser is modelled with one request at a time and, when the login    *)
(* page is opened in a second tab, the older of the two.                   *)
(***************************************************************************)
EXTENDS Tables

CONSTANTS
    Browser,
    Address,        \* addresses that may have an account
    Name,           \* names an account can have
    MaxAccounts,    \* bound on the keys of accounts
    MaxTokens,      \* bound on the tokens issued
    MaxTime,        \* bound on the clock
    Expiry          \* EXPIRY_IN_SECS, in ticks of the model's clock

ASSUME SessionBounds ==
    /\ MaxAccounts \in Nat /\ MaxTokens \in Nat /\ MaxTime \in Nat
    /\ Expiry \in Nat \ {0}

VARIABLES
    accounts,   \* table `account`: key -> address, name
    store,      \* user_store: key -> address, name, signature
    session,    \* per browser: the token it was given, and the login
    page,       \* per browser: the token on the login page that is open
    request,    \* per browser: the request in progress
    issued,     \* tokens issued so far
    clock       \* the wall clock; it can be set back

sessionVars == <<accounts, store, session, page, request, issued, clock>>

AccountKey == 1 .. MaxAccounts
Time       == 0 .. MaxTime

\* Tokens are random: no two are alike.  A signature is known by its token.
Token   == [no : 1 .. MaxTokens, time : Time]
NoToken == [no |-> 0, time |-> 0]
User    == [address : Address, name : Name, signature : 1 .. MaxTokens]
NoUser  == [signature |-> 0]
NoLogin == [key |-> 0, signature |-> 0]

EmptySession == [token |-> NoToken, login |-> NoLogin]
NoRequest    == [pc |-> "idle"]

SessionInit ==
    /\ accounts = << >>
    /\ store = << >>
    /\ session = [b \in Browser |-> EmptySession]
    /\ page = [b \in Browser |-> NoToken]
    /\ request = [b \in Browser |-> NoRequest]
    /\ issued = 0
    /\ clock = 0

AccountAt(a) == {k \in DOMAIN accounts : accounts[k].address = a}

\* The user of a request of b: the AuthLayer asks load_user for the key in the
\* session and compares get_password_hash, the signature.
CurrentUser(b) ==
    LET login == session[b].login
    IN  IF login.key \in DOMAIN store /\ store[login.key].signature = login.signature
        THEN store[login.key] ELSE NoUser

-------------------------------------------------------------------------------
(***************************************************************************)
(* Signing in                                                              *)
(***************************************************************************)

\* ssh_signin keeps a token that was not issued this very second and is younger
\* than Expiry.
KeepsToken(token) == token # NoToken /\ token.time < clock /\ clock - token.time < Expiry

\* ssh_signin_POST: the token of the session, if it is not too old.
AcceptsToken(token) == token # NoToken /\ token.time <= clock /\ clock - token.time < Expiry

\* Mutant: every visit of the page replaces the token.
GetLogin_AlwaysFresh(b, tab) ==
    /\ request[b] = NoRequest
    /\ CurrentUser(b) = NoUser
    /\ LET token == [no |-> issued + 1, time |-> clock]
       IN  /\ issued < MaxTokens
           /\ issued' = issued + 1
           /\ session' = [session EXCEPT ![b].token = token]
           /\ page' = [page EXCEPT ![b] = IF tab = "new" /\ @ # NoToken THEN @ ELSE token]
    /\ UNCHANGED <<accounts, store, request, clock>>

\* ssh_signin, in the tab that showed the page before or in a new one.
GetLogin(b, tab) ==
    /\ request[b] = NoRequest
    /\ CurrentUser(b) = NoUser
    /\ LET old   == session[b].token
           fresh == [no |-> issued + 1, time |-> clock]
           token == IF KeepsToken(old) THEN old ELSE fresh
       IN  /\ token = fresh => issued < MaxTokens
           /\ issued' = Max({issued, token.no})
           /\ session' = [session EXCEPT ![b].token = token]
           /\ page' = [page EXCEPT ![b] = IF tab = "new" /\ @ # NoToken THEN @ ELSE token]
    /\ UNCHANGED <<accounts, store, request, clock>>

\* The page is open, and the token on it would be accepted now.
PageIsGood(b) == page[b] # NoToken /\ page[b] = session[b].token /\ AcceptsToken(page[b])

\* ssh_signin_POST: the token is good, the address has an account, and the
\* signature is that account's for the token.  Anything else only redirects.
PostLogin(b, a) ==
    /\ request[b] = NoRequest
    /\ CurrentUser(b) = NoUser
    /\ PageIsGood(b)
    /\ \E k \in AccountAt(a) :
          request' = [request EXCEPT ![b] =
              [pc |-> "cache", key |-> k, overtaken |-> FALSE,
               user |-> [address |-> a, name |-> accounts[k].name, signature |-> page[b].no]]]
    /\ UNCHANGED <<accounts, store, session, page, issued, clock>>

\* state.insert_user
LoginStore(b) ==
    /\ request[b].pc = "cache"
    /\ store' = Put(store, request[b].key, request[b].user)
    /\ request' = [request EXCEPT ![b].pc = "session"]
    /\ UNCHANGED <<accounts, session, page, issued, clock>>

\* auth.login; the token stays in the session.
LoginSession(b) ==
    /\ request[b].pc = "session"
    /\ session' = [session EXCEPT ![b].login =
                      [key |-> request[b].key, signature |-> request[b].user.signature]]
    /\ request' = [request EXCEPT ![b] = NoRequest]
    /\ UNCHANGED <<accounts, store, page, issued, clock>>

\* logout_handler destroys the session.
Logout(b) ==
    /\ request[b] = NoRequest
    /\ session' = [session EXCEPT ![b] = EmptySession]
    /\ page' = [page EXCEPT ![b] = NoToken]
    /\ UNCHANGED <<accounts, store, request, issued, clock>>

-------------------------------------------------------------------------------
(***************************************************************************)
(* Changing an account                                                     *)
(***************************************************************************)

\* Bookkeeping: the requests about key k that began before this change of it.
Overtake(k) ==
    [b \in Browser |-> IF request[b] # NoRequest /\ request[b].key = k
                       THEN [request[b] EXCEPT !.overtaken = TRUE] ELSE request[b]]

\* settings_POST: the user of the request, and the account at its address.
BeginSettings(b, name) ==
    /\ request[b] = NoRequest
    /\ CurrentUser(b) # NoUser
    /\ \E k \in AccountAt(CurrentUser(b).address) :
          request' = [request EXCEPT ![b] =
              [pc |-> "write", key |-> k, overtaken |-> FALSE, user |-> CurrentUser(b), name |-> name]]
    /\ UNCHANGED <<accounts, store, session, page, issued, clock>>

\* update_account finds the account by its address again.
WriteSettings(b) ==
    /\ request[b].pc = "write"
    /\ LET at == AccountAt(request[b].user.address)
       IN  IF at = {}
           THEN /\ request' = [request EXCEPT ![b] = NoRequest]
                /\ UNCHANGED accounts
           ELSE \E k \in at :
                /\ accounts' = [accounts EXCEPT ![k].name = request[b].name]
                /\ request' = [Overtake(k) EXCEPT ![b] = [request[b] EXCEPT !.pc = "store"]]
    /\ UNCHANGED <<store, session, page, issued, clock>>

\* Mutant: the name of the user in memory is not changed.
StoreSettings_OldName(b) ==
    /\ request[b].pc = "store"
    /\ store' = Put(store, request[b].key, request[b].user)
    /\ request' = [request EXCEPT ![b] = NoRequest]
    /\ UNCHANGED <<accounts, session, page, issued, clock>>

\* Mutant: the user is made anew, without the signature it signed in with.
StoreSettings_NewUser(b) ==
    /\ request[b].pc = "store"
    /\ store' = Put(store, request[b].key, [request[b].user EXCEPT !.name = request[b].name, !.signature = 0])
    /\ request' = [request EXCEPT ![b] = NoRequest]
    /\ UNCHANGED <<accounts, session, page, issued, clock>>

\* state.insert_user with the user the request came with, its name changed
StoreSettings(b) ==
    /\ request[b].pc = "store"
    /\ store' = Put(store, request[b].key, [request[b].user EXCEPT !.name = request[b].name])
    /\ request' = [request EXCEPT ![b] = NoRequest]
    /\ UNCHANGED <<accounts, session, page, issued, clock>>

\* mpot add-account; the rowid is one above the highest.
AddAccount(a, name) ==
    /\ AccountAt(a) = {}
    /\ LET k == NextKey(accounts)
       IN  /\ k \in AccountKey
           /\ accounts' = Put(accounts, k, [address |-> a, name |-> name])
           /\ request' = Overtake(k)
    /\ UNCHANGED <<store, session, page, issued, clock>>

\* mpot remove-account
RemoveAccount(a) ==
    /\ \E k \in AccountAt(a) :
          /\ accounts' = Without(accounts, {k})
          /\ request' = Overtake(k)
    /\ UNCHANGED <<store, session, page, issued, clock>>

\* mpot update-account
UpdateAccount(a, name) ==
    /\ \E k \in AccountAt(a) :
          /\ accounts' = [accounts EXCEPT ![k].name = name]
          /\ request' = Overtake(k)
    /\ UNCHANGED <<store, session, page, issued, clock>>

-------------------------------------------------------------------------------
(***************************************************************************)
(* The server and the clock                                                *)
(***************************************************************************)

\* The sessions and the users are in memory.
Restart ==
    /\ store' = << >>
    /\ session' = [b \in Browser |-> EmptySession]
    /\ page' = [b \in Browser |-> NoToken]
    /\ request' = [b \in Browser |-> NoRequest]
    /\ UNCHANGED <<accounts, issued, clock>>

SetClock ==
    /\ clock' \in Time \ {clock}
    /\ UNCHANGED <<accounts, store, session, page, request, issued>>

SessionNext ==
    \/ \E b \in Browser :
         \/ \E tab \in {"same", "new"} : GetLogin(b, tab)
         \/ \E a \in Address : PostLogin(b, a)
         \/ LoginStore(b) \/ LoginSession(b) \/ Logout(b)
         \/ \E name \in Name : BeginSettings(b, name)
         \/ WriteSettings(b) \/ StoreSettings(b)
    \/ \E a \in Address :
         \/ \E name \in Name : AddAccount(a, name) \/ UpdateAccount(a, name)
         \/ RemoveAccount(a)
    \/ Restart \/ SetClock

SessionSpec == SessionInit /\ [][SessionNext]_sessionVars

-------------------------------------------------------------------------------
(***************************************************************************)
(* Properties                                                              *)
(***************************************************************************)

\* Type correctness; an address has one account, and the users in memory and the
\* requests in progress are about keys that accounts can have.
SessionTypeOK ==
    /\ DOMAIN accounts \subseteq AccountKey
    /\ accounts \in [DOMAIN accounts -> [address : Address, name : Name]]
    /\ \A k, m \in DOMAIN accounts : accounts[k].address = accounts[m].address => k = m
    /\ DOMAIN store \subseteq AccountKey
    /\ store \in [DOMAIN store -> User]
    /\ \A b \in Browser :
         /\ session[b].token \in Token \cup {NoToken}
         /\ session[b].login \in [key : AccountKey, signature : 1 .. MaxTokens] \cup {NoLogin}
         /\ page[b] \in Token \cup {NoToken}
         /\ request[b] # NoRequest => request[b].key \in AccountKey /\ request[b].user \in User
    /\ issued \in 0 .. MaxTokens
    /\ clock \in Time

\* The token on a login page stops being accepted only when the clock is moved,
\* by a logout or a restart, or when the login page is opened again in the very
\* second in which the token was issued: ssh_signin keeps any other token that
\* ssh_signin_POST would accept.
TokenOutlivesVisits ==
    [][ \A b \in Browser :
          PageIsGood(b) /\ ~PageIsGood(b)' =>
              \/ clock' # clock
              \/ page'[b] = NoToken
              \/ page[b].time = clock ]_sessionVars

\* A browser loses its user only by its own logout, by its own login that another
\* overtook, by a restart, when the user signs in again with another token, or when a
\* request that had copied the user before such a login writes its copy back.
UserLostOnlyToAnotherLogin ==
    [][ \A b \in Browser :
          CurrentUser(b) # NoUser /\ CurrentUser(b)' = NoUser =>
              \/ session'[b] = EmptySession
              \/ request[b].pc = "session" /\ request'[b].pc = "idle"
              \/ \E c \in Browser :
                    /\ request[c].pc \in {"cache", "store"}
                    /\ request'[c].pc \in {"session", "idle"}
                    /\ request[c].key = session[b].login.key
                    /\ request[c].user.signature \notin {0, session[b].login.signature}
                    /\ store'[request[c].key].signature = request[c].user.signature ]_sessionVars

\* What user_store says of account k is what the table says, unless a request is
\* about to correct it.
CacheIsTrue(k) ==
    \/ k \notin DOMAIN store \cap DOMAIN accounts
    \/ store[k].address # accounts[k].address
    \/ store[k].name = accounts[k].name
    \/ \E b \in Browser : request[b].pc \in {"cache", "store"} /\ request[b].key = k

\* Signed in without an account: the pages of such a user answer 400 or are
\* empty, but the lists of which the address is an owner can still be edited.
Ghost(b) == CurrentUser(b) # NoUser /\ AccountAt(CurrentUser(b).address) = {}

\* user_store comes to differ from the table, and a user without an account to be
\* signed in, only by a command, or by a request that puts its copy in user_store
\* or its key in the session after another changed the account it copied: the
\* requests of the web interface alone keep the two alike.
MemoryFalseOnlyWhenOvertaken ==
    [][ (\/ \E k \in AccountKey : CacheIsTrue(k) /\ ~CacheIsTrue(k)'
         \/ \E b \in Browser : ~Ghost(b) /\ Ghost(b)')
        => \/ accounts' # accounts
           \/ \E b \in Browser : request[b] # NoRequest /\ request[b].overtaken ]_sessionVars
=============================================================================
