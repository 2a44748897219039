----------------------------- MODULE DasHttpAuth -----------------------------
(* das2/http.c and das2/credentials.c: a request, with redirects, rejected   *)
(* credentials and the user's answers, and the manager that remembers them.  *)
(* A server stands for the server string and the realm it asks for, a token  *)
(* for the encoded user name and password.  Descriptors are numbered anew in *)
(* each request: what a request leaves open nobody can close.                *)
EXTENDS Integers, Sequences, FiniteSets

CONSTANTS
  Servers, Secure, \* servers; those reached over SSL
  Long,            \* servers whose string is longer than an entry can hold
  Datasets, Any,   \* values of dataset=; no value
  Tokens, NoTok,
  Accepts,         \* tokens a server lets pass, by server
  KeyFiles,        \* key files that may be found when loading
  MaxCreds,        \* bound: entries
  MaxPrompt,       \* the program's prompt gives up after so many questions
  MaxHops          \* bound: redirects in a request

ASSUME HttpAssumption ==
  /\ Secure \subseteq Servers /\ Long \subseteq Servers
  /\ Any \in Datasets /\ NoTok \notin Tokens
  /\ Accepts \in [Servers -> SUBSET Tokens]
  /\ MaxCreds \in Nat /\ MaxPrompt \in Nat /\ MaxHops \in Nat

VARIABLES
  creds,    \* pCreds of the manager
  pc,       \* where das_http_getBody or das_http_readUrl stands
  url,      \* server and dataset of pRes->url
  mgr,      \* the caller gave a credentials manager
  auth,     \* what sAuth points at
  authFor,  \* the url it was found for
  rejected, \* tokens refused since the url or the answers of the user changed
  prompts, hops,
  sockFd, pSsl,   \* nSockFd; descriptor of the SSL object pSsl points at; 0 for none
  openFds, ssls,  \* descriptors this request has open; SSL objects it has allocated
  loose           \* what went another way than the clean-up code expects

netVars == <<sockFd, pSsl, openFds, ssls, loose>>
reqVars == <<url, mgr, auth, authFor, rejected, prompts, hops>>
vars == <<creds, pc, reqVars, netVars>>

Urls == [srv : Servers, ds : Datasets]
Entries == [srv : Servers, cut : BOOLEAN, ds : Datasets, tok : Tokens, valid : BOOLEAN]

\* The lines das_cred_init makes entries of.
ASSUME KeyFileAssumption == KeyFiles \subseteq Seq(Entries)

Min(S) == CHOOSE x \in S : \A y \in S : x <= y

-----------------------------------------------------------------------------
(* The manager's table.  "cut" marks a server string that lost its end.      *)

\* The conditions of CredMngr_getCred on one entry; an entry without dataset is for all.
Matches(c, k) == c.srv = k.srv /\ c.cut = k.cut /\ c.ds \in {Any, k.ds}

\* Place of the entry CredMngr_getCred returns, 0 for none.
GetCred(cs, k, validOnly) ==
  LET found == {i \in DOMAIN cs : Matches(cs[i], k) /\ (validOnly => cs[i].valid)}
  IN  IF found = {} THEN 0 ELSE Min(found)

\* Faulty variant: always a new entry.
AddCredAlways(cs, c) == Append(cs, c)

\* CredMngr_addCred, and what CredMngr_load does with a line: only the token is replaced.
AddCred(cs, c) ==
  LET i == GetCred(cs, c, FALSE)
  IN  IF i = 0 THEN Append(cs, c) ELSE [cs EXCEPT ![i].tok = c.tok]

\* Faulty variant: rejected credentials are saved with the others.
SavedAll(cs) == [i \in DOMAIN cs |-> [cs[i] EXCEPT !.valid = TRUE]]

\* The lines CredMngr_save writes, as das_cred_init makes entries of them.
Saved(cs) ==
  LET saved[i \in 0..Len(cs)] ==
        IF i = 0 THEN <<>>
        ELSE IF cs[i].valid THEN Append(saved[i - 1], cs[i]) ELSE saved[i - 1]
  IN  saved[Len(cs)]

\* CredMngr_load: the table after merging the lines, and the number it returns.
Load(cs, lines) ==
  LET after[i \in 0..Len(lines)] ==
        IF i = 0 THEN [creds |-> cs, new |-> 0]
        ELSE LET was == after[i - 1]
                 old == GetCred(was.creds, lines[i], FALSE)
             IN  [creds |-> AddCred(was.creds, lines[i]),
                  new   |-> IF old # 0 /\ was.creds[old].tok = lines[i].tok
                            THEN was.new ELSE was.new + 1]
  IN  after[Len(lines)]

\* Faulty variant: the manager is not told.
AuthFailedNot(cs, k) == cs

\* Faulty variant: all that is known of the server is withdrawn.
AuthFailedAll(cs, k) == [i \in DOMAIN cs |-> [cs[i] EXCEPT !.valid = @ /\ cs[i].srv # k.srv]]

\* CredMngr_authFailed: the first entry, valid or not, is withdrawn.
AuthFailed(cs, k) ==
  LET i == GetCred(cs, k, FALSE)
  IN  IF i = 0 THEN cs ELSE [cs EXCEPT ![i].valid = FALSE]

\* Faulty variant: the token is copied only when there was a place for it.
AnsweredEmpty(cs, k, t) ==
  LET i == GetCred(cs, k, FALSE)
  IN  IF i # 0 THEN [cs EXCEPT ![i].tok = t, ![i].valid = TRUE]
      ELSE Append(cs, [srv |-> k.srv, cut |-> k.srv \in Long, ds |-> k.ds,
                       tok |-> NoTok, valid |-> TRUE])

\* CredMngr_getHttpAuth after the user's answer: the old place, or a new entry.
Answered(cs, k, t) ==
  LET i == GetCred(cs, k, FALSE)
  IN  IF i # 0 THEN [cs EXCEPT ![i].tok = t, ![i].valid = TRUE]
      ELSE Append(cs, [srv |-> k.srv, cut |-> k.srv \in Long, ds |-> k.ds,
                       tok |-> t, valid |-> TRUE])

\* What a request asks the manager for: the full server string.
Asked == [srv |-> url.srv, cut |-> FALSE, ds |-> url.ds]

-----------------------------------------------------------------------------
(* The program between requests.                                             *)

\* CredMngr_addUserPass; das_cred_init refuses server strings that are too long.
AddUserPass(k, t) ==
  /\ pc = "idle" /\ k.srv \notin Long /\ Len(creds) < MaxCreds
  /\ creds' = AddCred(creds, [srv |-> k.srv, cut |-> FALSE, ds |-> k.ds,
                              tok |-> t, valid |-> TRUE])
  /\ UNCHANGED <<pc, reqVars, netVars>>

LoadFile(lines) ==
  /\ pc = "idle" /\ Len(creds) + Len(lines) <= MaxCreds
  /\ creds' = Load(creds, lines).creds
  /\ UNCHANGED <<pc, reqVars, netVars>>

\* das_http_getBody is called: DasHttpResp_clear, DasHttpResp_init.
Request(u, m) ==
  /\ pc = "idle" /\ pc' = "connect"
  /\ url' = u /\ mgr' = m /\ authFor' = u
  /\ sockFd' = 0 /\ pSsl' = 0 /\ openFds' = {} /\ ssls' = 0 /\ loose' = {}
  /\ UNCHANGED <<creds, auth, rejected, prompts, hops>>

\* The call returns; its local variables are gone.
Return ==
  /\ pc' = "idle"
  /\ auth' = NoTok /\ rejected' = {} /\ prompts' = 0 /\ hops' = 0
  /\ mgr' = FALSE /\ authFor' = url
  /\ UNCHANGED <<creds, url>>

-----------------------------------------------------------------------------
(* One turn of the loop in das_http_getBody.                                 *)

NewFd == Min(1..(Cardinality(openFds) + 1) \ openFds)

\* _das_http_connect: no address or no socket, or SSL fails and the socket is closed again.
ConnectFail ==
  /\ pc = "connect" /\ pc' = "cleanup"
  /\ UNCHANGED <<creds, reqVars, netVars>>

\* _das_http_connect: setsockopt or connect fails; the socket stays open.
ConnectRefused ==
  /\ pc = "connect" /\ pc' = "cleanup"
  /\ openFds' = openFds \cup {NewFd} /\ loose' = loose \cup {"refused"}
  /\ UNCHANGED <<creds, reqVars, sockFd, pSsl, ssls>>

Connect ==
  /\ pc = "connect" /\ pc' = "respond"
  /\ openFds' = openFds \cup {NewFd}
  /\ IF url.srv \in Secure
     THEN pSsl' = NewFd /\ sockFd' = 0 /\ ssls' = ssls + 1
     ELSE sockFd' = NewFd /\ UNCHANGED <<pSsl, ssls>>
  /\ UNCHANGED <<creds, reqVars, loose>>

\* _das_http_getRequest or _das_http_readHdrs fails, or the answer is 400, 403, 404 or another.
RespondError ==
  /\ pc = "respond" /\ pc' = "cleanup"
  /\ UNCHANGED <<creds, reqVars, netVars>>

RespondOk ==
  /\ pc = "respond" /\ pc' = "body"
  /\ UNCHANGED <<creds, reqVars, netVars>>

Close(fd) ==
  /\ openFds' = openFds \ {fd}
  /\ sockFd' = 0

\* Faulty variant: the SSL object is forgotten.
RedirectLeak(u) ==
  /\ pc = "respond" /\ hops < MaxHops
  /\ \E next \in {"connect", "cleanup"} : pc' = next
  /\ Close(IF pSsl # 0 THEN pSsl ELSE sockFd)
  /\ pSsl' = 0 /\ url' = u /\ hops' = hops + 1 /\ rejected' = {}
  /\ UNCHANGED <<creds, mgr, auth, authFor, prompts, ssls, loose>>

\* _das_http_redirect with a Location; DasHttpResp_init may refuse it.  sAuth is kept.
Redirect(u) ==
  /\ pc = "respond" /\ hops < MaxHops
  /\ \E next \in {"connect", "cleanup"} : pc' = next
  /\ Close(IF pSsl # 0 THEN pSsl ELSE sockFd)
  /\ ssls' = IF pSsl # 0 THEN ssls - 1 ELSE ssls
  /\ pSsl' = 0 /\ url' = u /\ hops' = hops + 1 /\ rejected' = {}
  /\ UNCHANGED <<creds, mgr, auth, authFor, prompts, loose>>

\* Status 401.  SSL_shutdown needs a second call only while the peer has not closed:
\* without it the SSL object is neither freed nor forgotten.
AuthReq ==
  /\ pc = "respond" /\ auth \notin Accepts[url.srv]
  /\ Close(IF pSsl # 0 THEN pSsl ELSE sockFd)
  /\ \/ pSsl = 0 /\ UNCHANGED <<pSsl, ssls, loose>>
     \/ pSsl # 0 /\ pSsl' = 0 /\ ssls' = ssls - 1 /\ UNCHANGED loose
     \/ pSsl # 0 /\ loose' = loose \cup {"one step"} /\ UNCHANGED <<pSsl, ssls>>
  /\ LET cs == IF auth # NoTok /\ mgr THEN AuthFailed(creds, Asked) ELSE creds
         i == GetCred(cs, Asked, TRUE)
     IN  /\ creds' = cs
         /\ \/ ~mgr /\ pc' = "cleanup" /\ UNCHANGED <<auth, authFor>>
            \/ mgr /\ i # 0 /\ pc' = "connect" /\ auth' = cs[i].tok /\ authFor' = url
            \/ mgr /\ i = 0 /\ pc' = "prompt" /\ UNCHANGED <<auth, authFor>>
  /\ rejected' = rejected \cup ({auth} \ {NoTok})
  /\ UNCHANGED <<url, mgr, prompts, hops>>

\* CredMngr_getHttpAuth: the user answers with a name and a password ...
PromptAnswer(t) ==
  /\ pc = "prompt" /\ pc' = "connect" /\ prompts < MaxPrompt
  /\ Len(creds) < MaxCreds \/ GetCred(creds, Asked, FALSE) # 0
  /\ creds' = Answered(creds, Asked, t)
  /\ auth' = t /\ authFor' = url /\ rejected' = {} /\ prompts' = prompts + 1
  /\ UNCHANGED <<url, mgr, hops, netVars>>

\* ... with a name that holds a colon, and is asked again ...
PromptAgain ==
  /\ pc = "prompt" /\ prompts < MaxPrompt /\ prompts' = prompts + 1
  /\ UNCHANGED <<creds, pc, url, mgr, auth, authFor, rejected, hops, netVars>>

\* ... or not, or with more than an entry can hold.
PromptRefuse ==
  /\ pc = "prompt" /\ pc' = "cleanup" /\ auth' = NoTok
  /\ UNCHANGED <<creds, url, mgr, authFor, rejected, prompts, hops, netVars>>

\* CLEANUP_ERROR
Cleanup ==
  /\ pc = "cleanup" /\ Return
  /\ LET fd == IF pSsl # 0 THEN pSsl ELSE sockFd
         again == IF fd # 0 /\ fd \notin openFds THEN {"closed twice"} ELSE {}
     IN  /\ Close(fd)
         /\ \/ pSsl = 0 /\ loose' = loose \cup again /\ UNCHANGED ssls
            \/ pSsl # 0 /\ loose' = loose \cup again /\ ssls' = ssls - 1
            \/ pSsl # 0 /\ loose' = loose \cup again \cup {"one step"} /\ UNCHANGED ssls
  /\ UNCHANGED pSsl

\* das_http_readUrl: the body has been read, or as much of it as was wanted.
BodyDone ==
  /\ pc = "body" /\ Return
  /\ Close(IF pSsl # 0 THEN pSsl ELSE sockFd)
  /\ ssls' = IF pSsl # 0 THEN ssls - 1 ELSE ssls
  /\ pSsl' = 0
  /\ UNCHANGED loose

\* das_http_readUrl: the connection broke while the body was read.
BodyBroke ==
  /\ pc = "body" /\ Return
  /\ loose' = loose \cup {"broke"}
  /\ UNCHANGED <<sockFd, pSsl, openFds, ssls>>

-----------------------------------------------------------------------------
Init ==
  /\ creds = <<>> /\ pc = "idle"
  /\ url \in Urls /\ mgr = FALSE /\ auth = NoTok /\ authFor = url
  /\ rejected = {} /\ prompts = 0 /\ hops = 0
  /\ sockFd = 0 /\ pSsl = 0 /\ openFds = {} /\ ssls = 0 /\ loose = {}

Step ==
  \/ ConnectFail \/ ConnectRefused \/ Connect
  \/ RespondError \/ RespondOk \/ (\E u \in Urls : Redirect(u)) \/ AuthReq
  \/ (\E t \in Tokens : PromptAnswer(t)) \/ PromptAgain \/ PromptRefuse
  \/ Cleanup \/ BodyDone \/ BodyBroke

Next ==
  \/ \E k \in Urls, t \in Tokens : AddUserPass(k, t)
  \/ \E lines \in KeyFiles : LoadFile(lines)
  \/ \E u \in Urls, m \in BOOLEAN : Request(u, m)
  \/ Step

\* A call of the library goes on until it returns; nobody has to make one.
Spec == Init /\ [][Next]_vars /\ WF_vars(Step)

-----------------------------------------------------------------------------
TypeOK ==
  /\ creds \in Seq(Entries) /\ Len(creds) <= MaxCreds
  /\ pc \in {"idle", "connect", "respond", "prompt", "cleanup", "body"}
  /\ url \in Urls /\ mgr \in BOOLEAN /\ authFor \in Urls
  /\ auth \in Tokens \cup {NoTok} /\ rejected \subseteq Tokens
  /\ prompts \in 0..MaxPrompt /\ hops \in 0..MaxHops
  /\ sockFd \in Nat /\ pSsl \in Nat /\ openFds \subseteq Nat \ {0} /\ ssls \in Nat
  /\ loose \subseteq {"refused", "one step", "closed twice", "broke"}

\* Two entries answer for the url of the request.
Shadowed == \E i, j \in DOMAIN creds : i < j /\ Matches(creds[i], Asked) /\ Matches(creds[j], Asked)

\* No entry comes after one that answers everything it could be asked: a dataset's own
\* entry is found before the entry for all datasets, whatever was added, loaded and
\* answered (getCred takes the first; each of the three writers looks before it appends).
SpecificFirst ==
  \A i, j \in DOMAIN creds : i < j /\ ~creds[j].cut => ~Matches(creds[i], creds[j])

\* A token the server has refused is sent again, without the user having been asked,
\* only when two entries answer for the url: authFailed then withdraws the first
\* although the second was sent, and getHttpAuth hands out the second for ever.
ResendOnlyShadowed ==
  pc \in {"connect", "respond"} /\ auth \in rejected => Shadowed

\* An entry is withdrawn only because its own token was refused, unless a redirect
\* has taken the token of another url along.
WithdrawsWhatWasSent ==
  [][\A i \in DOMAIN creds :
       creds[i].valid /\ ~creds'[i].valid => creds[i].tok = auth \/ authFor # url]_vars

\* What the manager would send to a url, NoTok when it has to ask.
Answer(cs, u) ==
  LET i == GetCred(cs, [srv |-> u.srv, cut |-> FALSE, ds |-> u.ds], TRUE)
  IN  IF i = 0 THEN NoTok ELSE cs[i].tok

\* A program that loads what was just saved learns nothing new, and one that is started
\* again from the file sends what this one would have sent: withdrawn credentials do not
\* come back (entries that lost the end of their server string may be there twice).
SaveThenLoad ==
  (\A i \in DOMAIN creds : ~creds[i].cut) =>
    /\ Load(creds, Saved(creds)) = [creds |-> creds, new |-> 0]
    /\ \A u \in Urls : Answer(Load(<<>>, Saved(creds)).creds, u) = Answer(creds, u)

\* A request that returns leaves no descriptor open and no SSL object behind, and closed
\* each descriptor once, unless the connection was refused after the socket was made,
\* SSL_shutdown finished in one step, or the body broke off.
NothingLeftOpen ==
  pc = "idle" => \/ openFds = {} /\ ssls = 0 /\ loose = {}
                 \/ loose \cap {"refused", "one step", "broke"} # {}

\* Every request returns, unless it sends a shadowed credential again and again.
RequestEnds == (pc # "idle") ~> (pc = "idle" \/ Shadowed)
==============================================================================
