----------------------------- MODULE PostingProofs -----------------------------
(* Proofs about Accounts and Editing, and about the parts of Posting together,  *)
(* for any number of users, browsers, submissions, versions, links, days and    *)
(* steps, and for every kind of form.                                           *)
EXTENDS Posting, RatingProofs, ModerationProofs, SequenceTheorems, TLAPS


--------------------------------------------------------------------------------
(* The inductive invariant.                                                     *)

AccountType ==
    [at : {"none", "there", "gone"}, name : UserNames \cup {""},
     email : Emails \cup {NoEmail}, fresh : Emails \cup {NoEmail}, active : BOOLEAN,
     key : MailedLinks \cup {NoLink}, born : Nat, by : {"", "link", "reset"}, moved : BOOLEAN]
MailType ==
    [kind : {"none", "activation", "reset"}, of : UserResources \cup {NoLink}, born : Nat,
     page : {"unopened", "success", "failed"}]
Challenge == [n : Nat, audio : BOOLEAN]
PageType ==
    [enabled : BOOLEAN, id : Nat, image : Nat, audio : Nat, audioEnabled : BOOLEAN,
     made : Nat, fetching : SUBSET Challenge, overlapped : BOOLEAN]

Typed ==
    /\ today \in Nat
    /\ accounts \in [UserResources -> AccountType]
    /\ mails \in [MailedLinks -> MailType]
    /\ resets \subseteq MailedLinks

\* Who is gone was never active, and was made long ago; who was activated by a
\* link and has another one has a new email; a user's path is in a mail to him.
UserIsFine(u) ==
    /\ accounts[u].at # "none" => accounts[u].born <= today
    /\ accounts[u].active \/ accounts[u].by = ""
    /\ accounts[u].key # NoLink =>
           mails[accounts[u].key].kind # "none" /\ mails[accounts[u].key].of = u
    /\ accounts[u].at = "gone" =>
           ~ accounts[u].active /\ today - accounts[u].born > ROption
    /\ IsThere(u) /\ accounts[u].by # "reset" =>
           /\ accounts[u].email # NoEmail
           /\ accounts[u].active /\ accounts[u].key # NoLink => accounts[u].fresh # NoEmail
UsersAreFine == \A u \in UserResources : UserIsFine(u)

\* The links of users who are not active yet are as old as their accounts.
LinkIsFine(k) ==
    LET m == mails[k]
    IN  m.kind # "none" =>
            /\ m.of \in UserResources
            /\ accounts[m.of].at # "none"
            /\ m.born <= today
            /\ accounts[m.of].active \/ m.born = accounts[m.of].born
            /\ accounts[m.of].active \/ m.kind # "activation" \/ accounts[m.of].key = k
LinksAreFine ==
    \A k \in MailedLinks :
        /\ LinkIsFine(k)
        /\ k \in resets => mails[k].kind = "reset"
        /\ mails[k].page = "success" => mails[k].kind # "none" /\ accounts[mails[k].of].active

ProfileIsFine ==
    profile.at = "open" =>
        profile.of \in UserResources /\ IsThere(profile.of) /\ accounts[profile.of].active

\* At most one challenge is asked for at a time, and none is shown meanwhile.
PageIsFine ==
    /\ register \in PageType
    /\ ~ register.overlapped =>
           /\ \A f, g \in register.fetching : f = g
           /\ register.fetching # {} => register.image = 0 /\ register.audio = 0
           /\ register.image # 0 => register.id = register.image
           /\ register.audio # 0 => register.id = register.audio

AccountsAreFine ==
    Typed /\ UsersAreFine /\ LinksAreFine /\ ProfileIsFine /\ LoginsIdentify
AccountsInv == AccountsAreFine /\ PageIsFine

--------------------------------------------------------------------------------
(* The captcha.                                                                 *)

\* Asking for a challenge leaves a page with the fields of one.
LEMMA FetchTypes ==
    ASSUME NEW page \in PageType, NEW audio \in BOOLEAN
    PROVE  Fetch(page, audio) \in PageType
<1> DEFINE f == [n |-> page.made + 1, audio |-> audio]
           fetching == page.fetching \cup {f}
           on == page.audioEnabled /\ audio
           over == page.overlapped \/ page.fetching # {}
           made == page.made + 1
<1>1. page.made \in Nat /\ page.fetching \in SUBSET Challenge
    BY DEF PageType
<1>2. f \in Challenge
    BY <1>1 DEF Challenge
<1>3. fetching \in SUBSET Challenge /\ made \in Nat
    BY <1>1, <1>2
<1>4. on \in BOOLEAN /\ over \in BOOLEAN
    OBVIOUS
<1>5. Fetch(page, audio) =
          [page EXCEPT !.image = 0, !.audio = 0, !.made = made, !.audioEnabled = on,
                       !.fetching = fetching, !.overlapped = over]
    BY DEF Fetch
<1> HIDE DEF f, fetching, on, over, made
<1>6. [page EXCEPT !.image = 0, !.audio = 0, !.made = made, !.audioEnabled = on,
                   !.fetching = fetching, !.overlapped = over] \in PageType
    BY <1>3, <1>4 DEF PageType
<1> QED  BY <1>5, <1>6

\* Whatever asks for a challenge hides the one before.
LEMMA FetchKeepsPage ==
    ASSUME PageIsFine, NEW audio \in BOOLEAN, NEW page \in PageType,
           page.fetching = register.fetching, page.overlapped = register.overlapped,
           register' = Fetch(page, audio)
    PROVE  PageIsFine'
<1>1. register' \in PageType
    BY FetchTypes
<1>2. register'.image = 0 /\ register'.audio = 0
    BY DEF PageType, Fetch
<1>3. /\ register'.fetching = page.fetching \cup {[n |-> page.made + 1, audio |-> audio]}
      /\ ~ register'.overlapped => page.fetching = {}
    BY DEF PageType, Fetch
<1> QED  BY <1>1, <1>2, <1>3 DEF PageIsFine

\* The two ways to ask for one.
LEMMA RefreshKeepsPage ==
    ASSUME PageIsFine, register' \in {RefreshCaptcha(register), ToggleAudio(register)}
    PROVE  PageIsFine'
<1> DEFINE on == ~ register.audioEnabled
           page == [register EXCEPT !.audioEnabled = on]
<1>1. register \in PageType
    BY DEF PageIsFine
<1>2. on \in BOOLEAN
    OBVIOUS
<1>3. \/ \E audio \in BOOLEAN : register' = Fetch(register, audio)
      \/ \E audio \in BOOLEAN : register' = Fetch(page, audio)
    BY DEF RefreshCaptcha, ToggleAudio, FetchCaptchaAudio, FetchCaptchaImage
<1> HIDE DEF on
<1>4. page \in PageType /\ page.fetching = register.fetching /\ page.overlapped = register.overlapped
    BY <1>1, <1>2 DEF PageType
<1> HIDE DEF page
<1>5. CASE \E audio \in BOOLEAN : register' = Fetch(register, audio)
    BY <1>1, <1>5, FetchKeepsPage
<1>6. CASE \E audio \in BOOLEAN : register' = Fetch(page, audio)
    BY <1>4, <1>6, FetchKeepsPage
<1> QED  BY <1>3, <1>5, <1>6

\* An answer shows the challenge with its id, or leaves the page as it is.
LEMMA AnswerKeepsPage ==
    ASSUME PageIsFine, GotChallenge
    PROVE  PageIsFine'
<1>1. PICK f \in register.fetching :
          register' \in {ShowsChallenge([register EXCEPT !.fetching = @ \ {f}], f),
                         [register EXCEPT !.fetching = @ \ {f}]}
    BY DEF GotChallenge
<1>2. f \in Challenge
    BY DEF PageIsFine, PageType
<1>3. register' \in PageType
    BY <1>1, <1>2 DEF PageIsFine, PageType, Challenge, ShowsChallenge
<1>4. ASSUME ~ register'.overlapped
      PROVE  /\ register'.fetching = {}
             /\ register'.image # 0 => register'.id = register'.image
             /\ register'.audio # 0 => register'.id = register'.audio
    <2>1. ~ register.overlapped /\ register'.fetching = register.fetching \ {f}
        BY <1>1, <1>4 DEF PageIsFine, PageType, ShowsChallenge
    <2>2. register.image = 0 /\ register.audio = 0 /\ \A g \in register.fetching : g = f
        BY <2>1 DEF PageIsFine
    <2> QED  BY <1>1, <1>2, <2>1, <2>2 DEF PageIsFine, PageType, Challenge, ShowsChallenge
<1> QED  BY <1>3, <1>4 DEF PageIsFine

--------------------------------------------------------------------------------
(* Making users and changing them.                                              *)

\* A new user, whose name and email are nobody else's, with a link.
LEMMA CreatesKeepsAccounts ==
    ASSUME AccountsAreFine, UNCHANGED <<today, profile>>,
           NEW u \in UserResources, NEW k \in MailedLinks,
           NEW name \in UserNames, NEW email \in Emails, NEW kind \in {"activation", "reset"},
           IsNew(u), IsUnused(k), NameFree(name), EmailFree(email),
           Creates(u, k, name, email, kind)
    PROVE  AccountsAreFine'
<1> DEFINE key == IF kind = "activation" THEN k ELSE NoLink
           a == [NoUser EXCEPT !.at = "there", !.name = name, !.email = email,
                               !.born = today, !.key = key]
           m == [NoMail EXCEPT !.kind = kind, !.of = u, !.born = today]
<1>1. accounts' = [accounts EXCEPT ![u] = a] /\ mails' = [mails EXCEPT ![k] = m]
    BY DEF Creates
<1>2. key \in {k, NoLink} /\ (kind = "activation" => key = k)
    OBVIOUS
<1> HIDE DEF key
<1>3. a \in AccountType /\ m \in MailType
    <2>1. NoUser \in AccountType /\ NoMail \in MailType
        BY DEF NoUser, NoMail, AccountType, MailType
    <2> QED  BY <2>1, <1>2 DEF AccountType, MailType, AccountsAreFine, Typed
<1>4. /\ a.at = "there" /\ a.name = name /\ a.email = email /\ ~ a.active
      /\ a.key = key /\ a.born = today /\ a.by = ""
      /\ m.kind = kind /\ m.of = u /\ m.born = today /\ m.page = "unopened"
    BY DEF NoUser, NoMail
<1> HIDE DEF a, m
<1>5. today' = today /\ profile' = profile /\ accounts[u].at = "none" /\ mails[k].kind = "none"
    BY DEF IsNew, IsUnused
<1>6. Typed'
    BY <1>1, <1>3 DEF AccountsAreFine, Typed, Creates
<1>7. /\ accounts'[u] = a /\ mails'[k] = m
      /\ \A v \in UserResources \ {u} : accounts'[v] = accounts[v]
      /\ \A l \in MailedLinks \ {k} : mails'[l] = mails[l]
    BY <1>1 DEF AccountsAreFine, Typed
<1>8. UsersAreFine'
    <2> SUFFICES ASSUME NEW v \in UserResources
                 PROVE  UserIsFine(v)'
        BY DEF UsersAreFine
    <2>1. CASE v = u
        <3>1. accounts'[v] = a /\ today' = today /\ today <= today
            BY <2>1, <1>5, <1>7 DEF AccountsAreFine, Typed
        <3>2. a.key # NoLink => mails'[a.key].kind # "none" /\ mails'[a.key].of = v
            BY <2>1, <1>2, <1>4, <1>7
        <3> QED  BY <3>1, <3>2, <1>4, AccountsAssumption DEF UserIsFine, IsThere
    <2>2. CASE v # u
        <3>1. UserIsFine(v) /\ accounts'[v] = accounts[v] /\ accounts[v] \in AccountType
            BY <2>2, <1>7 DEF AccountsAreFine, UsersAreFine, Typed
        <3>2. accounts[v].key # NoLink => accounts[v].key \in MailedLinks \ {k}
            BY <3>1, <1>5 DEF UserIsFine, AccountType
        <3> QED  BY <3>1, <3>2, <1>5, <1>7 DEF UserIsFine, IsThere
    <2> QED  BY <2>1, <2>2
<1>9. LinksAreFine'
    <2> SUFFICES ASSUME NEW l \in MailedLinks
                 PROVE  /\ LinkIsFine(l)'
                        /\ l \in resets' => mails'[l].kind = "reset"
                        /\ mails'[l].page = "success" =>
                              mails'[l].kind # "none" /\ accounts'[mails'[l].of].active
        BY DEF LinksAreFine
    <2>1. CASE l = k
        <3>0. today \in Nat
            BY DEF AccountsAreFine, Typed
        <3>1. mails'[l] = m /\ accounts'[m.of] = a /\ m.of = u
            BY <2>1, <1>4, <1>7
        <3>2. l \in resets' => kind = "reset"
            <4>1. l \notin resets
                BY <2>1, <1>5 DEF LinksAreFine, AccountsAreFine
            <4> QED  BY <4>1 DEF Creates
        <3>3. /\ mails'[l].kind = kind /\ mails'[l].of = u /\ mails'[l].born = today
              /\ mails'[l].page = "unopened" /\ accounts'[u].at = "there"
              /\ accounts'[u].born = today /\ accounts'[u].key = key
            BY <3>1, <1>4
        <3>4. LinkIsFine(l)'
            BY <2>1, <3>0, <3>3, <1>2, <1>5 DEF LinkIsFine
        <3> QED  BY <3>2, <3>3, <3>4
    <2>2. CASE l # k
        <3>1. /\ LinkIsFine(l) /\ mails'[l] = mails[l] /\ (l \in resets' => l \in resets)
              /\ l \in resets => mails[l].kind = "reset"
              /\ mails[l].page = "success" => mails[l].kind # "none" /\ accounts[mails[l].of].active
            BY <2>2, <1>7 DEF Creates, LinksAreFine, AccountsAreFine
        <3>2. mails[l].kind # "none" => accounts'[mails[l].of] = accounts[mails[l].of]
            BY <3>1, <1>5, <1>7 DEF LinkIsFine
        <3> QED  BY <3>1, <3>2, <1>5 DEF LinkIsFine
    <2> QED  BY <2>1, <2>2
<1>10. ProfileIsFine'
    BY <1>5, <1>7 DEF ProfileIsFine, IsThere, AccountsAreFine
<1>11. LoginsIdentify'
    <2> SUFFICES ASSUME NEW v \in UserResources, NEW w \in UserResources,
                        accounts'[v].at = "there", accounts'[w].at = "there", v # w
                 PROVE  /\ accounts'[v].name # accounts'[w].name
                        /\ accounts'[v].email = accounts'[w].email =>
                               accounts'[v].moved \/ accounts'[w].moved
        BY DEF LoginsIdentify, IsThere
    <2>1. CASE v # u /\ w # u
        BY <2>1, <1>7 DEF AccountsAreFine, LoginsIdentify, IsThere
    <2>2. CASE v = u
        <3>1. accounts'[v] = a /\ accounts'[w] = accounts[w] /\ accounts[w].at = "there"
            BY <2>2, <1>7
        <3> QED  BY <3>1, <1>4 DEF NameFree, EmailFree, IsThere
    <2>3. CASE w = u
        <3>1. accounts'[w] = a /\ accounts'[v] = accounts[v] /\ accounts[v].at = "there"
            BY <2>3, <1>7
        <3> QED  BY <3>1, <1>4 DEF NameFree, EmailFree, IsThere
    <2> QED  BY <2>1, <2>2, <2>3
<1> QED  BY <1>6, <1>8, <1>9, <1>10, <1>11 DEF AccountsAreFine

\* What may become of a user who is there, and of the links.
AccountChanges(u, b) ==
    /\ b.at = "there" /\ b.born = accounts[u].born
    /\ accounts[u].active => b.active
    /\ b.active \/ b.key = accounts[u].key
    /\ b.active \/ b.by = ""
    /\ b.key # NoLink => mails'[b.key].kind # "none" /\ mails'[b.key].of = u
    /\ b.by # "reset" => /\ b.email # NoEmail
                         /\ b.active /\ b.key # NoLink => b.fresh # NoEmail
    /\ accounts[u].moved => b.moved
    /\ b.moved \/ b.email = accounts[u].email
    /\ b.name = accounts[u].name \/ NameFree(b.name)
IsShown(u, b, k) ==
    /\ mails'[k].kind = mails[k].kind
    /\ mails'[k].of = mails[k].of
    /\ mails'[k].born = mails[k].born
    /\ \/ mails'[k].page = mails[k].page
       \/ mails'[k].page = "failed"
       \/ mails[k].kind # "none" /\ mails[k].of = u /\ b.active
    /\ k \in resets' => k \in resets
IsSent(u, b, k) ==
    /\ mails[k].kind = "none" /\ b.active
    /\ mails'[k].kind # "none" /\ mails'[k].of = u /\ mails'[k].born = today
    /\ mails'[k].page = "unopened"
    /\ k \in resets' => mails'[k].kind = "reset"
LinksChange(u, b) ==
    /\ mails' \in [MailedLinks -> MailType] /\ resets' \subseteq MailedLinks
    /\ \A k \in MailedLinks : IsShown(u, b, k) \/ IsSent(u, b, k)

\* Every step of a user or of the server about an existing user is one of these.
LEMMA ChangesKeepAccounts ==
    ASSUME AccountsAreFine, today' = today, profile' \in {profile, NoProfile},
           NEW u \in UserResources, NEW b \in AccountType,
           IsThere(u), accounts' = [accounts EXCEPT ![u] = b],
           AccountChanges(u, b), LinksChange(u, b)
    PROVE  AccountsAreFine'
<1>1. /\ accounts'[u] = b
      /\ \A v \in UserResources \ {u} : accounts'[v] = accounts[v]
    BY DEF AccountsAreFine, Typed
<1>2. Typed'
    BY DEF AccountsAreFine, Typed, LinksChange
<1>3. \A k \in MailedLinks : mails[k].kind # "none" => IsShown(u, b, k)
    BY DEF LinksChange, IsSent
<1>4. UsersAreFine'
    <2> SUFFICES ASSUME NEW v \in UserResources
                 PROVE  UserIsFine(v)'
        BY DEF UsersAreFine
    <2>1. UserIsFine(v) /\ accounts[v] \in AccountType
        BY DEF AccountsAreFine, UsersAreFine, Typed
    <2>2. CASE v = u
        BY <2>1, <2>2, <1>1 DEF UserIsFine, AccountChanges, IsThere
    <2>3. CASE v # u
        <3>1. accounts[v].key # NoLink =>
                  mails'[accounts[v].key].kind # "none" /\ mails'[accounts[v].key].of = v
            BY <2>1, <1>3 DEF UserIsFine, AccountType, IsShown
        <3> QED  BY <2>1, <2>3, <3>1, <1>1 DEF UserIsFine, IsThere
    <2> QED  BY <2>2, <2>3
<1>5. LinksAreFine'
    <2> SUFFICES ASSUME NEW k \in MailedLinks
                 PROVE  /\ LinkIsFine(k)'
                        /\ k \in resets' => mails'[k].kind = "reset"
                        /\ mails'[k].page = "success" =>
                              mails'[k].kind # "none" /\ accounts'[mails'[k].of].active
        BY DEF LinksAreFine
    <2>1. /\ LinkIsFine(k)
          /\ k \in resets => mails[k].kind = "reset"
          /\ mails[k].page = "success" => mails[k].kind # "none" /\ accounts[mails[k].of].active
        BY DEF AccountsAreFine, LinksAreFine
    <2>2. CASE IsShown(u, b, k)
        <3>1. mails[k].kind # "none" =>
                  \/ accounts'[mails[k].of] = accounts[mails[k].of]
                  \/ mails[k].of = u /\ accounts'[mails[k].of] = b
            BY <2>1, <1>1 DEF LinkIsFine
        <3>2. LinkIsFine(k)'
            BY <2>1, <2>2, <3>1 DEF LinkIsFine, IsShown, AccountChanges
        <3>3. mails'[k].page = "success" =>
                  mails'[k].kind # "none" /\ accounts'[mails'[k].of].active
            BY <2>1, <2>2, <3>1, <1>1 DEF IsShown, AccountChanges
        <3> QED  BY <2>1, <2>2, <3>2, <3>3 DEF IsShown
    <2>3. CASE IsSent(u, b, k)
        <3>1. today \in Nat
            BY DEF AccountsAreFine, Typed
        <3>2. /\ mails'[k].kind # "none" /\ mails'[k].of = u /\ mails'[k].born = today
              /\ mails'[k].page = "unopened" /\ accounts'[u].at = "there" /\ accounts'[u].active
            BY <2>3, <1>1 DEF IsSent, AccountChanges
        <3>3. LinkIsFine(k)'
            BY <3>1, <3>2 DEF LinkIsFine
        <3> QED  BY <2>3, <3>2, <3>3 DEF IsSent
    <2> QED  BY <2>2, <2>3 DEF LinksChange
<1>6. ProfileIsFine'
    <2>1. CASE profile' = profile
        <3> SUFFICES ASSUME profile.at = "open"
                     PROVE  /\ profile.of \in UserResources
                            /\ accounts'[profile.of].at = "there"
                            /\ accounts'[profile.of].active
            BY <2>1 DEF ProfileIsFine, IsThere
        <3>1. /\ profile.of \in UserResources /\ accounts[profile.of].at = "there"
              /\ accounts[profile.of].active
            BY DEF AccountsAreFine, ProfileIsFine, IsThere
        <3>2. CASE profile.of = u
            BY <3>1, <3>2, <1>1 DEF AccountChanges
        <3>3. CASE profile.of # u
            BY <3>1, <3>3, <1>1
        <3> QED  BY <3>2, <3>3
    <2>2. CASE profile' = NoProfile
        BY <2>2 DEF ProfileIsFine, NoProfile
    <2> QED  BY <2>1, <2>2
<1>7. LoginsIdentify'
    <2> SUFFICES ASSUME NEW v \in UserResources, NEW w \in UserResources,
                        accounts'[v].at = "there", accounts'[w].at = "there", v # w
                 PROVE  /\ accounts'[v].name # accounts'[w].name
                        /\ accounts'[v].email = accounts'[w].email =>
                               accounts'[v].moved \/ accounts'[w].moved
        BY DEF LoginsIdentify, IsThere
    <2>1. ASSUME NEW x \in UserResources \ {u}, accounts[x].at = "there"
          PROVE  /\ b.name # accounts[x].name
                 /\ b.email = accounts[x].email => b.moved \/ accounts[x].moved
        BY <2>1 DEF AccountsAreFine, LoginsIdentify, IsThere, AccountChanges, NameFree
    <2>2. CASE v # u /\ w # u
        BY <2>2, <1>1 DEF AccountsAreFine, LoginsIdentify, IsThere
    <2>3. CASE v = u
        BY <2>3, <2>1, <1>1
    <2>4. CASE w = u
        BY <2>4, <2>1, <1>1
    <2> QED  BY <2>2, <2>3, <2>4
<1> QED  BY <1>2, <1>4, <1>5, <1>6, <1>7 DEF AccountsAreFine

--------------------------------------------------------------------------------
(* The steps.                                                                   *)

\* What the steps make of an account keeps its type.
LEMMA AccountsKeepTypes ==
    ASSUME NEW a \in AccountType
    PROVE  /\ \A by \in {"link", "reset"} : Activates(a, by) \in AccountType
           /\ FollowsActivationPath(a) \in AccountType
<1>1. ASSUME NEW by \in {"link", "reset"}
      PROVE  Activates(a, by) \in AccountType
    <2>1. [a EXCEPT !.active = TRUE, !.by = by] \in AccountType
        BY DEF AccountType
    <2> QED  BY <2>1 DEF Activates
<1>2. ActivatesNewEmail(a) \in AccountType
    BY DEF ActivatesNewEmail, AccountType
<1>3. ASSUME NEW b \in AccountType
      PROVE  [b EXCEPT !.key = NoLink] \in AccountType
    BY DEF AccountType
<1> QED  BY <1>1, <1>2, <1>3 DEF FollowsActivationPath

\* Activation, by a link or a password reset, and what else it changes.
LEMMA ActivatesFields ==
    ASSUME NEW a \in AccountType, NEW by \in {"link", "reset"}
    PROVE  LET b == Activates(a, by)
           IN  /\ b.at = a.at /\ b.born = a.born /\ b.active /\ b.key = a.key
               /\ b.moved = a.moved /\ b.email = a.email /\ b.name = a.name
               /\ b.fresh = a.fresh
               /\ (b.by = a.by /\ a.active) \/ b.by = by
<1>1. CASE a.active
    BY <1>1 DEF Activates
<1>2. CASE ~ a.active
    BY <1>2 DEF Activates, AccountType
<1> QED  BY <1>1, <1>2

\* A link that is followed is used up; where the user was active, the new email
\* replaces the old one.
LEMMA FollowsFields ==
    ASSUME NEW a \in AccountType
    PROVE  LET b == FollowsActivationPath(a)
           IN  /\ b.at = a.at /\ b.born = a.born /\ b.active /\ b.key = NoLink
               /\ b.name = a.name
               /\ ~ a.active => b.moved = a.moved /\ b.email = a.email
               /\ a.active => b.moved /\ b.email = a.fresh /\ b.by = a.by
<1>1. CASE a.active
    <2>1. FollowsActivationPath(a) = [ActivatesNewEmail(a) EXCEPT !.key = NoLink]
        BY <1>1 DEF FollowsActivationPath
    <2> QED  BY <1>1, <2>1 DEF ActivatesNewEmail, AccountType
<1>2. CASE ~ a.active
    <2>1. FollowsActivationPath(a) = [[a EXCEPT !.active = TRUE, !.by = "link"] EXCEPT !.key = NoLink]
        BY <1>2 DEF FollowsActivationPath, Activates
    <2> QED  BY <1>2, <2>1 DEF AccountType
<1> QED  BY <1>1, <1>2

\* The page of a link that shows what became of it.
LEMMA PageKeepsFields ==
    ASSUME Typed, NEW k \in MailedLinks, NEW outcome \in {"success", "failed"},
           LinkPage(k, outcome)
    PROVE  /\ mails' \in [MailedLinks -> MailType]
           /\ \A l \in MailedLinks :
                 /\ mails'[l].kind = mails[l].kind
                 /\ mails'[l].of = mails[l].of
                 /\ mails'[l].born = mails[l].born
                 /\ l # k => mails'[l].page = mails[l].page
           /\ mails'[k].page = outcome
<1>1. mails[k] \in MailType
    BY DEF Typed
<1> DEFINE m == [mails[k] EXCEPT !.page = outcome]
<1>2. m \in MailType
    BY <1>1 DEF MailType
<1>3. /\ m.kind = mails[k].kind /\ m.of = mails[k].of /\ m.born = mails[k].born
      /\ m.page = outcome
    BY <1>1 DEF MailType
<1>4. mails' = [mails EXCEPT ![k] = m]
    BY DEF LinkPage
<1> HIDE DEF m
<1> QED  BY <1>2, <1>3, <1>4 DEF Typed

\* The mail with a new link.
LEMMA MailFields ==
    ASSUME Typed, NEW k \in MailedLinks, NEW kind \in {"activation", "reset"},
           NEW u \in UserResources,
           mails' = [mails EXCEPT ![k] = [NoMail EXCEPT !.kind = kind, !.of = u, !.born = today]]
    PROVE  /\ mails' \in [MailedLinks -> MailType]
           /\ \A l \in MailedLinks : l # k => mails'[l] = mails[l]
           /\ mails'[k].kind = kind /\ mails'[k].of = u /\ mails'[k].born = today
           /\ mails'[k].page = "unopened"
<1> DEFINE m == [NoMail EXCEPT !.kind = kind, !.of = u, !.born = today]
<1>1. NoMail \in MailType
    BY DEF NoMail, MailType
<1>2. m \in MailType
    BY <1>1 DEF MailType, Typed
<1>3. m.kind = kind /\ m.of = u /\ m.born = today /\ m.page = "unopened"
    BY DEF NoMail
<1>4. mails' = [mails EXCEPT ![k] = m]
    OBVIOUS
<1> HIDE DEF m
<1> QED  BY <1>2, <1>3, <1>4 DEF Typed

\* A link that leads nowhere.
LEMMA FailedKeepsAccounts ==
    ASSUME AccountsAreFine, NEW k \in MailedLinks, LinkPage(k, "failed"),
           UNCHANGED <<today, accounts, resets, profile>>
    PROVE  AccountsAreFine'
<1>1. Typed
    BY DEF AccountsAreFine
<1>2. /\ mails' \in [MailedLinks -> MailType]
      /\ \A l \in MailedLinks :
            /\ mails'[l].kind = mails[l].kind /\ mails'[l].of = mails[l].of
            /\ mails'[l].born = mails[l].born
            /\ mails'[l].page = mails[l].page \/ mails'[l].page = "failed"
    BY <1>1, PageKeepsFields
<1>3. today' = today /\ accounts' = accounts /\ resets' = resets /\ profile' = profile
    OBVIOUS
<1>4. Typed'
    BY <1>1, <1>2, <1>3 DEF Typed
<1>5. UsersAreFine'
    <2> SUFFICES ASSUME NEW v \in UserResources
                 PROVE  UserIsFine(v)'
        BY DEF UsersAreFine
    <2>1. UserIsFine(v) /\ accounts[v].key \in MailedLinks \cup {NoLink}
        BY DEF AccountsAreFine, UsersAreFine, Typed, AccountType
    <2> QED  BY <2>1, <1>2, <1>3 DEF UserIsFine, IsThere
<1>6. LinksAreFine'
    BY <1>2, <1>3 DEF AccountsAreFine, LinksAreFine, LinkIsFine
<1>7. ProfileIsFine' /\ LoginsIdentify'
    BY <1>3 DEF AccountsAreFine, ProfileIsFine, LoginsIdentify, IsThere
<1> QED  BY <1>4, <1>5, <1>6, <1>7 DEF AccountsAreFine

\* A link that activates a user, or the new email of one.
LEMMA ActivateAreaStep ==
    ASSUME AccountsAreFine, NEW k \in MailedLinks, ActivateArea(k)
    PROVE  AccountsAreFine'
<1>1. today' = today /\ resets' = resets /\ profile' = profile
    BY DEF ActivateArea
<1>2. CASE LinkPage(k, "failed") /\ UNCHANGED accounts
    BY <1>1, <1>2, FailedKeepsAccounts
<1>3. ASSUME NEW u \in UserResources, IsGoodFor(k, u),
             accounts' = [accounts EXCEPT ![u] = FollowsActivationPath(@)],
             NEW outcome \in {"success", "failed"}, LinkPage(k, outcome)
      PROVE  AccountsAreFine'
    <2> DEFINE b == FollowsActivationPath(accounts[u])
    <2>1. Typed /\ accounts[u] \in AccountType /\ UserIsFine(u)
        BY DEF AccountsAreFine, UsersAreFine, Typed
    <2>2. b \in AccountType
        BY <2>1, AccountsKeepTypes
    <2>3. IsThere(u) /\ accounts[u].key = k /\ k # NoLink
        BY <1>3, AccountsAssumption DEF IsGoodFor, UserOfPath
    <2>4. mails[k].kind # "none" /\ mails[k].of = u
        BY <2>1, <2>3 DEF UserIsFine
    <2>5. /\ b.at = "there" /\ b.born = accounts[u].born /\ b.active /\ b.key = NoLink
          /\ b.name = accounts[u].name
          /\ ~ accounts[u].active => b.moved = accounts[u].moved /\ b.email = accounts[u].email
          /\ accounts[u].active => b.moved /\ b.email = accounts[u].fresh /\ b.by = accounts[u].by
        BY <2>1, <2>3, FollowsFields DEF IsThere
    <2>6. accounts' = [accounts EXCEPT ![u] = b]
        BY <1>3
    <2> HIDE DEF b
    <2>7. b.by # "reset" => b.email # NoEmail
        BY <2>1, <2>3, <2>5 DEF UserIsFine
    <2>8. AccountChanges(u, b)
        BY <2>5, <2>7 DEF AccountChanges
    <2>9. LinksChange(u, b)
        <3>1. /\ mails' \in [MailedLinks -> MailType]
              /\ \A l \in MailedLinks :
                    /\ mails'[l].kind = mails[l].kind /\ mails'[l].of = mails[l].of
                    /\ mails'[l].born = mails[l].born
                    /\ l # k => mails'[l].page = mails[l].page
            BY <2>1, <1>3, PageKeepsFields
        <3> QED  BY <2>1, <2>4, <2>5, <3>1, <1>1 DEF LinksChange, IsShown, Typed
    <2> QED  BY <2>2, <2>3, <2>6, <2>8, <2>9, <1>1, ChangesKeepAccounts
<1> QED  BY <1>2, <1>3 DEF ActivateArea

\* A password reset that is asked for: the user is activated, and a link is sent.
LEMMA CreatePasswordResetStep ==
    ASSUME AccountsAreFine, NEW email \in Emails, CreatePasswordReset(email)
    PROVE  AccountsAreFine'
<1>1. PICK u \in UserResources, k \in MailedLinks :
          /\ IsThere(u) /\ IsUnused(k)
          /\ accounts' = [accounts EXCEPT ![u] = Activates(accounts[u], "reset")]
          /\ mails' = [mails EXCEPT ![k] =
                          [NoMail EXCEPT !.kind = "reset", !.of = u, !.born = today]]
          /\ resets' = resets \cup {k}
    BY DEF CreatePasswordReset
<1> DEFINE b == Activates(accounts[u], "reset")
<1>2. today' = today /\ profile' = profile
    BY DEF CreatePasswordReset
<1>3. Typed /\ accounts[u] \in AccountType /\ UserIsFine(u)
    BY DEF AccountsAreFine, UsersAreFine, Typed
<1>4. b \in AccountType
    BY <1>3, AccountsKeepTypes
<1>5. /\ b.at = "there" /\ b.born = accounts[u].born /\ b.active /\ b.key = accounts[u].key
      /\ b.name = accounts[u].name /\ b.moved = accounts[u].moved
      /\ b.email = accounts[u].email /\ b.fresh = accounts[u].fresh
      /\ (b.by = accounts[u].by /\ accounts[u].active) \/ b.by = "reset"
    BY <1>1, <1>3, ActivatesFields DEF IsThere
<1>6. accounts' = [accounts EXCEPT ![u] = b]
    BY <1>1
<1> HIDE DEF b
<1>7. /\ mails' \in [MailedLinks -> MailType]
      /\ \A l \in MailedLinks : l # k => mails'[l] = mails[l]
      /\ mails'[k].kind = "reset" /\ mails'[k].of = u /\ mails'[k].born = today
      /\ mails'[k].page = "unopened"
    BY <1>1, <1>3, MailFields
<1>8. mails[k].kind = "none"
    BY <1>1 DEF IsUnused
<1>9. AccountChanges(u, b)
    <2>1. b.key # NoLink => mails'[b.key].kind # "none" /\ mails'[b.key].of = u
        <3>1. accounts[u].key \in MailedLinks \cup {NoLink}
            BY <1>3 DEF AccountType
        <3>2. accounts[u].key # NoLink =>
                  mails[accounts[u].key].kind # "none" /\ mails[accounts[u].key].of = u
            BY <1>3 DEF UserIsFine
        <3> QED  BY <1>5, <1>7, <1>8, <3>1, <3>2
    <2> QED  BY <1>1, <1>3, <1>5, <2>1 DEF UserIsFine, AccountChanges
<1>10. LinksChange(u, b)
    <2>1. resets' \subseteq MailedLinks
        BY <1>1, <1>3 DEF Typed
    <2>2. ASSUME NEW l \in MailedLinks
          PROVE  IsShown(u, b, l) \/ IsSent(u, b, l)
        BY <1>1, <1>5, <1>7, <1>8 DEF IsShown, IsSent
    <2> QED  BY <1>7, <2>1, <2>2 DEF LinksChange
<1> QED  BY <1>1, <1>2, <1>4, <1>6, <1>9, <1>10, ChangesKeepAccounts

\* A password reset that is used, or that is not good any more.
LEMMA PasswordResetStep ==
    ASSUME AccountsAreFine, NEW k \in MailedLinks, PasswordReset(k)
    PROVE  AccountsAreFine'
<1>1. today' = today /\ profile' = profile
    BY DEF PasswordReset
<1>2. CASE ~ IsGoodReset(k)
    BY <1>1, <1>2, FailedKeepsAccounts DEF PasswordReset
<1>3. ASSUME IsGoodReset(k), NEW outcome \in {"success", "failed"}, LinkPage(k, outcome)
      PROVE  AccountsAreFine'
    <2> DEFINE u == mails[k].of
               b == Activates(accounts[u], "reset")
    <2>1. Typed /\ LinkIsFine(k) /\ k \in resets /\ mails[k].kind = "reset" /\ IsThere(u)
        BY <1>3 DEF AccountsAreFine, LinksAreFine, PasswordReset, IsGoodReset
    <2>2. u \in UserResources
        BY <2>1 DEF LinkIsFine
    <2>3. accounts' = [accounts EXCEPT ![u] = b] /\ resets' = resets \ {k}
        BY <1>3 DEF PasswordReset
    <2>4. mails[k].of = u
        OBVIOUS
    <2> HIDE DEF u
    <2>5. accounts[u] \in AccountType /\ UserIsFine(u)
        BY <2>1, <2>2 DEF AccountsAreFine, UsersAreFine, Typed
    <2>6. b \in AccountType
        BY <2>5, AccountsKeepTypes
    <2>7. /\ b.at = "there" /\ b.born = accounts[u].born /\ b.active /\ b.key = accounts[u].key
          /\ b.name = accounts[u].name /\ b.moved = accounts[u].moved
          /\ b.email = accounts[u].email /\ b.fresh = accounts[u].fresh
          /\ (b.by = accounts[u].by /\ accounts[u].active) \/ b.by = "reset"
        BY <2>1, <2>5, ActivatesFields DEF IsThere
    <2> HIDE DEF b
    <2>8. /\ mails' \in [MailedLinks -> MailType]
          /\ \A l \in MailedLinks :
                /\ mails'[l].kind = mails[l].kind /\ mails'[l].of = mails[l].of
                /\ mails'[l].born = mails[l].born
                /\ l # k => mails'[l].page = mails[l].page
        BY <2>1, <1>3, PageKeepsFields
    <2>9. AccountChanges(u, b)
        <3>1. b.key # NoLink => mails'[b.key].kind # "none" /\ mails'[b.key].of = u
            <4>1. accounts[u].key \in MailedLinks \cup {NoLink}
                BY <2>5 DEF AccountType
            <4>2. accounts[u].key # NoLink =>
                      mails[accounts[u].key].kind # "none" /\ mails[accounts[u].key].of = u
                BY <2>5 DEF UserIsFine
            <4> QED  BY <2>7, <2>8, <4>1, <4>2
        <3> QED  BY <2>1, <2>5, <2>7, <3>1 DEF UserIsFine, AccountChanges
    <2>10. LinksChange(u, b)
        BY <2>1, <2>3, <2>4, <2>7, <2>8 DEF LinksChange, IsShown, Typed
    <2> QED  BY <2>1, <2>2, <2>3, <2>6, <2>9, <2>10, <1>1, ChangesKeepAccounts
<1> QED  BY <1>2, <1>3 DEF PasswordReset

\* The new email waits for its link; the user was active already.
LEMMA PostEditStep ==
    ASSUME AccountsAreFine, NEW name \in UserNames, NEW email \in Emails, PostEdit(name, email)
    PROVE  AccountsAreFine'
<1> DEFINE u == profile.of
<1>1. /\ today' = today /\ profile' = NoProfile /\ resets' = resets
      /\ profile.at = "open"
      /\ accounts[u].name = name \/ NameFree(name)
    BY DEF PostEdit
<1>2. u \in UserResources /\ IsThere(u) /\ accounts[u].active
    BY <1>1 DEF AccountsAreFine, ProfileIsFine
<1>3. \/ accounts' = [accounts EXCEPT ![u].name = name] /\ UNCHANGED mails
      \/ \E k \in MailedLinks :
            /\ IsUnused(k)
            /\ accounts' = [accounts EXCEPT ![u].name = name, ![u].fresh = email, ![u].key = k]
            /\ mails' = [mails EXCEPT ![k] =
                            [NoMail EXCEPT !.kind = "activation", !.of = u, !.born = today]]
    BY DEF PostEdit
<1> HIDE DEF u
<1>4. Typed /\ accounts[u] \in AccountType /\ UserIsFine(u)
    BY <1>2 DEF AccountsAreFine, UsersAreFine, Typed
<1>5. CASE accounts' = [accounts EXCEPT ![u].name = name] /\ UNCHANGED mails
    <2> DEFINE b == [accounts[u] EXCEPT !.name = name]
    <2>1. b \in AccountType
        BY <1>4 DEF AccountType
    <2>2. /\ b.at = "there" /\ b.name = name /\ b.active
          /\ b.born = accounts[u].born /\ b.key = accounts[u].key
          /\ b.moved = accounts[u].moved /\ b.email = accounts[u].email
          /\ b.fresh = accounts[u].fresh /\ b.by = accounts[u].by
        BY <1>2, <1>4 DEF AccountType, IsThere
    <2>3. accounts' = [accounts EXCEPT ![u] = b]
        BY <1>5
    <2> HIDE DEF b
    <2>4. mails' = mails
        BY <1>5
    <2>5. AccountChanges(u, b)
        BY <1>1, <1>2, <1>4, <2>2, <2>4 DEF UserIsFine, AccountChanges
    <2>6. LinksChange(u, b)
        BY <1>1, <1>4, <2>4 DEF LinksChange, IsShown, Typed
    <2> QED  BY <1>1, <1>2, <2>1, <2>3, <2>5, <2>6, ChangesKeepAccounts
<1>6. ASSUME NEW k \in MailedLinks, IsUnused(k),
             accounts' = [accounts EXCEPT ![u].name = name, ![u].fresh = email, ![u].key = k],
             mails' = [mails EXCEPT ![k] =
                          [NoMail EXCEPT !.kind = "activation", !.of = u, !.born = today]]
      PROVE  AccountsAreFine'
    <2> DEFINE b == [accounts[u] EXCEPT !.name = name, !.fresh = email, !.key = k]
    <2>1. b \in AccountType
        BY <1>4 DEF AccountType
    <2>2. /\ b.at = "there" /\ b.name = name /\ b.active
          /\ b.born = accounts[u].born /\ b.key = k
          /\ b.moved = accounts[u].moved /\ b.email = accounts[u].email
          /\ b.fresh = email /\ b.by = accounts[u].by
        BY <1>2, <1>4 DEF AccountType, IsThere
    <2>3. accounts' = [accounts EXCEPT ![u] = b]
        BY <1>6
    <2> HIDE DEF b
    <2>4. /\ mails' \in [MailedLinks -> MailType]
          /\ \A l \in MailedLinks : l # k => mails'[l] = mails[l]
          /\ mails'[k].kind = "activation" /\ mails'[k].of = u /\ mails'[k].born = today
          /\ mails'[k].page = "unopened"
        BY <1>2, <1>4, <1>6, MailFields
    <2>5. mails[k].kind = "none" /\ k \notin resets
        BY <1>6 DEF IsUnused, AccountsAreFine, LinksAreFine
    <2>6. email # NoEmail
        BY AccountsAssumption
    <2>7. AccountChanges(u, b)
        BY <1>1, <1>2, <1>4, <2>2, <2>4, <2>6 DEF UserIsFine, AccountChanges
    <2>8. LinksChange(u, b)
        <3>1. IsSent(u, b, k)
            BY <1>1, <2>2, <2>4, <2>5 DEF IsSent
        <3>2. ASSUME NEW l \in MailedLinks, l # k
              PROVE  IsShown(u, b, l)
            BY <1>1, <2>4, <3>2 DEF IsShown
        <3> QED  BY <1>1, <1>4, <2>4, <3>1, <3>2 DEF LinksChange, Typed
    <2> QED  BY <1>1, <1>2, <2>1, <2>3, <2>7, <2>8, ChangesKeepAccounts
<1> QED  BY <1>3, <1>5, <1>6

\* Time makes nobody younger, and links no younger than their users.
LEMMA WaitStep ==
    ASSUME AccountsAreFine, Wait
    PROVE  AccountsAreFine'
<1>1. /\ today \in Nat /\ today' \in Nat /\ today' > today
      /\ accounts' = accounts /\ mails' = mails /\ resets' = resets /\ profile' = profile
    BY AccountsAssumption DEF Wait, AccountsAreFine, Typed
<1>2. Typed'
    BY <1>1 DEF AccountsAreFine, Typed
<1>3. UsersAreFine'
    <2> SUFFICES ASSUME NEW v \in UserResources
                 PROVE  UserIsFine(v)'
        BY DEF UsersAreFine
    <2>1. UserIsFine(v) /\ accounts[v].born \in Nat
        BY DEF AccountsAreFine, UsersAreFine, Typed, AccountType
    <2>2. accounts[v].born <= today => accounts[v].born <= today'
        BY <1>1, <2>1
    <2>3. today - accounts[v].born > ROption => today' - accounts[v].born > ROption
        BY <1>1, <2>1, AccountsAssumption
    <2> QED  BY <1>1, <2>1, <2>2, <2>3 DEF UserIsFine, IsThere
<1>4. LinksAreFine'
    <2> SUFFICES ASSUME NEW k \in MailedLinks
                 PROVE  /\ LinkIsFine(k)'
                        /\ k \in resets' => mails'[k].kind = "reset"
                        /\ mails'[k].page = "success" =>
                              mails'[k].kind # "none" /\ accounts'[mails'[k].of].active
        BY DEF LinksAreFine
    <2>1. /\ LinkIsFine(k) /\ mails[k].born \in Nat
          /\ k \in resets => mails[k].kind = "reset"
          /\ mails[k].page = "success" => mails[k].kind # "none" /\ accounts[mails[k].of].active
        BY DEF AccountsAreFine, LinksAreFine, Typed, MailType
    <2>2. mails[k].born <= today => mails[k].born <= today'
        BY <1>1, <2>1
    <2>3. LinkIsFine(k)'
        BY <1>1, <2>1, <2>2 DEF LinkIsFine
    <2> QED  BY <1>1, <2>1, <2>3
<1>5. ProfileIsFine' /\ LoginsIdentify'
    BY <1>1 DEF AccountsAreFine, ProfileIsFine, LoginsIdentify, IsThere
<1> QED  BY <1>2, <1>3, <1>4, <1>5 DEF AccountsAreFine

\* The script removes only users who were never active, and makes no link younger.
LEMMA DeleteStaleLoginDataStep ==
    ASSUME AccountsAreFine, DeleteStaleLoginData
    PROVE  AccountsAreFine'
<1>1. /\ today' = today /\ mails' = mails /\ profile' = profile
      /\ resets' \subseteq resets /\ Typed
    BY DEF DeleteStaleLoginData, AccountsAreFine
<1>2. ASSUME NEW u \in UserResources
      PROVE  \/ accounts'[u] = accounts[u]
             \/ /\ accounts'[u] = [accounts[u] EXCEPT !.at = "gone"]
                /\ IsThere(u) /\ ~ accounts[u].active /\ today - accounts[u].born > ROption
    BY DEF DeleteStaleLoginData, ExpiredUsers, IsOlderThan
<1>3. ASSUME NEW u \in UserResources
      PROVE  /\ accounts'[u] \in AccountType
             /\ accounts'[u].name = accounts[u].name /\ accounts'[u].email = accounts[u].email
             /\ accounts'[u].fresh = accounts[u].fresh /\ accounts'[u].by = accounts[u].by
             /\ accounts'[u].key = accounts[u].key /\ accounts'[u].born = accounts[u].born
             /\ (accounts'[u].active <=> accounts[u].active)
             /\ (accounts'[u].moved <=> accounts[u].moved)
             /\ \/ accounts'[u].at = accounts[u].at
                \/ /\ accounts'[u].at = "gone" /\ accounts[u].at = "there"
                   /\ ~ accounts[u].active /\ today - accounts[u].born > ROption
    <2>1. accounts[u] \in AccountType
        BY <1>1 DEF Typed
    <2> DEFINE b == [accounts[u] EXCEPT !.at = "gone"]
    <2>2. /\ b \in AccountType /\ b.at = "gone"
          /\ b.name = accounts[u].name /\ b.email = accounts[u].email
          /\ b.fresh = accounts[u].fresh /\ b.by = accounts[u].by
          /\ b.key = accounts[u].key /\ b.born = accounts[u].born
          /\ b.active = accounts[u].active /\ b.moved = accounts[u].moved
        BY <2>1 DEF AccountType
    <2>3. CASE accounts'[u] = accounts[u]
        BY <2>1, <2>3
    <2>4. CASE /\ accounts'[u] = b /\ IsThere(u) /\ ~ accounts[u].active
               /\ today - accounts[u].born > ROption
        <3> HIDE DEF b
        <3> QED  BY <2>2, <2>4 DEF IsThere
    <2> QED  BY <2>3, <2>4, <1>2
<1>4. Typed'
    <2>1. accounts' = [u \in UserResources |-> accounts'[u]]
        BY DEF DeleteStaleLoginData
    <2>2. accounts' \in [UserResources -> AccountType]
        BY <2>1, <1>3
    <2> QED  BY <2>2, <1>1 DEF Typed
<1>5. UsersAreFine'
    <2> SUFFICES ASSUME NEW v \in UserResources
                 PROVE  UserIsFine(v)'
        BY DEF UsersAreFine
    <2>1. UserIsFine(v)
        BY DEF AccountsAreFine, UsersAreFine
    <2> QED  BY <2>1, <1>1, <1>3 DEF UserIsFine, IsThere
<1>6. LinksAreFine'
    <2> SUFFICES ASSUME NEW k \in MailedLinks
                 PROVE  /\ LinkIsFine(k)'
                        /\ k \in resets' => mails'[k].kind = "reset"
                        /\ mails'[k].page = "success" =>
                              mails'[k].kind # "none" /\ accounts'[mails'[k].of].active
        BY DEF LinksAreFine
    <2>1. /\ LinkIsFine(k)
          /\ k \in resets => mails[k].kind = "reset"
          /\ mails[k].page = "success" => mails[k].kind # "none" /\ accounts[mails[k].of].active
        BY DEF AccountsAreFine, LinksAreFine
    <2>2. mails[k].kind # "none" => mails[k].of \in UserResources
        BY <2>1 DEF LinkIsFine
    <2> QED  BY <2>1, <2>2, <1>1, <1>3 DEF LinkIsFine
<1>7. ProfileIsFine'
    BY <1>1, <1>3 DEF AccountsAreFine, ProfileIsFine, IsThere
<1>8. LoginsIdentify'
    BY <1>3 DEF AccountsAreFine, LoginsIdentify, IsThere
<1> QED  BY <1>4, <1>5, <1>6, <1>7, <1>8 DEF AccountsAreFine

\* Steps of the captcha, and steps of nobody, leave users and links alone.
LEMMA SameAccounts ==
    ASSUME AccountsAreFine, UNCHANGED <<today, accounts, mails, resets, profile>>
    PROVE  AccountsAreFine'
<1>1. /\ today' = today /\ accounts' = accounts /\ mails' = mails
      /\ resets' = resets /\ profile' = profile
    OBVIOUS
<1>2. Typed' /\ ProfileIsFine' /\ LoginsIdentify'
    BY <1>1 DEF AccountsAreFine, Typed, ProfileIsFine, LoginsIdentify, IsThere
<1>3. UsersAreFine'
    <2> SUFFICES ASSUME NEW v \in UserResources
                 PROVE  UserIsFine(v)'
        BY DEF UsersAreFine
    <2>1. UserIsFine(v)
        BY DEF AccountsAreFine, UsersAreFine
    <2> QED  BY <2>1, <1>1 DEF UserIsFine, IsThere
<1>4. LinksAreFine'
    BY <1>1 DEF AccountsAreFine, LinksAreFine, LinkIsFine
<1> QED  BY <1>2, <1>3, <1>4 DEF AccountsAreFine

\* Registration, with the captcha that follows a refusal or a lost answer.
LEMMA RegisterStep ==
    ASSUME AccountsAreFine, NEW name \in UserNames, NEW email \in Emails, NEW guess,
           Register(name, email, guess)
    PROVE  AccountsAreFine'
<1>1. UNCHANGED <<today, profile>>
    BY DEF Register
<1>2. CASE UNCHANGED <<accounts, mails, resets>>
    BY <1>1, <1>2, SameAccounts
<1>3. ASSUME NEW u \in UserResources, NEW k \in MailedLinks, NameFree(name), EmailFree(email),
             IsNew(u), IsUnused(k), Creates(u, k, name, email, "activation")
      PROVE  AccountsAreFine'
    BY <1>1, <1>3, CreatesKeepsAccounts
<1> QED  BY <1>2, <1>3 DEF Register

\* A profile is opened of a user who is active.
LEMMA OpenProfileStep ==
    ASSUME AccountsAreFine, NEW u \in UserResources, OpenProfile(u)
    PROVE  AccountsAreFine'
<1>1. /\ today' = today /\ accounts' = accounts /\ mails' = mails /\ resets' = resets
      /\ IsThere(u) /\ accounts[u].active
      /\ profile' = [at |-> "open", of |-> u]
    BY DEF OpenProfile
<1>2. profile'.of = u
    BY <1>1
<1>3. ProfileIsFine'
    BY <1>1, <1>2 DEF ProfileIsFine, IsThere
<1>4. Typed' /\ LoginsIdentify'
    BY <1>1 DEF AccountsAreFine, Typed, LoginsIdentify, IsThere
<1>5. UsersAreFine' /\ LinksAreFine'
    BY <1>1 DEF AccountsAreFine, UsersAreFine, UserIsFine, LinksAreFine, LinkIsFine, IsThere
<1> QED  BY <1>3, <1>4, <1>5 DEF AccountsAreFine

\* Every step leaves the users, their links and the open profile fine.
LEMMA AccountsStep ==
    ASSUME AccountsAreFine, [AccountsNext]_accountsVars
    PROVE  AccountsAreFine'
<1>1. CASE NewChallenge \/ GotChallenge \/ UNCHANGED accountsVars
    BY <1>1, SameAccounts DEF NewChallenge, GotChallenge, accountsVars
<1>2. ASSUME NEW name \in UserNames, NEW email \in Emails, NEW guess \in {0, Shown(register)},
             Register(name, email, guess)
      PROVE  AccountsAreFine'
    BY <1>2, RegisterStep
<1>3. ASSUME NEW name \in UserNames, NEW email \in Emails, Invite(name, email)
      PROVE  AccountsAreFine'
    <2>1. PICK u \in UserResources, k \in MailedLinks :
              IsNew(u) /\ IsUnused(k) /\ Creates(u, k, name, email, "reset")
        BY <1>3 DEF Invite
    <2>2. UNCHANGED <<today, profile>> /\ NameFree(name) /\ EmailFree(email)
        BY <1>3 DEF Invite
    <2> QED  BY <2>1, <2>2, CreatesKeepsAccounts
<1>4. ASSUME NEW name \in UserNames, NEW email \in Emails, PostEdit(name, email)
      PROVE  AccountsAreFine'
    BY <1>4, PostEditStep
<1>5. ASSUME NEW k \in MailedLinks, ActivateArea(k) \/ PasswordReset(k)
      PROVE  AccountsAreFine'
    BY <1>5, ActivateAreaStep, PasswordResetStep
<1>6. ASSUME NEW email \in Emails, CreatePasswordReset(email)
      PROVE  AccountsAreFine'
    BY <1>6, CreatePasswordResetStep
<1>7. ASSUME NEW u \in UserResources, OpenProfile(u)
      PROVE  AccountsAreFine'
    BY <1>7, OpenProfileStep
<1>8. CASE Wait \/ DeleteStaleLoginData
    BY <1>8, WaitStep, DeleteStaleLoginDataStep
<1> QED  BY <1>1, <1>2, <1>3, <1>4, <1>5, <1>6, <1>7, <1>8 DEF AccountsNext

\* Every step leaves the page for registration fine.
LEMMA PageStep ==
    ASSUME PageIsFine, [AccountsNext]_accountsVars
    PROVE  PageIsFine'
<1>1. CASE UNCHANGED register
    BY <1>1 DEF PageIsFine
<1>2. CASE NewChallenge
    BY <1>2, RefreshKeepsPage DEF NewChallenge
<1>3. CASE GotChallenge
    BY <1>3, AnswerKeepsPage
<1>4. ASSUME NEW name \in UserNames, NEW email \in Emails, NEW guess \in {0, Shown(register)},
             Register(name, email, guess)
      PROVE  PageIsFine'
    <2>1. register' = register \/ register' = RefreshCaptcha(register)
        BY <1>4 DEF Register, RegisterFails
    <2> QED  BY <2>1, <1>1, RefreshKeepsPage
<1> QED  BY <1>1, <1>2, <1>3, <1>4 DEF AccountsNext, accountsVars, Invite, PostEdit, ActivateArea,
            PasswordReset, CreatePasswordReset, OpenProfile, Wait, DeleteStaleLoginData

\* At the start nobody has an account, and at most one challenge is asked for.
LEMMA AccountsStart ==
    ASSUME AccountsInit
    PROVE  AccountsInv
<1> DEFINE on == [NoPage EXCEPT !.enabled = TRUE]
<1>1. NoUser \in AccountType /\ NoMail \in MailType
    BY DEF NoUser, NoMail, AccountType, MailType
<1>2. /\ accounts = [u \in UserResources |-> NoUser] /\ mails = [k \in MailedLinks |-> NoMail]
      /\ resets = {} /\ profile = NoProfile /\ today = 0
    BY DEF AccountsInit
<1>3. Typed
    BY <1>1, <1>2 DEF Typed
<1>4. UsersAreFine
    BY <1>2 DEF UsersAreFine, UserIsFine, NoUser, IsThere
<1>5. LinksAreFine
    BY <1>2 DEF LinksAreFine, LinkIsFine, NoMail
<1>6. ProfileIsFine /\ LoginsIdentify
    BY <1>2 DEF ProfileIsFine, LoginsIdentify, NoProfile, NoUser, IsThere
<1>7. PageIsFine
    <2>1. NoPage \in PageType /\ on \in PageType
        BY DEF NoPage, PageType
    <2>2. CASE register = NoPage
        BY <2>1, <2>2 DEF PageIsFine, NoPage
    <2>3. CASE register = FetchCaptchaImage(on)
        <3>1. register = Fetch(on, FALSE)
            BY <2>3 DEF FetchCaptchaImage
        <3>2. register \in PageType
            BY <3>1, <2>1, FetchTypes
        <3>3. on.fetching = {} /\ on.made = 0
            BY DEF NoPage
        <3>4. /\ register.image = 0 /\ register.audio = 0
              /\ register.fetching = on.fetching \cup {[n |-> on.made + 1, audio |-> FALSE]}
            BY <3>1, <2>1 DEF Fetch, PageType
        <3> QED  BY <3>2, <3>3, <3>4 DEF PageIsFine
    <2> QED  BY <2>2, <2>3 DEF AccountsInit
<1> QED  BY <1>3, <1>4, <1>5, <1>6, <1>7 DEF AccountsInv, AccountsAreFine

--------------------------------------------------------------------------------
(* The theorems.                                                                *)

\* The inductive invariant holds for ever.
THEOREM AccountsInvariance == AccountsSpec => []AccountsInv
<1>1. AccountsInit => AccountsInv
    BY AccountsStart
<1>2. AccountsInv /\ [AccountsNext]_accountsVars => AccountsInv'
    BY AccountsStep, PageStep DEF AccountsInv
<1> QED  BY <1>1, <1>2, PTL DEF AccountsSpec

\* What the properties say follows from the invariant.
LEMMA LinksFollow == AccountsInv => LinksLead
<1> SUFFICES ASSUME AccountsInv, NEW k \in MailedLinks
             PROVE  LET u == mails[k].of
                    IN  /\ mails[k].kind = "activation"
                              /\ ~ IsOlderThan(mails[k].born, ActivationDays) =>
                                IsThere(u) /\ (accounts[u].key = k \/ accounts[u].active)
                        /\ k \in resets /\ today - mails[k].born < ResetDays => IsThere(u)
                        /\ mails[k].page = "success" => IsThere(u) /\ accounts[u].active
    BY DEF LinksLead
<1> DEFINE u == mails[k].of
<1>1. /\ LinkIsFine(k)
      /\ k \in resets => mails[k].kind = "reset"
      /\ mails[k].page = "success" => mails[k].kind # "none" /\ accounts[u].active
    BY DEF AccountsInv, AccountsAreFine, LinksAreFine
<1>2. CASE mails[k].kind # "none"
    <2>1. /\ u \in UserResources /\ accounts[u].at # "none"
          /\ accounts[u].active \/ mails[k].born = accounts[u].born
          /\ accounts[u].active \/ mails[k].kind # "activation" \/ accounts[u].key = k
        BY <1>1, <1>2 DEF LinkIsFine
    <2>2. accounts[u].at \in {"none", "there", "gone"} /\ accounts[u].born \in Nat /\ today \in Nat
        BY <2>1 DEF AccountsInv, AccountsAreFine, Typed, AccountType
    <2>3. accounts[u].at = "gone" => ~ accounts[u].active /\ today - accounts[u].born > ROption
        BY <2>1 DEF AccountsInv, AccountsAreFine, UsersAreFine, UserIsFine
    <2>4. accounts[u].at = "gone" =>
              /\ IsOlderThan(mails[k].born, ActivationDays)
              /\ ~ (today - mails[k].born < ResetDays)
              /\ mails[k].page # "success"
        <3>1. ROption \in Nat /\ ROption >= ActivationDays /\ ROption >= ResetDays
            BY AccountsAssumption
        <3> QED  BY <3>1, <2>1, <2>2, <2>3, <1>1 DEF IsOlderThan, ActivationDays, ResetDays
    <2> QED  BY <1>1, <2>1, <2>2, <2>4 DEF IsThere
<1>3. CASE mails[k].kind = "none"
    BY <1>1, <1>3
<1> QED  BY <1>2, <1>3

\* So do those about logins, emails and the captcha.
LEMMA AccountsFollow == AccountsInv => LoginsIdentify /\ EmailIsKept /\ CaptchaFits
<1>1. AccountsInv => LoginsIdentify
    BY DEF AccountsInv, AccountsAreFine
<1>2. AccountsInv => EmailIsKept
    BY DEF AccountsInv, AccountsAreFine, UsersAreFine, UserIsFine, EmailIsKept
<1>3. AccountsInv => CaptchaFits
    BY DEF AccountsInv, PageIsFine, CaptchaFits, Shown
<1> QED  BY <1>1, <1>2, <1>3

\* Every link that is good leads to its account: the script, run with the ages
\* that the assumption asks for, removes no account that somebody can still reach.
THEOREM LinksAlwaysLead == AccountsSpec => []LinksLead
BY LinksFollow, AccountsInvariance, PTL

\* No two users have a name in common, nor the email of a registration: what the
\* search for a login relies on.
THEOREM LoginsAlwaysIdentify == AccountsSpec => []LoginsIdentify
BY AccountsFollow, AccountsInvariance, PTL

\* Nobody whom the link of a registration activated is ever left without an email.
THEOREM EmailIsAlwaysKept == AccountsSpec => []EmailIsKept
BY AccountsFollow, AccountsInvariance, PTL

\* The challenge on the page is the one that will be answered.
THEOREM CaptchaAlwaysFits == AccountsSpec => []CaptchaFits
BY AccountsFollow, AccountsInvariance, PTL

--------------------------------------------------------------------------------
(* Editing: the steps of a form, and that a conflict is reported.               *)

Steps == {"old", "upload", "get", "post"}
Uploading == {"document", "mercator2015", "mercator2016", "image"}
Getting == {"comment", "mercator2015", "mercator2016", "image"}

StepFits(f, step) ==
    /\ step \in Steps
    /\ step = "get" => f.kind \in Getting
    /\ step = "upload" => f.kind \in Uploading
    /\ step = "old" => f.kind = "mercator2015" /\ ~f.create

\* The steps of each form.
LEMMA StepsOf ==
    ASSUME NEW f, f \in [kind : Kinds, create : BOOLEAN]
    PROVE  LET steps == DirectiveOf(f.kind, f.create).steps
           IN  \/ steps = <<"post">>
               \/ steps = <<"upload", "post">> /\ f.kind \in Uploading
               \/ steps = <<"get", "post">> /\ f.kind = "comment"
               \/ /\ steps = <<"old", "upload", "get", "post">>
                  /\ f.kind = "mercator2015" /\ ~f.create
               \/ steps = <<"upload", "get", "post">> /\ f.kind \in Uploading \ {"document", "mercator2015"}
<1> DEFINE k == f.kind
           d == DirectiveOf(f.kind, f.create)
<1>1. k \in Kinds /\ f.create \in BOOLEAN
  OBVIOUS
<1>2. CASE k = "s1"
  <2>1. d = IF f.create THEN S1Create ELSE S1Edit
    BY <1>2 DEF DirectiveOf
  <2> QED
    BY <2>1, <1>2 DEF S1Create, S1Edit, Directive
<1>3. CASE k = "bplan"
  BY <1>3 DEF DirectiveOf, BplanCreate, Directive
<1>4. CASE k = "document"
  BY <1>4 DEF DirectiveOf, DocumentCreate, DocumentEditor, Directive, Uploading
<1>5. CASE k = "blog"
  BY <1>5 DEF DirectiveOf, BlogCreate, BlogPost, Directive
<1>6. CASE k = "comment"
  BY <1>6 DEF DirectiveOf, CommentCreate, CommentDetail, Directive
<1>7. CASE k = "mercator2015"
  BY <1>7 DEF DirectiveOf, Mercator2015Create, Mercator2015Detail, Directive, Uploading
<1>8. CASE k = "mercator2016"
  BY <1>8 DEF DirectiveOf, Mercator2016Create, Mercator2016Editor, Directive, Uploading
<1>9. CASE k = "image"
  BY <1>9 DEF DirectiveOf, ImageUpload, Directive, Uploading
<1>10. CASE k \in {"idea", "buergerhaushalt", "kiezkasse"}
  BY <1>10 DEF DirectiveOf, IdeaCreate, IdeaEdit, Directive
<1> QED
  BY <1>1, <1>2, <1>3, <1>4, <1>5, <1>6, <1>7, <1>8, <1>9, <1>10 DEF Kinds

\* The first step is one that the form has.
LEMMA FirstStepFits ==
    ASSUME NEW page, form \in [kind : Kinds, create : BOOLEAN]
    PROVE  StepFits(form, FirstStep(page))
<1> DEFINE s == Used.steps
<1>1. FirstStep(page) = IF Head(s) = "upload" /\ ~Uploads(page) THEN Head(Tail(s)) ELSE Head(s)
  BY DEF FirstStep, NextStep
<1>2. CASE s = <<"post">>
  BY <1>1, <1>2 DEF StepFits, Steps
<1>3. CASE s = <<"upload", "post">> /\ form.kind \in Uploading
  <2>1. Head(s) = "upload" /\ Head(Tail(s)) = "post"
    BY <1>3
  <2> QED
    BY <1>1, <1>3, <2>1 DEF StepFits, Steps
<1>4. CASE s = <<"get", "post">> /\ form.kind = "comment"
  BY <1>1, <1>4 DEF StepFits, Steps, Getting
<1>5. CASE s = <<"old", "upload", "get", "post">> /\ form.kind = "mercator2015" /\ ~form.create
  BY <1>1, <1>5 DEF StepFits, Steps
<1>6. CASE s = <<"upload", "get", "post">> /\ form.kind \in Uploading \ {"document", "mercator2015"}
  <2>1. Head(s) = "upload" /\ Head(Tail(s)) = "get"
    BY <1>6
  <2> QED
    BY <1>1, <1>6, <2>1 DEF StepFits, Steps, Uploading, Getting
<1> QED
  BY <1>2, <1>3, <1>4, <1>5, <1>6, StepsOf DEF Used

\* What comes after the i-th of some steps.
LEMMA RestOfSteps ==
    ASSUME NEW s \in Seq(Steps), NEW i \in 1..Len(s), i < Len(s)
    PROVE  LET rest == SubSeq(s, i + 1, Len(s))
           IN  /\ Head(rest) = s[i + 1]
               /\ i + 1 < Len(s) => Head(Tail(rest)) = s[i + 2]
<1> DEFINE rest == SubSeq(s, i + 1, Len(s))
<1>1. Len(s) \in Nat
  OBVIOUS
<1>2. rest \in Seq(Steps) /\ Len(rest) = Len(s) - i /\ \A k \in 1..(Len(s) - i) : rest[k] = s[i + k]
  BY <1>1
<1> HIDE DEF rest
<1>3. Head(rest) = s[i + 1]
  BY <1>1, <1>2
<1>4. ASSUME i + 1 < Len(s)
      PROVE  Head(Tail(rest)) = s[i + 2]
  <2>1. Tail(rest) \in Seq(Steps) /\ Len(Tail(rest)) = Len(rest) - 1
        /\ \A k \in 1..(Len(rest) - 1) : Tail(rest)[k] = rest[k + 1]
    <3>1. rest # <<>>
      BY <1>1, <1>2, <1>4
    <3> QED
      BY <1>2, <3>1, HeadTailProperties
  <2>2. Head(Tail(rest)) = rest[2]
    BY <1>1, <1>2, <1>4, <2>1
  <2> QED
    BY <1>1, <1>2, <1>4, <2>2
<1> QED
  BY <1>3, <1>4 DEF rest

\* After the upload come the last GET and the post.
LEMMA AfterUpload ==
    ASSUME NEW page, form \in [kind : Kinds, create : BOOLEAN], form.kind \in Uploading
    PROVE  /\ StepFits(form, StepAfter(page, "upload"))
           /\ StepAfter(page, "upload") \in {"get", "post"}
<1> DEFINE s == Used.steps
           i == CHOOSE k \in DOMAIN s : s[k] = "upload"
           rest == SubSeq(s, i + 1, Len(s))
<1>1. StepAfter(page, "upload") = IF Head(rest) = "upload" /\ ~Uploads(page) THEN Head(Tail(rest)) ELSE Head(rest)
  BY DEF StepAfter, NextStep
<1>2. CASE s = <<"upload", "post">>
  <2>1. i = 1 /\ Len(s) = 2 /\ s \in Seq(Steps) /\ s[2] = "post"
    BY <1>2 DEF Steps
  <2> HIDE DEF s, i
  <2>2. Head(rest) = "post"
    BY <2>1, RestOfSteps
  <2> QED
    BY <1>1, <2>2 DEF StepFits, Steps
<1>3. CASE s = <<"old", "upload", "get", "post">> /\ form.kind = "mercator2015"
  <2>1. i = 2 /\ Len(s) = 4 /\ s \in Seq(Steps) /\ s[3] = "get"
    BY <1>3 DEF Steps
  <2> HIDE DEF s, i
  <2>2. Head(rest) = "get"
    BY <2>1, RestOfSteps
  <2> QED
    BY <1>1, <1>3, <2>2 DEF StepFits, Steps, Getting
<1>4. CASE s = <<"upload", "get", "post">> /\ form.kind \in Uploading \ {"document", "mercator2015"}
  <2>1. i = 1 /\ Len(s) = 3 /\ s \in Seq(Steps) /\ s[2] = "get"
    BY <1>4 DEF Steps
  <2> HIDE DEF s, i
  <2>2. Head(rest) = "get"
    BY <2>1, RestOfSteps
  <2> QED
    BY <1>1, <1>4, <2>2 DEF StepFits, Steps, Getting, Uploading
<1>5. \/ s = <<"upload", "post">>
      \/ s = <<"old", "upload", "get", "post">> /\ form.kind = "mercator2015"
      \/ s = <<"upload", "get", "post">> /\ form.kind \in Uploading \ {"document", "mercator2015"}
  <2>1. form.kind # "comment"
    BY DEF Uploading
  <2>2. s # <<"post">>
    BY DEF Used, DirectiveOf, DocumentCreate, DocumentEditor, Mercator2015Create, Mercator2015Detail,
           Mercator2016Create, Mercator2016Editor, ImageUpload, Directive, Uploading
  <2> QED
    BY <2>1, <2>2, StepsOf DEF Used
<1> QED
  BY <1>2, <1>3, <1>4, <1>5

\* Mercator 2015 has the old version before it uploads or reads.
LEMMA AfterOld ==
    ASSUME NEW page, form \in [kind : Kinds, create : BOOLEAN], form.kind = "mercator2015", ~form.create
    PROVE  /\ StepFits(form, StepAfter(page, "old"))
           /\ StepAfter(page, "old") \in {"upload", "get"}
<1> DEFINE s == Used.steps
           i == CHOOSE k \in DOMAIN s : s[k] = "old"
           rest == SubSeq(s, i + 1, Len(s))
<1>1. StepAfter(page, "old") = IF Head(rest) = "upload" /\ ~Uploads(page) THEN Head(Tail(rest)) ELSE Head(rest)
  BY DEF StepAfter, NextStep
<1>2. s = <<"old", "upload", "get", "post">>
  BY DEF Used, DirectiveOf, Mercator2015Detail, Directive
<1>3. i = 1 /\ Len(s) = 4 /\ s \in Seq(Steps) /\ s[2] = "upload" /\ s[3] = "get"
  BY <1>2 DEF Steps
<1> HIDE DEF s, i
<1>5. Head(rest) = "upload" /\ Head(Tail(rest)) = "get"
  BY <1>3, RestOfSteps
<1> QED
  BY <1>1, <1>5 DEF StepFits, Steps, Getting, Uploading

-------------------------------------------------------------------------------
FormFields == {"at", "base", "data", "paragraphs", "errors", "touched", "emptied", "changes", "submits"}
IsPage(p) ==
    /\ p = [k \in FormFields |-> p[k]]
    /\ p.at = "open" /\ p.errors \in BOOLEAN /\ p.submits \in Nat

JobFields == {"at", "base", "follows", "posted", "paragraphs", "left", "entered", "emptied", "live",
              "rounds", "ok"}
IsJob(r) ==
    /\ r = [k \in JobFields |-> r[k]]
    /\ r.ok \in BOOLEAN
    /\ r.at \in Steps \cup {"answer", "refused", "wait", "hangs"}

\* A job is at a step of its form, and only images are posted again.
AtItsStep(f, r) ==
    /\ r.at \in Steps => StepFits(f, r.at)
    /\ r.at = "wait" => f.kind = "image"
    /\ f.kind \notin WritesOver => r.follows = r.base

HasStored(c) == \E v \in DOMAIN versions : versions[v].by = c

SlotsOf(f) == 1..Submissions[f]
JobOk(f, r, open, stored) ==
    r # None => /\ IsJob(r) /\ AtItsStep(f, r)
                /\ r.ok => stored
                /\ r.left = None <=> open
                /\ r.left # None => IsPage(r.left)

\* A page is closed as saved when a version was stored; and an open one that was
\* submitted has a job under way, or shows an error, or stays after a success.
PageOk(f, p, js, stored) ==
    /\ p \in {Unopened, Closed, Saved} \/ IsPage(p)
    /\ p = Saved => stored
    /\ p = Unopened => \A j \in SlotsOf(f) : js[j] = None
    /\ p.at = "open" /\ p.submits > 0 /\ f.kind \notin WritesOver =>
          \/ p.errors
          \/ DirectiveOf(f.kind, f.create).stays /\ stored
          \/ \E j \in SlotsOf(f) : js[j] # None

ClientOk(f, p, js, stored) ==
    /\ PageOk(f, p, js, stored)
    /\ js = [j \in SlotsOf(f) |-> js[j]]
    /\ \A j \in SlotsOf(f) : JobOk(f, js[j], p.at = "open", stored)

FormOk == form \in [kind : Kinds, create : BOOLEAN]
VersionsOk ==
    /\ \E S : versions \in Seq(S)
    /\ Versioned /\ ~form.create /\ Kind \notin WritesOver =>
          \A v \in DOMAIN versions : v > 1 => versions[v].base = v - 1

ConflictInv ==
    /\ FormOk
    /\ VersionsOk
    /\ pages = [c \in Clients |-> pages[c]]
    /\ jobs = [c \in Clients |-> jobs[c]]
    /\ \A c \in Clients : ClientOk(form, pages[c], jobs[c], HasStored(c))

\* At the start nothing is open.
LEMMA ConflictStarts == EditingInit \/ EditingIdle => ConflictInv
<1> SUFFICES ASSUME EditingInit \/ EditingIdle
             PROVE  ConflictInv
  OBVIOUS
<1>1. FormOk
  <2>1. CASE EditingInit
    BY <2>1 DEF EditingInit, FormOk
  <2>2. CASE EditingIdle
    BY <2>2 DEF EditingIdle, Kinds, FormOk
  <2> QED
    BY <2>1, <2>2
<1>2. versions = <<>> \/ \E e : versions = <<e>>
  BY DEF EditingInit, EditingIdle
<1>3. \E S : versions \in Seq(S)
  <2>1. CASE versions = <<>>
    <3>1. versions \in Seq({})
      BY <2>1
    <3> QED
      BY <3>1
  <2>2. CASE \E e : versions = <<e>>
    <3>1. PICK e : versions = <<e>>
      BY <2>2
    <3>2. versions \in Seq({e})
      BY <3>1
    <3> QED
      BY <3>2
  <2> QED
    BY <1>2, <2>1, <2>2
<1>4. \A v \in DOMAIN versions : ~(v > 1)
  BY <1>2
<1>5. pages = [c \in Clients |-> pages[c]] /\ jobs = [c \in Clients |-> jobs[c]]
  BY DEF EditingInit, EditingIdle
<1>6. \A c \in Clients : /\ pages[c] \in {Unopened, Closed}
                         /\ jobs[c] = [j \in Slots |-> jobs[c][j]]
                         /\ \A j \in Slots : jobs[c][j] = None
  BY DEF EditingInit, EditingIdle
<1>7. \A c \in Clients : ClientOk(form, pages[c], jobs[c], HasStored(c))
  BY <1>6 DEF ClientOk, PageOk, JobOk, Slots, SlotsOf, Unopened, Closed, Saved
<1> QED
  BY <1>1, <1>3, <1>4, <1>5, <1>7 DEF ConflictInv, VersionsOk

\* Everybody who uses a form is a client.
LEMMA UsersAreClients == Users \subseteq Clients
BY BoundsAssumption DEF Users

\* What one client does, when no version is stored.
LEMMA StepKeeps ==
    ASSUME ConflictInv, UNCHANGED <<form, versions>>, NEW c \in Clients, NEW page, NEW js,
           pages' = [pages EXCEPT ![c] = page], jobs' = [jobs EXCEPT ![c] = js],
           ClientOk(form, page, js, HasStored(c))
    PROVE  ConflictInv'
<1>1. FormOk' /\ VersionsOk'
  BY DEF ConflictInv, FormOk, VersionsOk, Versioned, Kind
<1>2. pages' = [d \in Clients |-> pages'[d]] /\ jobs' = [d \in Clients |-> jobs'[d]]
  BY DEF ConflictInv
<1>3. ASSUME NEW d \in Clients
      PROVE  ClientOk(form, pages[d], jobs[d], HasStored(d))'
  <2>1. HasStored(d)' <=> HasStored(d)
    BY DEF HasStored
  <2>2. ClientOk(form, pages'[d], jobs'[d], HasStored(d))
    <3>1. CASE d = c
      BY <3>1 DEF ConflictInv
    <3>2. CASE d # c
      BY <3>2 DEF ConflictInv
    <3> QED
      BY <3>1, <3>2
  <2>3. form' = form
    OBVIOUS
  <2> QED
    BY <2>1, <2>2, <2>3 DEF ClientOk, PageOk, JobOk
<1> QED
  BY <1>1, <1>2, <1>3 DEF ConflictInv

\* The jobs are as they were.
LEMMA PageStepKeeps ==
    ASSUME ConflictInv, UNCHANGED <<form, versions, jobs>>, NEW c \in Clients, NEW page,
           pages' = [pages EXCEPT ![c] = page], pages[c] = Unopened \/ IsOpen(c),
           IsPage(page), page.submits = IF IsOpen(c) THEN pages[c].submits ELSE 0,
           IsOpen(c) => page.errors = pages[c].errors
    PROVE  ConflictInv'
<1>1. ClientOk(form, pages[c], jobs[c], HasStored(c))
  BY DEF ConflictInv
<1>2. page.at = "open" /\ page # Saved /\ page # Unopened
  BY DEF IsPage, Saved, Unopened
<1>3. PageOk(form, page, jobs[c], HasStored(c))
  BY <1>1, <1>2 DEF ClientOk, PageOk, IsOpen
<1>4. \A j \in SlotsOf(form) : JobOk(form, jobs[c][j], page.at = "open", HasStored(c))
  BY <1>1, <1>2 DEF ClientOk, PageOk, JobOk, IsOpen, SlotsOf
<1>5. ClientOk(form, page, jobs[c], HasStored(c))
  BY <1>1, <1>3, <1>4 DEF ClientOk
<1>6. jobs' = [jobs EXCEPT ![c] = jobs[c]]
  BY DEF ConflictInv
<1> HIDE DEF ConflictInv
<1> QED
  BY <1>5, <1>6, StepKeeps

\* A page with other contents is a page.
LEMMA PageWith ==
    ASSUME NEW p, IsPage(p), NEW x, NEW y
    PROVE  /\ LET q == [p EXCEPT !.paragraphs = x]
              IN  IsPage(q) /\ q.submits = p.submits /\ q.errors = p.errors
           /\ LET q == [p EXCEPT !.data = x, !.emptied = y]
              IN  IsPage(q) /\ q.submits = p.submits /\ q.errors = p.errors
<1>1. LET q == [p EXCEPT !.paragraphs = x]
      IN  IsPage(q) /\ q.submits = p.submits /\ q.errors = p.errors
  BY DEF IsPage, FormFields
<1>3. LET q == [p EXCEPT !.data = x, !.emptied = y]
      IN  IsPage(q) /\ q.submits = p.submits /\ q.errors = p.errors
  BY DEF IsPage, FormFields
<1> QED
  BY <1>1, <1>3

\* An open form is a page.
LEMMA OpenIsPage ==
    ASSUME ConflictInv, NEW c \in Clients, IsOpen(c)
    PROVE  IsPage(pages[c])
BY DEF ConflictInv, ClientOk, PageOk, IsOpen, Unopened, Closed, Saved

\* Opening a form.
LEMMA OpenKeeps ==
    ASSUME ConflictInv, NEW c \in Clients, Open(c)
    PROVE  ConflictInv'
<1>1. ASSUME NEW base, NEW data, NEW paragraphs,
             pages' = [pages EXCEPT ![c] = Page(base, data, paragraphs)]
      PROVE  ConflictInv'
  <2>1. IsPage(Page(base, data, paragraphs)) /\ Page(base, data, paragraphs).submits = 0
    BY DEF Page, IsPage, FormFields
  <2>2. ~IsOpen(c)
    BY DEF Open, IsOpen, Unopened
  <2> QED
    BY <1>1, <2>1, <2>2, PageStepKeeps DEF Open
<1>2. CASE form.create
  BY <1>1, <1>2 DEF Open
<1>3. CASE ~form.create
  <2>1. PICK v \in seen[c]..LAST : pages' = [pages EXCEPT ![c] =
                           Page(v, Read(Kind, versions[v].content), ShownParagraphs(Kind, versions[v].content))]
    BY <1>3 DEF Open
  <2> QED
    BY <1>1, <2>1
<1> QED
  BY <1>2, <1>3

\* The user changes something in the form.
LEMMA ChangedKeeps ==
    ASSUME ConflictInv, NEW c \in Clients, NEW page, NEW field, IsOpen(c),
           IsPage(page), page.submits = pages[c].submits, page.errors = pages[c].errors,
           Changed(c, page, field)
    PROVE  ConflictInv'
<1> DEFINE new == [page EXCEPT !.touched = @ \cup {field}, !.changes = @ + 1]
<1>1. IsPage(new) /\ new.submits = page.submits /\ new.errors = page.errors
  <2> DEFINE x == page.touched \cup {field}
             y == page.changes + 1
  <2>1. new = [page EXCEPT !.touched = x, !.changes = y]
    OBVIOUS
  <2> HIDE DEF new, x, y
  <2>2. LET q == [page EXCEPT !.touched = x, !.changes = y]
        IN  IsPage(q) /\ q.submits = page.submits /\ q.errors = page.errors
    BY DEF IsPage, FormFields
  <2> QED
    BY <2>1, <2>2
<1>2. pages' = [pages EXCEPT ![c] = new] /\ UNCHANGED <<form, versions, jobs>>
  BY DEF Changed
<1> HIDE DEF new
<1> QED
  BY <1>1, <1>2, PageStepKeeps

\* The user changes a field, adds a paragraph or changes one.
LEMMA ChangesKeep ==
    ASSUME ConflictInv, NEW c \in Clients, Touch(c) \/ AddParagraph(c) \/ ChangeParagraph(c)
    PROVE  ConflictInv'
<1>1. IsOpen(c)
  BY DEF Touch, AddParagraph, ChangeParagraph
<1>2. IsPage(pages[c])
  BY <1>1, OpenIsPage
<1>3. CASE Touch(c)
  <2>0. PICK f \in Touchable[Kind] : \E value \in Values(c, f) :
            Changed(c, [pages[c] EXCEPT !.data = [g \in {f} \cup DOMAIN @ |-> IF g = f THEN value ELSE @[g]]], f)
    BY <1>3 DEF Touch
  <2>1. PICK value \in Values(c, f) :
            Changed(c, [pages[c] EXCEPT !.data = [g \in {f} \cup DOMAIN @ |-> IF g = f THEN value ELSE @[g]]], f)
    BY <2>0
  <2> DEFINE page == [pages[c] EXCEPT !.data = [g \in {f} \cup DOMAIN @ |-> IF g = f THEN value ELSE @[g]]]
  <2>2. IsPage(page) /\ page.submits = pages[c].submits /\ page.errors = pages[c].errors
    BY <1>2 DEF IsPage, FormFields
  <2> HIDE DEF page
  <2>3. Changed(c, page, f)
    BY <2>1 DEF page
  <2> QED
    BY <1>1, <2>2, <2>3, ChangedKeeps
<1>4. CASE AddParagraph(c)
  <2> DEFINE page == [pages[c] EXCEPT !.paragraphs = Append(@, Untyped)]
  <2>1. Changed(c, page, TextAt(pages[c], Len(pages[c].paragraphs) + 1))
    BY <1>4 DEF AddParagraph
  <2>2. IsPage(page) /\ page.submits = pages[c].submits /\ page.errors = pages[c].errors
    BY <1>2 DEF IsPage, FormFields
  <2> HIDE DEF page
  <2> QED
    BY <1>1, <2>1, <2>2, ChangedKeeps
<1>5. CASE ChangeParagraph(c)
  <2>1. PICK i \in DOMAIN pages[c].paragraphs :
            \/ Changed(c, [pages[c] EXCEPT !.paragraphs[i].deleted = TRUE], TextAt(pages[c], i))
            \/ Changed(c, [pages[c] EXCEPT !.paragraphs[i].body = c], TextAt(pages[c], i))
    BY <1>5 DEF ChangeParagraph
  <2> DEFINE deleted == [pages[c] EXCEPT !.paragraphs[i].deleted = TRUE]
             typed == [pages[c] EXCEPT !.paragraphs[i].body = c]
  <2>2. IsPage(deleted) /\ deleted.submits = pages[c].submits /\ deleted.errors = pages[c].errors
    <3> DEFINE x == [pages[c].paragraphs EXCEPT ![i].deleted = TRUE]
    <3>1. deleted = [pages[c] EXCEPT !.paragraphs = x]
      OBVIOUS
    <3> HIDE DEF deleted, x
    <3> QED
      BY <1>2, <3>1, PageWith
  <2>3. IsPage(typed) /\ typed.submits = pages[c].submits /\ typed.errors = pages[c].errors
    BY <1>2 DEF IsPage, FormFields
  <2>4. Changed(c, deleted, TextAt(pages[c], i)) \/ Changed(c, typed, TextAt(pages[c], i))
    BY <2>1
  <2> HIDE DEF deleted, typed
  <2> QED
    BY <1>1, <2>2, <2>3, <2>4, ChangedKeeps
<1> QED
  BY <1>3, <1>4, <1>5

\* What was submitted goes on with the form as it was left.
LEMMA LeftIsOk ==
    ASSUME ConflictInv, NEW c \in Clients, IsOpen(c), NEW stored, HasStored(c) => stored
    PROVE  /\ DOMAIN jobs[c] = Slots
           /\ Left(c) = [j \in Slots |-> Left(c)[j]]
           /\ \A j \in Slots : /\ JobOk(form, Left(c)[j], FALSE, stored)
                               /\ Left(c)[j] = None => jobs[c][j] = None
<1>1. IsPage(pages[c])
  BY OpenIsPage
<1>2. jobs[c] = [j \in Slots |-> jobs[c][j]] /\ \A j \in Slots : JobOk(form, jobs[c][j], TRUE, HasStored(c))
  BY DEF ConflictInv, ClientOk, Slots, SlotsOf, IsOpen, JobOk
<1>3. DOMAIN jobs[c] = Slots
  BY <1>2
<1>4. ASSUME NEW j \in Slots
      PROVE  /\ JobOk(form, Left(c)[j], FALSE, stored)
             /\ Left(c)[j] = None => jobs[c][j] = None
  <2> DEFINE r == jobs[c][j]
  <2>1. Left(c)[j] = IF r = None \/ r.left # None THEN r ELSE [r EXCEPT !.left = pages[c]]
    BY <1>3 DEF Left
  <2>2. JobOk(form, r, TRUE, HasStored(c))
    BY <1>2
  <2>3. CASE r = None
    BY <2>1, <2>3 DEF JobOk
  <2>4. CASE r # None
    <3> DEFINE new == [r EXCEPT !.left = pages[c]]
    <3>1. IsJob(r) /\ AtItsStep(form, r) /\ (r.ok => stored) /\ r.left = None
      BY <2>2, <2>4 DEF JobOk
    <3>2. Left(c)[j] = new
      BY <2>1, <2>4, <3>1
    <3> HIDE DEF r
    <3>3. IsJob(new) /\ new.left = pages[c] /\ new.at = r.at /\ new.ok = r.ok
          /\ new.follows = r.follows /\ new.base = r.base
      BY <3>1 DEF IsJob, JobFields
    <3>4. AtItsStep(form, new)
      BY <3>1, <3>3 DEF AtItsStep
    <3>5. pages[c] # None
      BY <1>1 DEF IsPage, None
    <3>6. new # None
      BY <3>3 DEF IsJob, None, Steps
    <3> HIDE DEF new
    <3> QED
      BY <1>1, <3>1, <3>2, <3>3, <3>4, <3>5, <3>6 DEF JobOk
  <2> QED
    BY <2>3, <2>4
<1>5. Left(c) = [j \in Slots |-> Left(c)[j]]
  BY <1>3 DEF Left
<1> QED
  BY <1>3, <1>4, <1>5

\* The user leaves the form.
LEMMA CancelKeeps ==
    ASSUME ConflictInv, NEW c \in Clients, Cancel(c)
    PROVE  ConflictInv'
<1>1. IsOpen(c)
  BY DEF Cancel
<1>2. ASSUME NEW js, jobs' = [jobs EXCEPT ![c] = js], js = [j \in Slots |-> js[j]],
             \A j \in Slots : JobOk(form, js[j], FALSE, HasStored(c))
      PROVE  ConflictInv'
  <2>1. ClientOk(form, Closed, js, HasStored(c))
    BY <1>2 DEF ClientOk, PageOk, JobOk, Closed, Saved, Unopened, Slots, SlotsOf
  <2> QED
    BY <1>2, <2>1, StepKeeps DEF Cancel
<1>3. /\ DOMAIN jobs[c] = Slots
      /\ Left(c) = [j \in Slots |-> Left(c)[j]]
      /\ \A j \in Slots : JobOk(form, Left(c)[j], FALSE, HasStored(c))
  BY <1>1, LeftIsOk
<1>4. CASE jobs' = [jobs EXCEPT ![c] = Left(c)]
  BY <1>2, <1>3, <1>4
<1>5. CASE jobs' = [jobs EXCEPT ![c] = Dropped(c)]
  <2>1. Dropped(c) = [j \in Slots |-> Dropped(c)[j]]
    BY DEF Dropped
  <2>2. \A j \in Slots : JobOk(form, Dropped(c)[j], FALSE, HasStored(c))
    <3> TAKE j \in Slots
    <3>1. Dropped(c)[j] = None \/ Dropped(c)[j] = Left(c)[j]
      BY DEF Dropped
    <3> QED
      BY <1>3, <3>1 DEF JobOk
  <2> QED
    BY <1>2, <1>5, <2>1, <2>2
<1> QED
  BY <1>4, <1>5 DEF Cancel

\* A page is a page when it has been cleaned.
LEMMA CleanedIsPage ==
    ASSUME NEW p, IsPage(p)
    PROVE  IsPage(Cleaned(p)) /\ Cleaned(p).submits = p.submits /\ Cleaned(p).errors = p.errors
<1> DEFINE fields == IF Kind = "mercator2015"
                     THEN CleanOrganizationInfo(p.data) \cap DOMAIN p.data ELSE {}
           x == Fill(Kind, p.data)
           y == p.emptied \cup fields
<1>1. Cleaned(p) = [p EXCEPT !.data = x, !.emptied = y]
  BY DEF Cleaned
<1> HIDE DEF x, y
<1> QED
  BY <1>1 DEF IsPage, FormFields

\* Reading the form again changes what is posted only.
LEMMA ReadAgainIsJob ==
    ASSUME NEW page, NEW r, IsJob(r), NEW fields
    PROVE  LET new == ReadAgain(page, r, fields)
           IN  /\ IsJob(new)
               /\ new.left = r.left /\ new.ok = r.ok /\ new.at = r.at
               /\ new.follows = r.follows /\ new.base = r.base
<1> DEFINE read == DOMAIN page.data \cap fields
           kept == DOMAIN r.posted \ fields
           x == [f \in read \cup kept |-> IF f \in read THEN page.data[f] ELSE r.posted[f]]
           y == r.emptied \cup page.emptied
           z == r.live \cup page.touched \cup page.emptied
           new == [r EXCEPT !.posted = x, !.emptied = y, !.live = z]
<1>1. ReadAgain(page, r, fields) = new
  BY DEF ReadAgain
<1> HIDE DEF x, y, z
<1>2. /\ IsJob(new)
      /\ new.left = r.left /\ new.ok = r.ok /\ new.at = r.at
      /\ new.follows = r.follows /\ new.base = r.base
  BY DEF IsJob, JobFields
<1> HIDE DEF new
<1> QED
  BY <1>1, <1>2

\* A job at another step.
LEMMA JobAtStep ==
    ASSUME NEW r, IsJob(r), NEW step, step \in Steps \cup {"answer", "refused", "wait", "hangs"}
    PROVE  LET new == [r EXCEPT !.at = step]
           IN  /\ IsJob(new) /\ new.at = step
               /\ new.left = r.left /\ new.ok = r.ok
               /\ new.follows = r.follows /\ new.base = r.base
BY DEF IsJob, JobFields

\* A job goes on when what it may not change stays.
LEMMA JobGoesOnOk ==
    ASSUME NEW r, NEW open, NEW stored, JobOk(form, r, open, stored), r # None,
           NEW new, IsJob(new), new.left = r.left, new.ok = r.ok,
           new.follows = r.follows, new.base = r.base,
           new.at \in Steps => StepFits(form, new.at),
           new.at = "wait" => Kind = "image"
    PROVE  JobOk(form, new, open, stored) /\ new # None
<1>1. new # None
  BY DEF IsJob, None, Steps
<1> QED
  BY <1>1 DEF JobOk, AtItsStep, Kind

\* Some jobs of a client become one.
LEMMA BecomeKeeps ==
    ASSUME ConflictInv, NEW c \in Clients, NEW js, NEW job, Become(c, js, job),
           NEW page, pages' = [pages EXCEPT ![c] = page],
           \/ page = pages[c]
           \/ /\ IsOpen(c) /\ IsPage(page)
              /\ page.submits = pages[c].submits /\ page.errors = pages[c].errors,
           \E j \in Slots : jobs[c][j] # None,
           job # None, JobOk(form, job, IsOpen(c), HasStored(c))
    PROVE  ConflictInv'
<1> DEFINE new == [i \in Slots |-> IF i \in js THEN job ELSE jobs[c][i]]
<1>1. jobs' = [jobs EXCEPT ![c] = new] /\ UNCHANGED <<form, versions>>
  BY DEF Become, ConflictInv
<1>2. ClientOk(form, pages[c], jobs[c], HasStored(c))
  BY DEF ConflictInv
<1>3. \A j \in Slots : new[j] = None => jobs[c][j] = None
  OBVIOUS
<1>4. \A j \in Slots : new[j] = job \/ new[j] = jobs[c][j]
  OBVIOUS
<1>5. new = [j \in Slots |-> new[j]]
  OBVIOUS
<1> HIDE DEF new
<1>6. pages[c] # Unopened
  BY <1>2 DEF ClientOk, PageOk, Slots, SlotsOf
<1>7. (page.at = "open") = IsOpen(c)
  BY DEF IsPage, IsOpen
<1>8. PageOk(form, page, new, HasStored(c))
  <2>1. CASE page = pages[c]
    BY <1>2, <1>3, <1>6, <2>1 DEF ClientOk, PageOk, Slots, SlotsOf
  <2>2. CASE IsOpen(c) /\ IsPage(page) /\ page.submits = pages[c].submits /\ page.errors = pages[c].errors
    <3>1. page.at = "open" /\ page # Saved /\ page # Unopened /\ pages[c].at = "open"
      BY <2>2 DEF IsPage, Saved, Unopened, IsOpen
    <3> QED
      BY <1>2, <1>3, <2>2, <3>1 DEF ClientOk, PageOk, Slots, SlotsOf
  <2> QED
    BY <2>1, <2>2
<1>9. \A j \in SlotsOf(form) : JobOk(form, new[j], page.at = "open", HasStored(c))
  BY <1>2, <1>4, <1>7 DEF ClientOk, IsOpen, Slots, SlotsOf, JobOk
<1>10. ClientOk(form, page, new, HasStored(c))
  BY <1>5, <1>8, <1>9 DEF ClientOk, Slots, SlotsOf
<1> HIDE DEF ConflictInv
<1> QED
  BY <1>1, <1>10, StepKeeps

\* A job that was one before goes on, for itself or for others.
GoesOnAs(c, j, new) ==
    LET r == jobs[c][j]
    IN  /\ IsJob(new)
        /\ new.left = r.left /\ new.ok = r.ok /\ new.follows = r.follows /\ new.base = r.base
        /\ new.at \in Steps => StepFits(form, new.at)
        /\ new.at = "wait" => Kind = "image"

\* What the invariant says of one job.
LEMMA JobIs ==
    ASSUME ConflictInv, NEW c \in Clients, NEW j \in Slots, jobs[c][j] # None
    PROVE  /\ JobOk(form, jobs[c][j], IsOpen(c), HasStored(c))
           /\ IsJob(jobs[c][j]) /\ AtItsStep(form, jobs[c][j])
           /\ jobs[c][j].left = None <=> IsOpen(c)
           /\ jobs[c][j].left # None => IsPage(jobs[c][j].left)
           /\ jobs[c][j].ok => HasStored(c)
BY DEF ConflictInv, ClientOk, JobOk, Slots, SlotsOf, IsOpen

\* A job at a step is there.
LEMMA NotNone ==
    ASSUME NEW c \in Clients, NEW j \in Slots, NEW step, At(c, j, step), step # "none"
    PROVE  jobs[c][j] # None
BY DEF At, None

\* Jobs go on and the page is as it was.
LEMMA BecomesKeeps ==
    ASSUME ConflictInv, NEW c \in Clients, NEW j \in Slots, jobs[c][j] # None, NEW js, NEW new,
           GoesOnAs(c, j, new), Become(c, js, new), UNCHANGED pages
    PROVE  ConflictInv'
<1>1. JobOk(form, new, IsOpen(c), HasStored(c)) /\ new # None
  <2>1. JobOk(form, jobs[c][j], IsOpen(c), HasStored(c))
    BY JobIs
  <2> DEFINE r == jobs[c][j]
  <2>2. /\ IsJob(new)
        /\ new.left = r.left /\ new.ok = r.ok /\ new.follows = r.follows /\ new.base = r.base
        /\ new.at \in Steps => StepFits(form, new.at)
        /\ new.at = "wait" => Kind = "image"
    BY DEF GoesOnAs
  <2>3. r # None /\ JobOk(form, r, IsOpen(c), HasStored(c))
    BY <2>1
  <2> HIDE DEF r
  <2>4. new # None
    BY <2>2 DEF IsJob, None, Steps
  <2> QED
    BY <2>2, <2>3, <2>4 DEF JobOk, AtItsStep, Kind
<1>2. pages' = [pages EXCEPT ![c] = pages[c]]
  BY DEF ConflictInv
<1> QED
  BY <1>1, <1>2, BecomeKeeps

\* Jobs go on and the page is cleaned.
LEMMA CleansKeeps ==
    ASSUME ConflictInv, NEW c \in Clients, NEW j \in Slots, jobs[c][j] # None, NEW js, NEW new,
           GoesOnAs(c, j, new), Cleans(c, js, new)
    PROVE  ConflictInv'
<1> DEFINE r == jobs[c][j]
<1>1. /\ JobOk(form, r, IsOpen(c), HasStored(c)) /\ r # None
      /\ r.left = None <=> IsOpen(c)
      /\ r.left # None => IsPage(r.left)
  BY JobIs
<1>2. /\ IsJob(new)
      /\ new.left = r.left /\ new.ok = r.ok /\ new.follows = r.follows /\ new.base = r.base
      /\ new.at \in Steps => StepFits(form, new.at)
      /\ new.at = "wait" => Kind = "image"
  BY DEF GoesOnAs
<1> HIDE DEF r
<1>3. CASE new.left = None
  <2>1. Become(c, js, new) /\ pages' = [pages EXCEPT ![c] = Cleaned(pages[c])]
    BY <1>3 DEF Cleans
  <2>2. IsOpen(c)
    BY <1>1, <1>2, <1>3
  <2>3. IsPage(Cleaned(pages[c])) /\ Cleaned(pages[c]).submits = pages[c].submits
        /\ Cleaned(pages[c]).errors = pages[c].errors
    BY <2>2, OpenIsPage, CleanedIsPage
  <2>4. JobOk(form, new, IsOpen(c), HasStored(c)) /\ new # None
    BY <1>1, <1>2, JobGoesOnOk
  <2>5. \E i \in Slots : jobs[c][i] # None
    BY <1>1 DEF r
  <2> QED
    BY <2>1, <2>2, <2>3, <2>4, <2>5, BecomeKeeps
<1>4. CASE new.left # None
  <2> DEFINE x == Cleaned(new.left)
             last == [new EXCEPT !.left = x]
  <2>1. Become(c, js, last) /\ UNCHANGED pages
    BY <1>4 DEF Cleans
  <2>2. IsPage(x)
    BY <1>1, <1>2, <1>4, CleanedIsPage
  <2>3. x # None
    BY <2>2 DEF IsPage, None
  <2> HIDE DEF x
  <2>4. /\ IsJob(last) /\ last.left = x /\ last.at = new.at /\ last.ok = new.ok
        /\ last.follows = new.follows /\ last.base = new.base
    BY <1>2 DEF IsJob, JobFields
  <2> HIDE DEF last
  <2>5. last # None
    BY <2>4 DEF IsJob, None, Steps
  <2>6. JobOk(form, last, IsOpen(c), HasStored(c))
    BY <1>1, <1>2, <1>4, <2>2, <2>3, <2>4 DEF JobOk, AtItsStep, Kind
  <2>7. pages' = [pages EXCEPT ![c] = pages[c]]
    BY <2>1 DEF ConflictInv
  <2>8. \E i \in Slots : jobs[c][i] # None
    BY <1>1 DEF r
  <2> QED
    BY <2>1, <2>5, <2>6, <2>7, <2>8, BecomeKeeps
<1> QED
  BY <1>3, <1>4

\* The job at another step, with the form read again or not.
LEMMA GoesOnAtStep ==
    ASSUME ConflictInv, NEW c \in Clients, NEW j \in Slots, jobs[c][j] # None,
           NEW step, step \in Steps \cup {"answer", "refused", "wait", "hangs"},
           step \in Steps => StepFits(form, step), step = "wait" => Kind = "image",
           NEW page, NEW fields
    PROVE  /\ GoesOnAs(c, j, [jobs[c][j] EXCEPT !.at = step])
           /\ GoesOnAs(c, j, [ReadAgain(page, jobs[c][j], fields) EXCEPT !.at = step])
<1> DEFINE r == jobs[c][j]
           read == ReadAgain(page, r, fields)
           one == [r EXCEPT !.at = step]
           two == [read EXCEPT !.at = step]
<1>1. IsJob(r)
  BY JobIs
<1> HIDE DEF r
<1>2. /\ IsJob(read) /\ read.left = r.left /\ read.ok = r.ok /\ read.at = r.at
      /\ read.follows = r.follows /\ read.base = r.base
  BY <1>1, ReadAgainIsJob
<1> HIDE DEF read
<1>3. IsJob(one) /\ one.at = step /\ one.left = r.left /\ one.ok = r.ok /\ one.follows = r.follows /\ one.base = r.base
  BY <1>1, JobAtStep
<1>4. IsJob(two) /\ two.at = step /\ two.left = read.left /\ two.ok = read.ok /\ two.follows = read.follows /\ two.base = read.base
  BY <1>2, JobAtStep
<1> HIDE DEF one, two
<1>5. GoesOnAs(c, j, one)
  BY <1>3 DEF GoesOnAs, r
<1>6. GoesOnAs(c, j, two)
  BY <1>2, <1>4 DEF GoesOnAs, r
<1> QED
  BY <1>5, <1>6 DEF one, two, read, r

\* The old version is there.
LEMMA GotOldKeeps ==
    ASSUME ConflictInv, NEW c \in Clients, NEW j \in Slots, GotOld(c, j)
    PROVE  ConflictInv'
<1> DEFINE page == Scope(c, jobs[c][j])
           step == StepAfter(page, "old")
<1>1. jobs[c][j] # None /\ jobs[c][j].at = "old"
  BY NotNone DEF GotOld, At
<1>2. Kind = "mercator2015" /\ ~form.create /\ FormOk
  <2>1. AtItsStep(form, jobs[c][j])
    BY <1>1, JobIs
  <2> QED
    BY <1>1, <2>1 DEF ConflictInv, AtItsStep, StepFits, Steps, Kind
<1>3. StepFits(form, step) /\ step \in {"upload", "get"}
  BY <1>2, AfterOld DEF FormOk, Kind
<1> HIDE DEF page, step
<1>4. /\ GoesOnAs(c, j, [jobs[c][j] EXCEPT !.at = step])
      /\ GoesOnAs(c, j, [ReadAgain(page, jobs[c][j], MainOnly) EXCEPT !.at = step])
  BY <1>1, <1>3, GoesOnAtStep DEF Steps
<1>5. CASE step = "upload"
  <2>1. Become(c, {j}, [jobs[c][j] EXCEPT !.at = step]) /\ UNCHANGED pages
    BY <1>5 DEF GotOld, Step, page, step
  <2> QED
    BY <1>1, <1>4, <2>1, BecomesKeeps
<1>6. CASE step = "get"
  <2>1. Cleans(c, {j}, [ReadAgain(page, jobs[c][j], MainOnly) EXCEPT !.at = step])
    BY <1>6 DEF GotOld, page, step
  <2> QED
    BY <1>1, <1>4, <2>1, CleansKeeps
<1> QED
  BY <1>3, <1>5, <1>6

\* The image is uploaded.
LEMMA UploadedKeeps ==
    ASSUME ConflictInv, NEW c \in Clients, NEW j \in Slots, Uploaded(c, j)
    PROVE  ConflictInv'
<1> DEFINE job == jobs[c][j]
           page == Scope(c, job)
           step == StepAfter(page, "upload")
           again == CASE Kind \in {"document", "image"} -> job
                      [] Kind = "mercator2015" /\ ~ form.create -> ReadAgain(page, job, MainOnly)
                      [] OTHER -> ReadAgain(Cleaned(page), job, Fields(Kind))
           js == IF step = "post" THEN Shared(c, j) ELSE {j}
<1>1. jobs[c][j] # None /\ jobs[c][j].at = "upload"
  BY NotNone DEF Uploaded, At
<1>2. Cleans(c, js, [again EXCEPT !.at = step])
  BY DEF Uploaded
<1>3. Kind \in Uploading /\ FormOk
  <2>1. AtItsStep(form, jobs[c][j])
    BY <1>1, JobIs
  <2> QED
    BY <1>1, <2>1 DEF ConflictInv, AtItsStep, StepFits, Steps, Kind
<1>4. StepFits(form, step) /\ step \in {"get", "post"}
  BY <1>3, AfterUpload DEF FormOk, Kind
<1>5. \/ again = job \/ again = ReadAgain(page, job, MainOnly)
      \/ again = ReadAgain(Cleaned(page), job, Fields(Kind))
  OBVIOUS
<1> HIDE DEF page, step, again, js
<1>6. GoesOnAs(c, j, [again EXCEPT !.at = step])
  <2>1. /\ GoesOnAs(c, j, [jobs[c][j] EXCEPT !.at = step])
        /\ GoesOnAs(c, j, [ReadAgain(page, jobs[c][j], MainOnly) EXCEPT !.at = step])
        /\ GoesOnAs(c, j, [ReadAgain(Cleaned(page), jobs[c][j], Fields(Kind)) EXCEPT !.at = step])
    BY <1>1, <1>4, GoesOnAtStep DEF Steps
  <2> QED
    BY <1>5, <2>1
<1> QED
  BY <1>1, <1>2, <1>6, CleansKeeps

\* The last GET is answered.
LEMMA GotKeeps ==
    ASSUME ConflictInv, NEW c \in Clients, NEW j \in Slots, Got(c, j)
    PROVE  ConflictInv'
<1> DEFINE job == jobs[c][j]
           page == Scope(c, job)
<1>1. jobs[c][j] # None /\ jobs[c][j].at = "get"
  BY NotNone DEF Got, At
<1>2. Kind \in Getting
  <2>1. AtItsStep(form, jobs[c][j])
    BY <1>1, JobIs
  <2> QED
    BY <1>1, <2>1 DEF AtItsStep, StepFits, Steps, Kind
<1>3. StepFits(form, "post")
  BY DEF StepFits, Steps
<1>4. /\ GoesOnAs(c, j, [jobs[c][j] EXCEPT !.at = "post"])
      /\ GoesOnAs(c, j, [ReadAgain(page, jobs[c][j], Fields(Kind) \ MainOnly) EXCEPT !.at = "post"])
      /\ GoesOnAs(c, j, [ReadAgain(page, jobs[c][j], Fields(Kind)) EXCEPT !.at = "post"])
  BY <1>1, <1>3, GoesOnAtStep DEF Steps
<1>5. CASE Kind = "mercator2015"
  <2>1. Become(c, Shared(c, j), [ReadAgain(page, job, Fields(Kind) \ MainOnly) EXCEPT !.at = "post"])
        /\ UNCHANGED pages
    BY <1>5 DEF Got, Provides
  <2> HIDE DEF page
  <2> QED
    BY <1>1, <1>4, <2>1, BecomesKeeps
<1>6. CASE Kind = "mercator2016"
  <2>1. Become(c, {j}, [ReadAgain(page, job, Fields(Kind)) EXCEPT !.at = "post"]) /\ UNCHANGED pages
    BY <1>6 DEF Got, Step
  <2> HIDE DEF page
  <2> QED
    BY <1>1, <1>4, <2>1, BecomesKeeps
<1>7. CASE Kind = "image"
  <2>1. Become(c, {j}, [job EXCEPT !.at = "post"]) /\ UNCHANGED pages
    BY <1>7 DEF Got, Step
  <2> QED
    BY <1>1, <1>4, <2>1, BecomesKeeps
<1>8. CASE Kind = "comment"
  <2>1. PICK v \in seen[c]..LAST :
            Step(c, j, [ReadAgain(page, job, Fields(Kind)) EXCEPT !.at = "post", !.follows = v])
    BY <1>8 DEF Got
  <2> DEFINE read == ReadAgain(page, job, Fields(Kind))
             new == [read EXCEPT !.at = "post", !.follows = v]
  <2>2. Become(c, {j}, new) /\ UNCHANGED pages
    BY <2>1 DEF Step
  <2>3. JobOk(form, job, IsOpen(c), HasStored(c)) /\ IsJob(job)
    BY <1>1, JobIs
  <2>4. /\ IsJob(read) /\ read.left = job.left /\ read.ok = job.ok
    BY <2>3, ReadAgainIsJob
  <2> HIDE DEF read
  <2>5. IsJob(new) /\ new.at = "post" /\ new.left = read.left /\ new.ok = read.ok
    BY <2>4 DEF IsJob, JobFields, Steps
  <2> HIDE DEF new
  <2>6. new # None
    BY <2>5 DEF None
  <2>7. JobOk(form, new, IsOpen(c), HasStored(c))
    BY <1>1, <1>3, <1>8, <2>3, <2>4, <2>5 DEF JobOk, AtItsStep, WritesOver, Kind
  <2>8. pages' = [pages EXCEPT ![c] = pages[c]]
    BY <2>2 DEF ConflictInv
  <2> QED
    BY <1>1, <2>2, <2>6, <2>7, <2>8, BecomeKeeps
<1> QED
  BY <1>2, <1>5, <1>6, <1>7, <1>8 DEF Getting

\* Failures and retries.
LEMMA FailuresKeep ==
    ASSUME ConflictInv, NEW c \in Clients, NEW j \in Slots, JobFails(c, j)
    PROVE  ConflictInv'
<1>1. ASSUME NEW step, step \in {"hangs", "refused"}, NEW js, jobs[c][j] # None,
             Become(c, js, [jobs[c][j] EXCEPT !.at = step]), UNCHANGED pages
      PROVE  ConflictInv'
  <2>1. GoesOnAs(c, j, [jobs[c][j] EXCEPT !.at = step])
    BY <1>1, GoesOnAtStep DEF Steps
  <2> QED
    BY <1>1, <2>1, BecomesKeeps
<1>2. jobs[c][j] # None
  BY NotNone DEF JobFails, Hangs, Fails, ServerRefuses, AnswerIsLost
<1> HIDE DEF ConflictInv
<1>3. CASE Hangs(c, j)
  BY <1>1, <1>2, <1>3 DEF Hangs, Step
<1>4. CASE Fails(c, j)
  BY <1>1, <1>2, <1>4 DEF Fails, Provides
<1>5. CASE ServerRefuses(c, j)
  BY <1>1, <1>2, <1>5 DEF ServerRefuses, Step
<1>6. CASE AnswerIsLost(c, j)
  BY <1>1, <1>2, <1>6 DEF AnswerIsLost, Step
<1> QED
  BY <1>3, <1>4, <1>5, <1>6 DEF JobFails

\* An image is posted again.
LEMMA RetryKeeps ==
    ASSUME ConflictInv, NEW c \in Clients, NEW j \in Slots, Retry(c, j)
    PROVE  ConflictInv'
<1> DEFINE job == jobs[c][j]
<1>1. jobs[c][j] # None /\ jobs[c][j].at = "wait"
  BY NotNone DEF Retry, At
<1>2. JobOk(form, job, IsOpen(c), HasStored(c)) /\ IsJob(job) /\ Kind = "image"
  BY <1>1, JobIs DEF AtItsStep, Kind
<1>3. PICK v \in seen[c]..LAST : Step(c, j, [job EXCEPT !.at = "post", !.follows = v, !.rounds = @ - 1])
  BY DEF Retry
<1> DEFINE left == job.rounds - 1
           new == [job EXCEPT !.at = "post", !.follows = v, !.rounds = left]
<1>4. Become(c, {j}, new) /\ UNCHANGED pages
  BY <1>3 DEF Step
<1> HIDE DEF left
<1>5. IsJob(new) /\ new.at = "post" /\ new.left = job.left /\ new.ok = job.ok
  BY <1>2 DEF IsJob, JobFields, Steps
<1> HIDE DEF new
<1>6. new # None
  BY <1>5 DEF None
<1>7. JobOk(form, new, IsOpen(c), HasStored(c))
  BY <1>1, <1>2, <1>5 DEF JobOk, AtItsStep, WritesOver, Kind, StepFits, Steps
<1>8. pages' = [pages EXCEPT ![c] = pages[c]]
  BY <1>4 DEF ConflictInv
<1> QED
  BY <1>1, <1>4, <1>6, <1>7, <1>8, BecomeKeeps

\* A click makes a job that follows what the form was loaded with.
LEMMA NewJobOk ==
    ASSUME FormOk, NEW page, IsPage(page), NEW stored
    PROVE  Job(page) # None /\ JobOk(form, Job(page), TRUE, stored)
<1> DEFINE step == FirstStep(page)
           posted == Filled(page)
           live == page.touched \cup page.emptied
           job == [at |-> step, base |-> page.base, follows |-> page.base,
                   posted |-> posted, paragraphs |-> page.paragraphs, left |-> None,
                   entered |-> page.touched, emptied |-> page.emptied,
                   live |-> live, rounds |-> Rounds, ok |-> FALSE]
<1>1. Job(page) = job
  BY DEF Job
<1>2. StepFits(form, step)
  BY FirstStepFits DEF FormOk
<1>3. step \in Steps
  BY <1>2 DEF StepFits
<1> HIDE DEF step, posted, live
<1>4. /\ IsJob(job) /\ job.left = None /\ job.ok = FALSE /\ job.at = step
      /\ job.follows = page.base /\ job.base = page.base
  BY <1>3 DEF IsJob, JobFields, Steps
<1> HIDE DEF job
<1>5. AtItsStep(form, job)
  BY <1>2, <1>3, <1>4 DEF AtItsStep, Steps
<1>6. job # None
  BY <1>3, <1>4 DEF Steps, None
<1> QED
  BY <1>1, <1>4, <1>5, <1>6 DEF JobOk

\* A click submits the form.
LEMMA SubmitKeeps ==
    ASSUME ConflictInv, NEW c \in Clients, Submit(c)
    PROVE  ConflictInv'
<1> DEFINE old == pages[c]
           cleaned == IF FirstStep(old) = "post" THEN Cleaned(old) ELSE old
           page == [cleaned EXCEPT !.submits = @ + 1]
           job == Job(old)
<1>1. IsOpen(c) /\ IsPage(old) /\ UNCHANGED <<form, versions>>
  BY OpenIsPage DEF Submit
<1>2. pages' = [pages EXCEPT ![c] = page]
  BY DEF Submit
<1>3. PICK j \in DOMAIN jobs[c] : jobs' = [jobs EXCEPT ![c][j] = job]
  BY DEF Submit
<1>4. ClientOk(form, old, jobs[c], HasStored(c)) /\ FormOk
  BY DEF ConflictInv
<1>5. job # None /\ JobOk(form, job, TRUE, HasStored(c))
  BY <1>1, <1>4, NewJobOk
<1> DEFINE js == [jobs[c] EXCEPT ![j] = job]
<1>6. jobs' = [jobs EXCEPT ![c] = js]
  BY <1>3
<1>7. jobs[c] = [i \in SlotsOf(form) |-> jobs[c][i]] /\ j \in SlotsOf(form)
  <2>1. jobs[c] = [i \in SlotsOf(form) |-> jobs[c][i]]
    BY <1>4 DEF ClientOk
  <2> QED
    BY <1>3, <2>1
<1> HIDE DEF job
<1>8. /\ js = [i \in SlotsOf(form) |-> js[i]] /\ js[j] = job
      /\ \A i \in SlotsOf(form) : i # j => js[i] = jobs[c][i]
  BY <1>7
<1> HIDE DEF js
<1>9. IsPage(cleaned)
  BY <1>1, CleanedIsPage
<1> HIDE DEF cleaned
<1>10. IsPage(page)
  <2> DEFINE n == cleaned.submits + 1
  <2>1. page = [cleaned EXCEPT !.submits = n] /\ n \in Nat
    BY <1>9 DEF IsPage
  <2> HIDE DEF n, page
  <2> QED
    BY <1>9, <2>1 DEF IsPage, FormFields
<1> HIDE DEF page
<1>11. page.at = "open" /\ page # Saved /\ page # Unopened
  BY <1>10 DEF IsPage, Saved, Unopened
<1>12. PageOk(form, page, js, HasStored(c))
  BY <1>5, <1>7, <1>8, <1>10, <1>11 DEF PageOk
<1>13. \A i \in SlotsOf(form) : JobOk(form, js[i], page.at = "open", HasStored(c))
  BY <1>1, <1>4, <1>5, <1>8, <1>11 DEF ClientOk, IsOpen, JobOk
<1>14. ClientOk(form, page, js, HasStored(c))
  BY <1>8, <1>12, <1>13 DEF ClientOk
<1> QED
  BY <1>1, <1>2, <1>6, <1>14, StepKeeps

\* The client's job j is over.
LEMMA OverIs ==
    ASSUME ConflictInv, NEW c \in Clients, NEW j \in Slots
    PROVE  LET js == [jobs[c] EXCEPT ![j] = None]
           IN  /\ js = [i \in SlotsOf(form) |-> js[i]] /\ js[j] = None
               /\ \A i \in SlotsOf(form) : i # j => js[i] = jobs[c][i]
               /\ \A i \in SlotsOf(form) : JobOk(form, js[i], IsOpen(c), HasStored(c))
<1>1. ClientOk(form, pages[c], jobs[c], HasStored(c))
  BY DEF ConflictInv
<1> DEFINE js == [jobs[c] EXCEPT ![j] = None]
<1>2. /\ js = [i \in SlotsOf(form) |-> js[i]] /\ js[j] = None
      /\ \A i \in SlotsOf(form) : i # j => js[i] = jobs[c][i]
  BY <1>1 DEF ClientOk, Slots, SlotsOf
<1> HIDE DEF js
<1>3. \A i \in SlotsOf(form) : JobOk(form, js[i], IsOpen(c), HasStored(c))
  BY <1>1, <1>2 DEF ClientOk, JobOk, IsOpen
<1> QED
  BY <1>2, <1>3 DEF js

\* The form may still be used, and is told of it if it has to be.
LEMMA OverKeeps ==
    ASSUME ConflictInv, NEW c \in Clients, NEW j \in Slots, jobs[c][j] # None,
           jobs' = Over(c, j), UNCHANGED <<form, versions>>,
           NEW page, pages' = [pages EXCEPT ![c] = page],
           \/ page = pages[c]
           \/ IsOpen(c) /\ IsPage(page) /\ page.errors,
           page = pages[c] /\ IsOpen(c) /\ Kind \notin WritesOver => Used.stays /\ HasStored(c)
    PROVE  ConflictInv'
<1> DEFINE js == [jobs[c] EXCEPT ![j] = None]
<1>1. /\ js = [i \in SlotsOf(form) |-> js[i]] /\ js[j] = None
      /\ \A i \in SlotsOf(form) : i # j => js[i] = jobs[c][i]
      /\ \A i \in SlotsOf(form) : JobOk(form, js[i], IsOpen(c), HasStored(c))
  BY OverIs
<1>2. jobs' = [jobs EXCEPT ![c] = js]
  BY DEF Over
<1>3. ClientOk(form, pages[c], jobs[c], HasStored(c))
  BY DEF ConflictInv
<1> HIDE DEF js
<1>4. (page.at = "open") = IsOpen(c)
  BY DEF IsPage, IsOpen
<1>5. PageOk(form, page, js, HasStored(c))
  <2>1. CASE page = pages[c]
    BY <1>1, <1>3, <2>1 DEF ClientOk, PageOk, IsOpen, Kind, Used
  <2>2. CASE IsOpen(c) /\ IsPage(page) /\ page.errors
    BY <2>2 DEF PageOk, IsPage, Saved, Unopened
  <2> QED
    BY <2>1, <2>2
<1>6. \A i \in SlotsOf(form) : JobOk(form, js[i], page.at = "open", HasStored(c))
  BY <1>1, <1>4 DEF JobOk
<1>7. ClientOk(form, page, js, HasStored(c))
  BY <1>1, <1>5, <1>6 DEF ClientOk
<1> HIDE DEF ConflictInv
<1> QED
  BY <1>2, <1>7, StepKeeps

\* A success leaves the form.
LEMMA SucceedsKeeps ==
    ASSUME ConflictInv, NEW c \in Clients, NEW j \in Slots, Succeeds(c, j)
    PROVE  ConflictInv'
<1>1. jobs[c][j] # None /\ jobs[c][j].ok /\ UNCHANGED <<form, versions>>
  BY NotNone DEF Succeeds
<1>2. HasStored(c) /\ (jobs[c][j].left = None <=> IsOpen(c))
  BY <1>1, JobIs
<1>3. CASE jobs[c][j].left = None /\ Leaves(c, j)
  <2> DEFINE js == [Left(c) EXCEPT ![j] = None]
  <2>1. jobs' = [jobs EXCEPT ![c] = js] /\ pages' = [pages EXCEPT ![c] = Saved]
    BY <1>3 DEF Leaves
  <2>2. /\ Left(c) = [i \in Slots |-> Left(c)[i]]
        /\ \A i \in Slots : JobOk(form, Left(c)[i], FALSE, HasStored(c))
    BY <1>2, <1>3, LeftIsOk
  <2>3. js = [i \in Slots |-> js[i]] /\ js[j] = None /\ \A i \in Slots : i # j => js[i] = Left(c)[i]
    BY <2>2
  <2> HIDE DEF js
  <2>4. \A i \in Slots : JobOk(form, js[i], FALSE, HasStored(c))
    BY <2>2, <2>3 DEF JobOk
  <2>5. ClientOk(form, Saved, js, HasStored(c))
    BY <1>2, <2>3, <2>4 DEF ClientOk, PageOk, Saved, Unopened, Closed, Slots, SlotsOf, JobOk
  <2> QED
    BY <1>1, <2>1, <2>5, StepKeeps
<1>4. CASE (jobs[c][j].left # None \/ Used.stays) /\ jobs' = Over(c, j) /\ UNCHANGED pages
  <2>1. pages' = [pages EXCEPT ![c] = pages[c]]
    BY <1>4 DEF ConflictInv
  <2> QED
    BY <1>1, <1>2, <1>4, <2>1, OverKeeps
<1> QED
  BY <1>3, <1>4 DEF Succeeds

\* Comments and images are the only forms that show no error.
LEMMA Handling ==
    ASSUME FormOk, Kind \notin WritesOver
    PROVE  Used.handles
BY DEF FormOk, Kind, Kinds, WritesOver, Used, DirectiveOf, S1Create, S1Edit, BplanCreate, DocumentCreate,
       DocumentEditor, BlogCreate, BlogPost, Mercator2015Create, Mercator2015Detail,
       Mercator2016Create, Mercator2016Editor, IdeaCreate, IdeaEdit, Directive

\* An error is shown in the form.
LEMMA ShowsErrorsKeeps ==
    ASSUME ConflictInv, NEW c \in Clients, NEW j \in Slots, jobs[c][j] # None, ShowsErrors(c, j)
    PROVE  ConflictInv'
<1>1. jobs' = Over(c, j) /\ UNCHANGED <<form, versions>>
  BY DEF ShowsErrors
<1>2. jobs[c][j].left = None <=> IsOpen(c)
  BY JobIs
<1>3. CASE jobs[c][j].left = None /\ Used.handles
  <2> DEFINE page == [pages[c] EXCEPT !.errors = TRUE]
  <2>1. pages' = [pages EXCEPT ![c] = page]
    BY <1>3 DEF ShowsErrors
  <2>2. IsPage(pages[c])
    BY <1>2, <1>3, OpenIsPage
  <2>3. IsPage(page) /\ page.errors
    BY <2>2 DEF IsPage, FormFields
  <2>4. page = pages[c] => pages[c].errors
    BY <2>3
  <2> HIDE DEF page
  <2>5. ClientOk(form, page, [jobs[c] EXCEPT ![j] = None], HasStored(c))
    <3>1. LET js == [jobs[c] EXCEPT ![j] = None]
          IN  /\ js = [i \in SlotsOf(form) |-> js[i]]
              /\ \A i \in SlotsOf(form) : JobOk(form, js[i], IsOpen(c), HasStored(c))
      BY OverIs
    <3> DEFINE js == [jobs[c] EXCEPT ![j] = None]
    <3>2. js = [i \in SlotsOf(form) |-> js[i]]
          /\ \A i \in SlotsOf(form) : JobOk(form, js[i], IsOpen(c), HasStored(c))
      BY <3>1
    <3> HIDE DEF js
    <3>3. page.at = "open" /\ page # Saved /\ page # Unopened
      BY <2>3 DEF IsPage, Saved, Unopened
    <3>4. ClientOk(form, page, js, HasStored(c))
      BY <1>2, <1>3, <2>3, <3>2, <3>3 DEF ClientOk, PageOk, JobOk
    <3> QED
      BY <3>4 DEF js
  <2> QED
    BY <1>1, <2>1, <2>5, StepKeeps DEF Over
<1>4. CASE ~(jobs[c][j].left = None /\ Used.handles)
  <2>1. pages' = [pages EXCEPT ![c] = pages[c]]
    BY <1>4 DEF ShowsErrors, ConflictInv
  <2>2. IsOpen(c) => Kind \in WritesOver
    BY <1>2, <1>4, Handling DEF ConflictInv
  <2> QED
    BY <1>1, <2>1, <2>2, OverKeeps
<1> QED
  BY <1>3, <1>4

\* What was refused is shown, or tried again.
LEMMA RefusedKeeps ==
    ASSUME ConflictInv, NEW c \in Clients, NEW j \in Slots, Refused(c, j)
    PROVE  ConflictInv'
<1>1. jobs[c][j] # None
  BY NotNone DEF Refused
<1>2. CASE ShowsErrors(c, j)
  BY <1>1, <1>2, ShowsErrorsKeeps
<1>3. CASE Kind = "image" /\ Step(c, j, [jobs[c][j] EXCEPT !.at = "wait"])
  <2>1. GoesOnAs(c, j, [jobs[c][j] EXCEPT !.at = "wait"])
    BY <1>1, <1>3, GoesOnAtStep DEF Steps
  <2> QED
    BY <1>1, <1>3, <2>1, BecomesKeeps DEF Step
<1> QED
  BY <1>2, <1>3 DEF Refused, Retries

\* A version is stored: the others are as they were.
LEMMA StoredIsLast ==
    ASSUME NEW S, versions \in Seq(S), NEW new, versions' = Append(versions, new)
    PROVE  /\ \E T : versions' \in Seq(T)
           /\ LAST \in Nat /\ DOMAIN versions = 1..LAST /\ DOMAIN versions' = 1..(LAST + 1)
           /\ versions'[LAST + 1] = new
           /\ \A v \in 1..LAST : versions'[v] = versions[v]
<1>1. LAST \in Nat /\ DOMAIN versions = 1..LAST
  BY DEF LAST
<1>2. versions \in Seq(S \cup {new})
  OBVIOUS
<1>3. versions' \in Seq(S \cup {new})
  BY <1>2
<1>4. /\ DOMAIN versions' = 1..(LAST + 1)
      /\ versions'[LAST + 1] = new
      /\ \A v \in 1..LAST : versions'[v] = versions[v]
  BY <1>1, <1>2 DEF LAST
<1> QED
  BY <1>1, <1>3, <1>4

\* The server takes or refuses a version.
LEMMA ServerTakesKeeps ==
    ASSUME ConflictInv, NEW c \in Clients, NEW j \in Slots, ServerTakes(c, j)
    PROVE  ConflictInv'
<1> DEFINE job == jobs[c][j]
           new == [job EXCEPT !.at = "answer", !.ok = Accepted(job)]
           js == [jobs[c] EXCEPT ![j] = new]
<1>1. job # None /\ UNCHANGED <<form, pages>>
  BY NotNone DEF ServerTakes
<1>2. IsJob(job) /\ AtItsStep(form, job) /\ JobOk(form, job, IsOpen(c), HasStored(c))
  BY <1>1, JobIs
<1>3. jobs' = [jobs EXCEPT ![c] = js]
  BY DEF ServerTakes
<1>4. versions' = IF Accepted(job) THEN Append(versions, Stored(c, job)) ELSE versions
  BY DEF ServerTakes
<1>5. \A d \in Clients : ClientOk(form, pages[d], jobs[d], HasStored(d))
  BY DEF ConflictInv
<1>6. IsJob(new) /\ new.at = "answer" /\ new.ok = Accepted(job) /\ new.left = job.left
      /\ new.follows = job.follows /\ new.base = job.base
  <2> DEFINE ok == Accepted(job)
             last == [job EXCEPT !.at = "answer", !.ok = ok]
  <2>1. ok \in BOOLEAN
    BY DEF Accepted
  <2> HIDE DEF ok, job
  <2>2. IsJob(last) /\ last.at = "answer" /\ last.ok = ok /\ last.left = job.left
        /\ last.follows = job.follows /\ last.base = job.base
    BY <1>2, <2>1 DEF IsJob, JobFields
  <2> QED
    BY <2>2 DEF ok
<1>7. jobs[c] = [i \in SlotsOf(form) |-> jobs[c][i]] /\ j \in SlotsOf(form)
  BY <1>5 DEF ClientOk, Slots, SlotsOf
<1> HIDE DEF new
<1>8. /\ js = [i \in SlotsOf(form) |-> js[i]] /\ js[j] = new
      /\ \A i \in SlotsOf(form) : i # j => js[i] = jobs[c][i]
  BY <1>7
<1>9. new # None /\ AtItsStep(form, new)
  BY <1>2, <1>6 DEF AtItsStep, None, Steps
<1> HIDE DEF job, js
<1>10. /\ VersionsOk'
       /\ \A d \in Clients : HasStored(d) => HasStored(d)'
       /\ Accepted(job) => HasStored(c)'
  <2>1. PICK S : versions \in Seq(S)
    BY DEF ConflictInv, VersionsOk
  <2>2. CASE Accepted(job)
    <3>1. versions' = Append(versions, Stored(c, job))
      BY <1>4, <2>2
    <3>2. Stored(c, job).by = c /\ Stored(c, job).base = job.base
      BY DEF Stored
    <3> DEFINE st == Stored(c, job)
    <3> HIDE DEF st
    <3>3. versions' = Append(versions, st)
      BY <3>1 DEF st
    <3>4. /\ \E T : versions' \in Seq(T)
          /\ LAST \in Nat /\ DOMAIN versions = 1..LAST /\ DOMAIN versions' = 1..(LAST + 1)
          /\ versions'[LAST + 1] = st
          /\ \A v \in 1..LAST : versions'[v] = versions[v]
      BY <2>1, <3>3, StoredIsLast
    <3>5. st.by = c /\ st.base = job.base
      BY <3>2 DEF st
    <3>6. HasStored(c)'
      BY <3>4, <3>5 DEF HasStored
    <3>7. \A d \in Clients : HasStored(d) => HasStored(d)'
      BY <3>4 DEF HasStored
    <3>8. ASSUME Versioned, ~form.create, Kind \notin WritesOver, NEW v \in DOMAIN versions', v > 1
          PROVE  versions'[v].base = v - 1
      <4>1. job.base = LAST
        BY <1>2, <2>2, <3>8 DEF Accepted, AtItsStep, Kind
      <4>2. CASE v = LAST + 1
        BY <3>4, <3>5, <4>1, <4>2
      <4>3. CASE v \in 1..LAST
        BY <3>4, <3>8, <4>3 DEF ConflictInv, VersionsOk
      <4> QED
        BY <3>4, <4>2, <4>3
    <3>9. Versioned' = Versioned /\ Kind' = Kind
      BY <1>1 DEF Versioned, Kind
    <3> QED
      BY <1>1, <3>4, <3>6, <3>7, <3>8, <3>9 DEF VersionsOk
  <2>3. CASE ~Accepted(job)
    <3>1. versions' = versions
      BY <1>4, <2>3
    <3> QED
      BY <1>1, <2>3, <3>1 DEF ConflictInv, VersionsOk, HasStored, Versioned, Kind
  <2> QED
    BY <2>2, <2>3
<1>11. ASSUME NEW d \in Clients
       PROVE  ClientOk(form, pages[d], jobs[d], HasStored(d))'
  <2>1. ClientOk(form, pages[d], jobs[d], HasStored(d)) /\ (HasStored(d) => HasStored(d)')
    BY <1>5, <1>10
  <2>2. CASE d # c
    <3>1. jobs'[d] = jobs[d]
      BY <1>3, <2>2 DEF ConflictInv
    <3> QED
      BY <1>1, <2>1, <3>1 DEF ClientOk, PageOk, JobOk
  <2>3. CASE d = c
    <3>1. jobs'[c] = js
      BY <1>3 DEF ConflictInv
    <3>2. PageOk(form, pages[c], js, HasStored(c)')
      <4>1. \A i \in SlotsOf(form) : js[i] = None => jobs[c][i] = None
        BY <1>8, <1>9
      <4>2. pages[c] # Unopened
        BY <1>1, <1>7, <2>1, <2>3 DEF ClientOk, PageOk, job
      <4> QED
        BY <2>1, <2>3, <4>1, <4>2 DEF ClientOk, PageOk
    <3>3. JobOk(form, new, IsOpen(c), HasStored(c)')
      BY <1>1, <1>2, <1>6, <1>9, <1>10 DEF JobOk
    <3>4. \A i \in SlotsOf(form) : JobOk(form, js[i], pages[c].at = "open", HasStored(c)')
      BY <1>8, <2>1, <2>3, <3>3 DEF ClientOk, JobOk, IsOpen
    <3> QED
      BY <1>1, <1>8, <2>3, <3>1, <3>2, <3>4 DEF ClientOk, PageOk, JobOk
  <2> QED
    BY <2>2, <2>3
<1>12. pages' = [d \in Clients |-> pages'[d]] /\ jobs' = [d \in Clients |-> jobs'[d]]
  BY <1>1, <1>3 DEF ConflictInv
<1>13. FormOk'
  BY <1>1 DEF ConflictInv, FormOk
<1> QED
  BY <1>10, <1>11, <1>12, <1>13 DEF ConflictInv

\* Every step keeps the invariant.
LEMMA ConflictSteps == ConflictInv /\ [EditingNext]_editingVars => ConflictInv'
<1> SUFFICES ASSUME ConflictInv, [EditingNext]_editingVars
             PROVE  ConflictInv'
  OBVIOUS
<1>1. CASE UNCHANGED editingVars
  BY <1>1 DEF editingVars, ConflictInv, FormOk, VersionsOk, HasStored, Versioned, Kind, ClientOk, PageOk, JobOk
<1>2. ASSUME NEW c \in Users, UserActs(c)
      PROVE  ConflictInv'
  BY <1>2, UsersAreClients, OpenKeeps, ChangesKeep, CancelKeeps, SubmitKeeps DEF UserActs
<1>3. ASSUME NEW c \in Users, NEW j \in Slots, JobGoesOn(c, j)
      PROVE  ConflictInv'
  BY <1>3, UsersAreClients, GotOldKeeps, UploadedKeeps, GotKeeps, RefusedKeeps, RetryKeeps,
     ServerTakesKeeps, SucceedsKeeps DEF JobGoesOn
<1>4. ASSUME NEW c \in Users, NEW j \in Slots, JobFails(c, j)
      PROVE  ConflictInv'
  BY <1>4, UsersAreClients, FailuresKeep
<1> QED
  BY <1>1, <1>2, <1>3, <1>4 DEF EditingNext

\* The property follows from the invariant.
LEMMA ConflictFollows == ConflictInv => ConflictIsReported
<1> SUFFICES ASSUME ConflictInv, Kind \notin WritesOver
             PROVE  /\ Versioned /\ ~form.create => \A v \in DOMAIN versions : v > 1 => versions[v].base = v - 1
                    /\ \A c \in Users :
                         LET stored == \E v \in DOMAIN versions : versions[v].by = c
                         IN  /\ pages[c] = Saved => stored
                             /\ IsOpen(c) /\ pages[c].submits > 0 /\ IsIdle(c) =>
                                  pages[c].errors \/ (Used.stays /\ stored)
  BY DEF ConflictIsReported
<1>1. Versioned /\ ~form.create => \A v \in DOMAIN versions : v > 1 => versions[v].base = v - 1
  BY DEF ConflictInv, VersionsOk
<1>2. ASSUME NEW c \in Users
      PROVE  /\ pages[c] = Saved => HasStored(c)
             /\ IsOpen(c) /\ pages[c].submits > 0 /\ IsIdle(c) =>
                  pages[c].errors \/ (Used.stays /\ HasStored(c))
  <2>1. PageOk(form, pages[c], jobs[c], HasStored(c))
    BY UsersAreClients DEF ConflictInv, ClientOk
  <2> QED
    BY <2>1 DEF PageOk, IsOpen, IsIdle, Slots, SlotsOf, Kind, Used
<1> QED
  BY <1>1, <1>2 DEF HasStored

--------------------------------------------------------------------------------
(* The invariant of what is stored.  A form, what it will post and what it was  *)
(* loaded with ("old") are compared field by field.                             *)

OldContent(f, vs, base) ==
    IF base = 0 THEN [g \in Fields(f.kind) |-> Empty] ELSE vs[base].content
BaseFits(f, vs, base) == IF f.create THEN base = 0 ELSE base \in 1 .. Len(vs)

Status == Organization("status")
Texts(kind) == IF HasParagraphs(kind) THEN {Text(p) : p \in Range(Paragraphs)} ELSE {}
Plain(kind) == Fields(kind) \ Texts(kind)
Forgotten(f) == IF f.create THEN {} ELSE Unread(f.kind)
GarbledIn(f) == IF f.kind = "mercator2015" /\ ~ f.create THEN {<<"main", "title">>} ELSE {}
\* What the status that is posted has no use for.
Discards(f, content) == IF f.kind = "mercator2015" THEN CleanOrganizationInfo(content) ELSE {}

\* A field that was touched has the user's value, unless it has been emptied; the
\* others have the old value.
DataFits(f, c, p, old) ==
    /\ f.kind # "mercator2015" => p.emptied = {}
    /\ f.kind = "mercator2015" => Status \in DOMAIN p.data
    /\ \A g \in Plain(f.kind) :
         /\ g \in p.touched \ {Status} =>
                IF g \in DOMAIN p.data THEN p.data[g] = c ELSE g \in p.emptied
         /\ g \notin p.touched \cup p.emptied \cup GarbledIn(f) =>
                IF g \in DOMAIN p.data THEN p.data[g] = old[g] ELSE g \in Forgotten(f)

\* So do the paragraphs, which only grow in number.
IsParagraph(x) == x = [k \in {"body", "deleted"} |-> x[k]] /\ x.deleted \in BOOLEAN
ParagraphFits(c, x, touched, old, g) ==
    IF g \in touched THEN x.deleted \/ x.body \in {c, Empty}
                     ELSE ~ x.deleted /\ x.body = old[g]
ParagraphsFit(c, p, old) ==
    /\ \E S : p.paragraphs \in Seq(S)
    /\ Len(StoredParagraphs(old)) <= Len(p.paragraphs) /\ Len(p.paragraphs) <= 4
    /\ \A i \in 1 .. Len(p.paragraphs) :
         /\ IsParagraph(p.paragraphs[i])
         /\ ParagraphFits(c, p.paragraphs[i], p.touched, old, Text(ParagraphAt(i, old)))

PageFits(f, vs, c, p) ==
    /\ BaseFits(f, vs, p.base)
    /\ DataFits(f, c, p, OldContent(f, vs, p.base))
    /\ HasParagraphs(f.kind) => ParagraphsFit(c, p, OldContent(f, vs, p.base))

\* What is posted: the same, of the last time that the form was read.
PostFits(f, c, r, old) ==
    /\ r.emptied \subseteq r.live
    /\ f.kind # "mercator2015" => r.emptied = {}
    /\ f.kind = "mercator2015" => Status \in DOMAIN r.posted
    /\ \A g \in Plain(f.kind) :
         /\ g \in r.entered \ {Status} =>
                IF g \in DOMAIN r.posted THEN r.posted[g] = c
                                         ELSE g \in r.emptied \cup Discards(f, r.posted)
         /\ g \notin r.live \cup GarbledIn(f) =>
                IF g \in DOMAIN r.posted THEN r.posted[g] = old[g]
                                         ELSE g \in Forgotten(f) \cup Discards(f, r.posted)
    /\ \A g \in Texts(f.kind) :
         /\ g \in r.entered /\ g \in DOMAIN r.posted => r.posted[g] \in {c, Empty}
         /\ g \notin r.live => (IF g \in DOMAIN r.posted THEN r.posted[g] ELSE Empty) = old[g]

\* A job, and the form that it reads, which is the page p or is left behind.
ScopeOf(r, p) == IF r.left = None THEN p ELSE r.left
JobFits(f, vs, c, r, p) ==
    /\ PostFits(f, c, r, OldContent(f, vs, r.base))
    /\ PageFits(f, vs, c, ScopeOf(r, p))
    /\ ScopeOf(r, p).base = r.base /\ r.entered \subseteq ScopeOf(r, p).touched

ClientFits(f, vs, c, p, js) ==
    /\ p.at = "open" => PageFits(f, vs, c, p)
    /\ \A j \in SlotsOf(f) : js[j] # None => JobFits(f, vs, c, js[j], p)

VersionFits(f, vs, v) ==
    LET new == vs[v]
        old == OldContent(f, vs, new.base)
    IN  /\ BaseFits(f, vs, new.base)
        /\ \A g \in Fields(f.kind) \ Discards(f, new.content) :
             /\ g \in new.entered \ {Status} =>
                  \/ new.content[g] = new.by
                  \/ g[2] = "text" /\ new.content[g] = Empty
                  \/ g \in new.emptied /\ new.content[g] = Empty
             /\ g \notin new.live \cup GarbledIn(f) =>
                  \/ new.content[g] = old[g]
                  \/ f.kind = "mercator2016" /\ v > 1 /\ new.content[g] = vs[v - 1].content[g]

StoresInv ==
    /\ seen = [c \in Clients |-> seen[c]] /\ \A c \in Clients : seen[c] \in Nat \ {0}
    /\ form.create \/ LAST >= 1
    /\ \A v \in DOMAIN versions : versions[v].by \in Clients => VersionFits(form, versions, v)
    /\ \A c \in Clients : ClientFits(form, versions, c, pages[c], jobs[c])

--------------------------------------------------------------------------------
(* Paragraphs: each of the four is somewhere in the form, once.                 *)

\* A sequence lists a set without repetitions.
Lists(seq, set) ==
    /\ \A i \in 1 .. Len(seq) : seq[i] \in set
    /\ \A q \in set : \E i \in 1 .. Len(seq) : seq[i] = q
    /\ \A i, k \in 1 .. Len(seq) : seq[i] = seq[k] => i = k
One(p, chosen) == IF p \in chosen THEN 1 ELSE 0
Plus(set, p, chosen) == set \cup {x \in {p} : x \in chosen}

\* One more paragraph is listed if it is chosen.
LEMMA FollowLists ==
    ASSUME NEW S, NEW seq \in Seq(S), NEW p \in S, NEW chosen, NEW set, p \notin set,
           Lists(seq, set)
    PROVE  /\ Follow(seq, p, chosen) \in Seq(S)
           /\ Lists(Follow(seq, p, chosen), Plus(set, p, chosen))
           /\ Len(Follow(seq, p, chosen)) = Len(seq) + One(p, chosen)
<1>1. CASE p \in chosen
  <2> DEFINE new == Append(seq, p)
  <2>1. Follow(seq, p, chosen) = new
    BY <1>1 DEF Follow
  <2>2. /\ new \in Seq(S) /\ Len(seq) \in Nat /\ Len(new) = Len(seq) + 1
        /\ new[Len(seq) + 1] = p /\ \A i \in 1 .. Len(seq) : new[i] = seq[i]
    OBVIOUS
  <2> HIDE DEF new
  <2>3. \A i \in 1 .. Len(new) : i \in 1 .. Len(seq) \/ i = Len(seq) + 1
    BY <2>2
  <2>4. \A i \in 1 .. Len(new) : new[i] \in set \cup {p}
    BY <2>2, <2>3 DEF Lists
  <2>5. ASSUME NEW q \in set \cup {p}
        PROVE  \E i \in 1 .. Len(new) : new[i] = q
    <3>1. CASE q = p
      BY <2>2, <3>1
    <3>2. CASE q \in set
      <4>1. PICK i \in 1 .. Len(seq) : seq[i] = q
        BY <3>2 DEF Lists
      <4> QED
        BY <2>2, <4>1
    <3> QED
      BY <3>1, <3>2
  <2>6. \A i \in 1 .. Len(seq) : seq[i] # p
    BY DEF Lists
  <2>7. \A i, k \in 1 .. Len(new) : new[i] = new[k] => i = k
    BY <2>2, <2>3, <2>6 DEF Lists
  <2>8. Lists(new, Plus(set, p, chosen))
    <3>1. \A q : q \in Plus(set, p, chosen) <=> q \in set \cup {p}
      BY <1>1 DEF Plus
    <3> QED
      BY <2>4, <2>5, <2>7, <3>1 DEF Lists
  <2>9. One(p, chosen) = 1
    BY <1>1 DEF One
  <2> QED
    BY <2>1, <2>2, <2>8, <2>9
<1>2. CASE p \notin chosen
  <2>1. Follow(seq, p, chosen) = seq /\ One(p, chosen) = 0 /\ Len(seq) \in Nat
    BY <1>2 DEF Follow, One
  <2>2. Lists(seq, Plus(set, p, chosen))
    BY <1>2 DEF Lists, Plus
  <2> QED
    BY <2>1, <2>2
<1> QED
  BY <1>1, <1>2

\* The four paragraphs.
LEMMA FourParagraphs ==
    /\ Range(Paragraphs) = {Paragraphs[1], Paragraphs[2], Paragraphs[3], Paragraphs[4]}
    /\ Paragraphs[1] # Paragraphs[2] /\ Paragraphs[1] # Paragraphs[3] /\ Paragraphs[1] # Paragraphs[4]
    /\ Paragraphs[2] # Paragraphs[3] /\ Paragraphs[2] # Paragraphs[4] /\ Paragraphs[3] # Paragraphs[4]
    /\ \A p, q \in Range(Paragraphs) : Text(p) = Text(q) => p = q
<1>1. DOMAIN Paragraphs = 1 .. 4
  BY DEF Paragraphs
<1>2. /\ Paragraphs[1] = "paragraph 1" /\ Paragraphs[2] = "paragraph 2"
      /\ Paragraphs[3] = "paragraph 3" /\ Paragraphs[4] = "paragraph 4"
  BY DEF Paragraphs
<1>3. Range(Paragraphs) = {Paragraphs[i] : i \in 1 .. 4}
  BY <1>1 DEF Range
<1>4. 1 .. 4 = {1, 2, 3, 4}
  OBVIOUS
<1>5. Range(Paragraphs) = {Paragraphs[1], Paragraphs[2], Paragraphs[3], Paragraphs[4]}
  BY <1>3, <1>4
<1>6. \A p, q : Text(p) = Text(q) => p = q
  BY DEF Text
<1> QED
  BY <1>2, <1>5, <1>6

\* Those that are chosen are listed.
LEMMA InOrderLists ==
    ASSUME NEW chosen
    PROVE  /\ InOrder(chosen) \in Seq(Range(Paragraphs))
           /\ Lists(InOrder(chosen), Range(Paragraphs) \cap chosen)
           /\ Len(InOrder(chosen)) = One(Paragraphs[1], chosen) + One(Paragraphs[2], chosen)
                                       + One(Paragraphs[3], chosen) + One(Paragraphs[4], chosen)
<1> DEFINE S == Range(Paragraphs)
           p1 == Paragraphs[1]
           p2 == Paragraphs[2]
           p3 == Paragraphs[3]
           p4 == Paragraphs[4]
           s1 == Follow(<<>>, p1, chosen)
           s2 == Follow(s1, p2, chosen)
           s3 == Follow(s2, p3, chosen)
           s4 == Follow(s3, p4, chosen)
<1>1. InOrder(chosen) = s4
  BY DEF InOrder
<1>2. /\ S = {p1, p2, p3, p4} /\ p1 # p2 /\ p1 # p3 /\ p1 # p4 /\ p2 # p3 /\ p2 # p4 /\ p3 # p4
  BY FourParagraphs
<1> DEFINE set1 == Plus({}, p1, chosen)
           set2 == Plus(set1, p2, chosen)
           set3 == Plus(set2, p3, chosen)
           set4 == Plus(set3, p4, chosen)
<1>3. <<>> \in Seq(S) /\ Len(<<>>) = 0 /\ Lists(<<>>, {})
  BY DEF Lists
<1>4. /\ p1 \notin {} /\ p2 \notin set1 /\ p3 \notin set2 /\ p4 \notin set3
      /\ p1 \in S /\ p2 \in S /\ p3 \in S /\ p4 \in S
      /\ \A q : q \in set4 <=> q \in S \cap chosen
  BY <1>2 DEF Plus
<1> HIDE DEF S, p1, p2, p3, p4
<1> DEFINE none == <<>>
           set0 == {}
<1>0. /\ none \in Seq(S) /\ Len(none) = 0 /\ Lists(none, set0) /\ p1 \notin set0
      /\ s1 = Follow(none, p1, chosen) /\ set1 = Plus(set0, p1, chosen)
  BY <1>3, <1>4
<1> HIDE DEF none, set0, s1, set1
<1>5. /\ s1 \in Seq(S) /\ Lists(s1, set1) /\ Len(s1) = Len(none) + One(p1, chosen)
  <2>1. p1 \in S /\ none \in Seq(S) /\ p1 \notin set0 /\ Lists(none, set0)
    BY <1>0, <1>4
  <2>2. /\ Follow(none, p1, chosen) \in Seq(S) /\ Lists(Follow(none, p1, chosen), Plus(set0, p1, chosen))
        /\ Len(Follow(none, p1, chosen)) = Len(none) + One(p1, chosen)
    BY <2>1, FollowLists
  <2> QED
    BY <1>0, <2>2
<1>6. /\ s2 \in Seq(S) /\ Lists(s2, set2) /\ Len(s2) = Len(s1) + One(p2, chosen)
  BY <1>4, <1>5, FollowLists
<1> HIDE DEF s2, set2
<1>7. /\ s3 \in Seq(S) /\ Lists(s3, set3) /\ Len(s3) = Len(s2) + One(p3, chosen)
  BY <1>4, <1>6, FollowLists
<1> HIDE DEF s3, set3
<1>8. /\ s4 \in Seq(S) /\ Lists(s4, set4) /\ Len(s4) = Len(s3) + One(p4, chosen)
  BY <1>4, <1>7, FollowLists
<1> HIDE DEF s4, set4
<1>9. One(p1, chosen) \in Nat
  BY DEF One
<1>10. Len(s4) = One(p1, chosen) + One(p2, chosen) + One(p3, chosen) + One(p4, chosen)
  BY <1>0, <1>5, <1>6, <1>7, <1>8, <1>9
<1>11. Lists(s4, S \cap chosen)
  BY <1>4, <1>8 DEF Lists
<1> QED
  BY <1>1, <1>8, <1>10, <1>11 DEF S, p1, p2, p3, p4

\* What the i-th paragraph of a form is called.
LEMMA PlacesOfParagraphs ==
    ASSUME NEW old
    PROVE  /\ Len(StoredParagraphs(old)) \in 0 .. 4
           /\ \A i \in 1 .. 4 : ParagraphAt(i, old) \in Range(Paragraphs)
           /\ \A i, k \in 1 .. 4 : Text(ParagraphAt(i, old)) = Text(ParagraphAt(k, old)) => i = k
           /\ \A q \in Range(Paragraphs) : old[Text(q)] # Empty =>
                  \E i \in 1 .. Len(StoredParagraphs(old)) : ParagraphAt(i, old) = q
           /\ \A i \in 1 .. 4 : i > Len(StoredParagraphs(old)) => old[Text(ParagraphAt(i, old))] = Empty
           /\ \A i \in 1 .. Len(StoredParagraphs(old)) : ParagraphAt(i, old) = StoredParagraphs(old)[i]
<1> DEFINE S == Range(Paragraphs)
           A == {p \in S : old[Text(p)] # Empty}
           B == {p \in S : old[Text(p)] = Empty}
           s == StoredParagraphs(old)
           t == Added(old)
           n == Len(s)
<1>1. s = InOrder(A) /\ t = InOrder(B)
  BY DEF StoredParagraphs, Added
<1>2. /\ s \in Seq(S) /\ Lists(s, S \cap A)
      /\ n = One(Paragraphs[1], A) + One(Paragraphs[2], A) + One(Paragraphs[3], A) + One(Paragraphs[4], A)
  BY <1>1, InOrderLists
<1>3. /\ t \in Seq(S) /\ Lists(t, S \cap B)
      /\ Len(t) = One(Paragraphs[1], B) + One(Paragraphs[2], B) + One(Paragraphs[3], B) + One(Paragraphs[4], B)
  BY <1>1, InOrderLists
<1>4. \A i \in 1 .. 4 : ParagraphAt(i, old) = IF i > n THEN t[i - n] ELSE s[i]
  BY DEF ParagraphAt
<1>5. \A p \in S : One(p, A) + One(p, B) = 1 /\ One(p, A) \in {0, 1} /\ One(p, B) \in {0, 1}
  BY DEF One
<1> HIDE DEF s, t
<1>6. n + Len(t) = 4 /\ n \in 0 .. 4
  <2>1. Paragraphs[1] \in S /\ Paragraphs[2] \in S /\ Paragraphs[3] \in S /\ Paragraphs[4] \in S
    BY FourParagraphs
  <2> HIDE DEF A, B, S
  <2> QED
    BY <1>2, <1>3, <1>5, <2>1
<1>7. /\ \A i \in 1 .. n : s[i] \in A
      /\ \A i \in 1 .. Len(t) : t[i] \in B
      /\ \A q \in A : \E i \in 1 .. n : s[i] = q
      /\ \A i, k \in 1 .. n : s[i] = s[k] => i = k
      /\ \A i, k \in 1 .. Len(t) : t[i] = t[k] => i = k
  <2>1. S \cap A = A /\ S \cap B = B
    OBVIOUS
  <2> HIDE DEF A, B
  <2> QED
    BY <1>2, <1>3, <2>1 DEF Lists
<1>8. A \subseteq S /\ B \subseteq S /\ A \cap B = {}
  OBVIOUS
<1>9. \A p, q \in S : Text(p) = Text(q) => p = q
  BY FourParagraphs
<1>10. \A p \in B : old[Text(p)] = Empty
  OBVIOUS
<1>11. \A q \in S : old[Text(q)] # Empty => q \in A
  OBVIOUS
<1> HIDE DEF n, A, B, S
<1>12. \A i \in 1 .. 4 : \/ i \in 1 .. n /\ ParagraphAt(i, old) = s[i] /\ ParagraphAt(i, old) \in A
                         \/ /\ i > n /\ i - n \in 1 .. Len(t)
                            /\ ParagraphAt(i, old) = t[i - n] /\ ParagraphAt(i, old) \in B
  BY <1>4, <1>6, <1>7
<1>13. \A i \in 1 .. 4 : ParagraphAt(i, old) \in S
  BY <1>8, <1>12
<1>14. \A i, k \in 1 .. 4 : ParagraphAt(i, old) = ParagraphAt(k, old) => i = k
  <2> SUFFICES ASSUME NEW i \in 1 .. 4, NEW k \in 1 .. 4, ParagraphAt(i, old) = ParagraphAt(k, old)
               PROVE  i = k
    OBVIOUS
  <2>1. CASE i \in 1 .. n /\ k \in 1 .. n
    <3>1. ~ (i > n) /\ ~ (k > n)
      BY <1>6, <2>1
    <3>2. s[i] = s[k]
      BY <1>12, <3>1
    <3> QED
      BY <1>7, <2>1, <3>2
  <2>2. CASE i > n /\ k > n
    <3>1. t[i - n] = t[k - n] /\ i - n \in 1 .. Len(t) /\ k - n \in 1 .. Len(t)
      <4>1. ~ (i \in 1 .. n) /\ ~ (k \in 1 .. n)
        BY <1>6, <2>2
      <4> QED
        BY <1>12, <4>1
    <3>2. i - n = k - n
      BY <1>7, <3>1
    <3>3. n \in Int /\ i \in Int /\ k \in Int
      BY <1>6
    <3> QED
      BY <3>2, <3>3
  <2>3. (i \in 1 .. n \/ i > n) /\ (k \in 1 .. n \/ k > n)
    BY <1>6, <1>12
  <2>4. \A l, m \in 1 .. 4 : l \in 1 .. n /\ m > n => ParagraphAt(l, old) # ParagraphAt(m, old)
    <3> SUFFICES ASSUME NEW l \in 1 .. 4, NEW m \in 1 .. 4, l \in 1 .. n, m > n
                 PROVE  ParagraphAt(l, old) # ParagraphAt(m, old)
      OBVIOUS
    <3>1. ~ (l > n) /\ ~ (m \in 1 .. n)
      BY <1>6
    <3>2. ParagraphAt(l, old) \in A /\ ParagraphAt(m, old) \in B
      BY <1>12, <3>1
    <3> QED
      BY <1>8, <3>2
  <2> QED
    BY <2>1, <2>2, <2>3, <2>4
<1>15. \A i, k \in 1 .. 4 : Text(ParagraphAt(i, old)) = Text(ParagraphAt(k, old)) => i = k
  BY <1>9, <1>13, <1>14
<1>16. \A i \in 1 .. n : i \in 1 .. 4 /\ ParagraphAt(i, old) = s[i]
  BY <1>4, <1>6
<1>17. \A q \in S : old[Text(q)] # Empty => \E i \in 1 .. n : ParagraphAt(i, old) = q
  BY <1>7, <1>11, <1>16
<1>18. \A i \in 1 .. 4 : i > n => old[Text(ParagraphAt(i, old))] = Empty
  BY <1>6, <1>10, <1>12
<1> QED
  BY <1>6, <1>13, <1>15, <1>16, <1>17, <1>18 DEF n, s, S

--------------------------------------------------------------------------------
(* What the status of an organization has no use for.                           *)

OrganizationParts == {Organization(name) : name \in OrganizationFields}

\* The names of the map are fields of the organization.
LEMMA NamesOfMap == UNION Range(OrganizationFieldsMap) \subseteq OrganizationFields \ {"status"}
<1>1. DOMAIN OrganizationFieldsMap
          = {"registered_nonprofit", "planned_nonprofit", "support_needed", "other"}
  BY DEF OrganizationFieldsMap
<1>2. \A k \in DOMAIN OrganizationFieldsMap :
          \A n \in OrganizationFieldsMap[k] : n \in OrganizationFields \ {"status"}
  BY <1>1 DEF OrganizationFieldsMap, OrganizationFields
<1> QED
  BY <1>2 DEF Range

\* What is lost belongs to the organization, and depends on its status only.
LEMMA DiscardsAre ==
    ASSUME NEW f, NEW d, NEW e, d[Status] = e[Status]
    PROVE  /\ \A g \in Discards(f, d) : g \in OrganizationParts /\ g # Status
           /\ \A g : g \in Discards(f, d) <=> g \in Discards(f, e)
<1> DEFINE names == UNION Range(OrganizationFieldsMap)
           useful == IF d[Status] \in DOMAIN OrganizationFieldsMap
                     THEN OrganizationFieldsMap[d[Status]] ELSE {}
<1>1. /\ CleanOrganizationInfo(d) = {Organization(name) : name \in names \ useful}
      /\ CleanOrganizationInfo(e) = {Organization(name) : name \in names \ useful}
  BY DEF CleanOrganizationInfo, Status
<1>2. names \subseteq OrganizationFields \ {"status"}
  BY NamesOfMap
<1> HIDE DEF names, useful
<1>3. \A g \in Discards(f, d) : g \in {Organization(name) : name \in names \ useful}
  BY <1>1 DEF Discards
<1>4. \A name \in names \ useful : Organization(name) \in OrganizationParts /\ Organization(name) # Status
  BY <1>2 DEF OrganizationParts, Organization, Status
<1>5. \A g : g \in Discards(f, d) <=> g \in Discards(f, e)
  BY <1>1 DEF Discards
<1> QED
  BY <1>3, <1>4, <1>5

\* It is of no use.
LEMMA DiscardedIsUseless ==
    ASSUME NEW content
    PROVE  Discards(form, content) \subseteq Useless(content)
<1>1. CASE Kind # "mercator2015"
  BY <1>1 DEF Discards, Kind
<1>2. CASE Kind = "mercator2015"
  <2> DEFINE names == UNION Range(OrganizationFieldsMap)
             useful == IF content[Status] \in DOMAIN OrganizationFieldsMap
                       THEN OrganizationFieldsMap[content[Status]] ELSE {}
  <2>1. Discards(form, content) = {Organization(name) : name \in names \ useful}
    BY <1>2 DEF Discards, CleanOrganizationInfo, Status, Kind
  <2>2. Useless(content) = SubFields("mercator2015", "organization_info")
                               \ {Organization(name) : name \in {"status"} \cup useful}
    BY <1>2 DEF Useless, Status
  <2>3. names \subseteq OrganizationFields \ {"status"}
    BY NamesOfMap
  <2>4. SubFields("mercator2015", "organization_info") = {"organization_info"} \X OrganizationFields
    <3>1. SubResources("mercator2015") = Mercator2015SubResources
      BY DEF SubResources, HasParagraphs
    <3>2. Mercator2015SubResources["organization_info"] = OrganizationFields
      BY DEF Mercator2015SubResources
    <3> QED
      BY <3>1, <3>2 DEF SubFields
  <2> HIDE DEF names, useful
  <2>5. ASSUME NEW name \in names \ useful
        PROVE  Organization(name) \in Useless(content)
    <3>1. Organization(name) \in {"organization_info"} \X OrganizationFields
      BY <2>3, <2>5 DEF Organization
    <3>2. Organization(name) \notin {Organization(n) : n \in {"status"} \cup useful}
      BY <2>3, <2>5 DEF Organization
    <3> QED
      BY <2>2, <2>4, <3>1, <3>2
  <2> QED
    BY <2>1, <2>5
<1> QED
  BY <1>1, <1>2

--------------------------------------------------------------------------------
(* Forms and what they will post, field by field.                               *)

\* The user changes a field that is no paragraph.
LEMMA TouchFits ==
    ASSUME NEW f, NEW c, NEW p, NEW old, DataFits(f, c, p, old), NEW g \in Plain(f.kind), NEW value,
           g # Status => value = c,
           NEW q, q.data = [h \in {g} \cup DOMAIN p.data |-> IF h = g THEN value ELSE p.data[h]],
           q.touched = p.touched \cup {g}, q.emptied = p.emptied
    PROVE  DataFits(f, c, q, old)
<1>1. DOMAIN q.data = {g} \cup DOMAIN p.data
  OBVIOUS
<1>2. \A h \in DOMAIN q.data : q.data[h] = IF h = g THEN value ELSE p.data[h]
  OBVIOUS
<1> QED
  BY <1>1, <1>2 DEF DataFits

\* The user changes a paragraph.
LEMMA TextFits ==
    ASSUME NEW f, NEW c, NEW p, NEW old, DataFits(f, c, p, old), NEW g, g \notin Plain(f.kind),
           NEW q, q.data = p.data, q.touched = p.touched \cup {g}, q.emptied = p.emptied
    PROVE  DataFits(f, c, q, old)
BY DEF DataFits

\* The form is cleaned.
LEMMA CleanFits ==
    ASSUME NEW c, NEW p, NEW old, DataFits(form, c, p, old), IsPage(p)
    PROVE  DataFits(form, c, Cleaned(p), old)
<1> DEFINE lost == Discards(form, p.data)
           q == Cleaned(p)
           fields == IF Kind = "mercator2015"
                     THEN CleanOrganizationInfo(p.data) \cap DOMAIN p.data ELSE {}
           x == Fill(Kind, p.data)
           y == p.emptied \cup fields
<1>1. q = [p EXCEPT !.data = x, !.emptied = y]
  BY DEF Cleaned
<1>2. x = [g \in DOMAIN p.data \ lost |-> p.data[g]] /\ y = p.emptied \cup (lost \cap DOMAIN p.data)
  BY DEF Fill, Discards, Kind
<1> HIDE DEF x, y, q
<1>3. q.data = x /\ q.emptied = y /\ q.touched = p.touched
  BY <1>1 DEF IsPage, FormFields
<1>4. \A g \in lost : g # Status
  BY DiscardsAre
<1>5. form.kind # "mercator2015" => lost = {}
  BY DEF Discards
<1> HIDE DEF lost
<1>6. /\ DOMAIN q.data = DOMAIN p.data \ lost
      /\ \A g \in DOMAIN p.data \ lost : q.data[g] = p.data[g]
      /\ q.emptied = p.emptied \cup (lost \cap DOMAIN p.data)
  BY <1>2, <1>3
<1>7. form.kind # "mercator2015" => q.emptied = {}
  BY <1>5, <1>6 DEF DataFits
<1>8. form.kind = "mercator2015" => Status \in DOMAIN q.data
  BY <1>4, <1>6 DEF DataFits
<1>9. ASSUME NEW g \in Plain(form.kind)
      PROVE  /\ g \in q.touched \ {Status} =>
                    IF g \in DOMAIN q.data THEN q.data[g] = c ELSE g \in q.emptied
             /\ g \notin q.touched \cup q.emptied \cup GarbledIn(form) =>
                    IF g \in DOMAIN q.data THEN q.data[g] = old[g] ELSE g \in Forgotten(form)
  BY <1>3, <1>6 DEF DataFits
<1> QED
  BY <1>7, <1>8, <1>9 DEF DataFits, q

\* The form is read again.
LEMMA ReadFits ==
    ASSUME NEW f, ~ HasParagraphs(f.kind), NEW c, NEW p, NEW r, NEW old,
           DataFits(f, c, p, old), PostFits(f, c, r, old), r.entered \subseteq p.touched,
           NEW fields,
           OrganizationParts \subseteq fields \/ OrganizationParts \cap fields = {},
           NEW new, new.entered = r.entered, new.emptied = r.emptied \cup p.emptied,
           new.live = r.live \cup p.touched \cup p.emptied,
           DOMAIN new.posted = (DOMAIN p.data \cap fields) \cup (DOMAIN r.posted \ fields),
           \A g \in DOMAIN p.data \cap fields : new.posted[g] = p.data[g],
           \A g \in DOMAIN r.posted \ fields : new.posted[g] = r.posted[g]
    PROVE  PostFits(f, c, new, old)
<1>1. Status \in OrganizationParts
  BY DEF Status, OrganizationParts, OrganizationFields
<1>2. f.kind = "mercator2015" => Status \in DOMAIN new.posted
  BY <1>1 DEF DataFits, PostFits
<1>3. f.kind # "mercator2015" => new.emptied = {} /\ \A d : Discards(f, d) = {}
  BY DEF DataFits, PostFits, Discards
<1>4. \A d : \A g \in Discards(f, d) : g \in OrganizationParts
  BY DiscardsAre
<1>5. CASE OrganizationParts \subseteq fields \/ f.kind # "mercator2015"
  <2>1. ASSUME NEW g \in Plain(f.kind)
        PROVE  /\ g \in new.entered \ {Status} =>
                      IF g \in DOMAIN new.posted THEN new.posted[g] = c
                                               ELSE g \in new.emptied \cup Discards(f, new.posted)
               /\ g \notin new.live \cup GarbledIn(f) =>
                      IF g \in DOMAIN new.posted THEN new.posted[g] = old[g]
                                               ELSE g \in Forgotten(f) \cup Discards(f, new.posted)
    <3>1. CASE g \in fields
      BY <3>1 DEF DataFits, PostFits
    <3>2. CASE g \notin fields
      <4>1. g \notin Discards(f, r.posted)
        BY <1>3, <1>4, <1>5, <3>2
      <4> QED
        BY <3>2, <4>1 DEF PostFits
    <3> QED
      BY <3>1, <3>2
  <2> QED
    BY <1>2, <1>3, <2>1 DEF PostFits, Texts
<1>6. CASE OrganizationParts \cap fields = {} /\ f.kind = "mercator2015"
  <2>1. new.posted[Status] = r.posted[Status]
    BY <1>1, <1>6 DEF PostFits
  <2>2. \A g : g \in Discards(f, new.posted) <=> g \in Discards(f, r.posted)
    BY <2>1, DiscardsAre
  <2>3. ASSUME NEW g \in Plain(f.kind)
        PROVE  /\ g \in new.entered \ {Status} =>
                      IF g \in DOMAIN new.posted THEN new.posted[g] = c
                                               ELSE g \in new.emptied \cup Discards(f, new.posted)
               /\ g \notin new.live \cup GarbledIn(f) =>
                      IF g \in DOMAIN new.posted THEN new.posted[g] = old[g]
                                               ELSE g \in Forgotten(f) \cup Discards(f, new.posted)
    <3>1. CASE g \in fields
      BY <3>1 DEF DataFits, PostFits
    <3>2. CASE g \notin fields
      BY <2>2, <3>2 DEF PostFits
    <3> QED
      BY <3>1, <3>2
  <2> QED
    BY <1>2, <1>6, <2>3 DEF PostFits, Texts
<1> QED
  BY <1>5, <1>6

\* A document has main fields and the texts of its paragraphs.
LEMMA DocumentFields ==
    ASSUME NEW kind, HasParagraphs(kind)
    PROVE  /\ \A p \in Range(Paragraphs) : Text(p) \in Fields(kind)
           /\ Plain(kind) \subseteq {"main"} \X MainFields("document")
           /\ \A g \in {"main"} \X MainFields("document") : g \notin Texts(kind)
           /\ \A g \in Plain(kind) : g # Status
           /\ Unread(kind) = {}
<1> DEFINE main == {"main"} \X MainFields("document")
           S == Range(Paragraphs)
<1>1. kind \in {"document", "blog"}
  BY DEF HasParagraphs
<1>2. SubResources(kind) = [p \in S |-> {"text"}]
  BY <1>1 DEF SubResources, HasParagraphs
<1>3. MainFields(kind) = MainFields("document")
  BY <1>1 DEF MainFields, HasParagraphs
<1>4. \A p \in S : SubFields(kind, p) = {p} \X {"text"}
  BY <1>2 DEF SubFields
<1>5. Fields(kind) = main \cup UNION {SubFields(kind, p) : p \in S}
  <2>1. DOMAIN SubResources(kind) = S
    BY <1>2
  <2> QED
    BY <1>3, <2>1 DEF Fields
<1>6. \A g : g \in Fields(kind) <=> g \in main \/ \E p \in S : g \in {p} \X {"text"}
  BY <1>4, <1>5
<1>7. \A p \in S : Text(p) \in {p} \X {"text"} /\ \A g \in {p} \X {"text"} : g = Text(p)
  BY DEF Text
<1>8. Texts(kind) = {Text(p) : p \in S}
  BY DEF Texts
<1>9. \A p \in S : p # "main"
  BY FourParagraphs DEF Paragraphs
<1>10. \A g \in main : g[1] = "main"
  OBVIOUS
<1>11. Status[1] # "main"
  BY DEF Status, Organization
<1>12. \A p \in S : Text(p)[1] = p
  BY DEF Text
<1>13. Unread(kind) = {}
  BY <1>1 DEF Unread
<1> HIDE DEF main, S
<1>14. \A p \in S : Text(p) \in Fields(kind)
  BY <1>6, <1>7
<1>15. Plain(kind) \subseteq main
  BY <1>6, <1>7, <1>8 DEF Plain
<1>16. \A g \in main : g \notin Texts(kind)
  BY <1>8, <1>9, <1>10, <1>12
<1> QED
  BY <1>10, <1>11, <1>13, <1>14, <1>15, <1>16 DEF main, S

\* The status is a field of Mercator 2015, and what that form has has no texts.
LEMMA StatusIsField ==
    /\ Status \in Fields("mercator2015") /\ Plain("mercator2015") = Fields("mercator2015")
    /\ Unread("mercator2015") = {}
<1>1. SubResources("mercator2015") = Mercator2015SubResources
  BY DEF SubResources, HasParagraphs
<1>2. "organization_info" \in DOMAIN Mercator2015SubResources
      /\ Mercator2015SubResources["organization_info"] = OrganizationFields
  BY DEF Mercator2015SubResources
<1>3. Status \in SubFields("mercator2015", "organization_info")
  BY <1>1, <1>2 DEF SubFields, Status, Organization, OrganizationFields
<1>4. Status \in Fields("mercator2015")
  BY <1>1, <1>2, <1>3 DEF Fields
<1> QED
  BY <1>4 DEF Plain, Texts, HasParagraphs, Unread

\* What a form posts if it is read now: the fields of a document.
LEMMA DocumentPosts ==
    ASSUME HasParagraphs(form.kind), NEW c, NEW p, NEW old,
           DataFits(form, c, p, old), ParagraphsFit(c, p, old),
           NEW r, r.posted = FillDocument(p.data, p.paragraphs, old),
           r.entered = p.touched, r.emptied = p.emptied, r.live = p.touched \cup p.emptied
    PROVE  PostFits(form, c, r, old)
<1> DEFINE main == {"main"} \X MainFields("document")
           At1(i) == Text(ParagraphAt(i, old))
           texts == {At1(i) : i \in Posted(p.paragraphs)}
           Place(g) == CHOOSE i \in Posted(p.paragraphs) : At1(i) = g
<1>1. r.posted = [g \in main \cup texts |-> IF g \in main THEN p.data[g] ELSE p.paragraphs[Place(g)].body]
  BY DEF FillDocument
<1>2. /\ DOMAIN r.posted = main \cup texts
      /\ \A g \in main : r.posted[g] = p.data[g]
      /\ \A g \in texts \ main : r.posted[g] = p.paragraphs[Place(g)].body
  BY <1>1
<1>3. \A g \in texts : Place(g) \in Posted(p.paragraphs) /\ At1(Place(g)) = g
  OBVIOUS
<1>4. PICK S : p.paragraphs \in Seq(S)
  BY DEF ParagraphsFit
<1>5. DOMAIN p.paragraphs = 1 .. Len(p.paragraphs) /\ Len(p.paragraphs) \in Nat
  BY <1>4
<1>6. \A i \in 1 .. Len(p.paragraphs) :
          ParagraphFits(c, p.paragraphs[i], p.touched, old, At1(i))
  BY DEF ParagraphsFit
<1>7. \A i \in 1 .. Len(p.paragraphs) : i \in Posted(p.paragraphs) <=> ~ p.paragraphs[i].deleted
  BY <1>5 DEF Posted
<1>8. Posted(p.paragraphs) \subseteq 1 .. Len(p.paragraphs)
  BY <1>5 DEF Posted
<1>9. /\ Plain(form.kind) \subseteq main /\ \A g \in Plain(form.kind) : g # Status
      /\ \A g \in main : g \notin Texts(form.kind)
      /\ Unread(form.kind) = {}
  BY DocumentFields
<1>10. form.kind # "mercator2015"
  BY DEF HasParagraphs
<1> HIDE DEF main, texts, Place
<1>11. p.emptied = {} /\ r.emptied \subseteq r.live /\ r.emptied = {}
  BY <1>10 DEF DataFits
<1>12. ASSUME NEW g \in Plain(form.kind)
       PROVE  /\ g \in DOMAIN r.posted
              /\ g \in r.entered \ {Status} => r.posted[g] = c
              /\ g \notin r.live \cup GarbledIn(form) => r.posted[g] = old[g]
  BY <1>2, <1>9, <1>10, <1>11 DEF DataFits, Forgotten
<1>13. ASSUME NEW g \in Texts(form.kind)
       PROVE  /\ g \in r.entered /\ g \in DOMAIN r.posted => r.posted[g] \in {c, Empty}
              /\ g \notin r.live => (IF g \in DOMAIN r.posted THEN r.posted[g] ELSE Empty) = old[g]
  <2>1. g \notin main
    BY <1>9
  <2>2. CASE g \in texts
    <3> DEFINE i == Place(g)
    <3>1. i \in 1 .. Len(p.paragraphs) /\ ~ p.paragraphs[i].deleted /\ At1(i) = g
      BY <1>3, <1>7, <1>8, <2>2
    <3>2. r.posted[g] = p.paragraphs[i].body /\ g \in DOMAIN r.posted
      BY <1>2, <2>1, <2>2
    <3> HIDE DEF i
    <3> QED
      BY <1>6, <3>1, <3>2 DEF ParagraphFits
  <2>3. CASE g \notin texts
    <3>1. g \notin DOMAIN r.posted
      BY <1>2, <2>1, <2>3
    <3>2. ASSUME g \notin r.live, old[g] # Empty
          PROVE  FALSE
      <4>1. PICK q \in Range(Paragraphs) : g = Text(q)
        BY DEF Texts
      <4>2. PICK i \in 1 .. Len(StoredParagraphs(old)) : ParagraphAt(i, old) = q
        BY <3>2, <4>1, PlacesOfParagraphs
      <4>3. i \in 1 .. Len(p.paragraphs) /\ At1(i) = g
        <5>1. Len(StoredParagraphs(old)) \in Nat
          BY PlacesOfParagraphs
        <5>2. Len(StoredParagraphs(old)) <= Len(p.paragraphs)
          BY DEF ParagraphsFit
        <5> QED
          BY <1>5, <4>1, <4>2, <5>1, <5>2
      <4>4. ~ p.paragraphs[i].deleted
        BY <1>6, <3>2, <4>3 DEF ParagraphFits
      <4>5. At1(i) \in texts
        BY <1>7, <4>3, <4>4 DEF texts
      <4> QED
        BY <2>3, <4>3, <4>5
    <3> QED
      BY <3>1, <3>2
  <2> QED
    BY <2>2, <2>3
<1> QED
  BY <1>10, <1>11, <1>12, <1>13 DEF PostFits

\* The fields of the other forms.
LEMMA FormPosts ==
    ASSUME ~ HasParagraphs(form.kind), NEW c, NEW p, NEW old, DataFits(form, c, p, old),
           NEW r, r.posted = Fill(Kind, p.data),
           r.entered = p.touched, r.emptied = p.emptied, r.live = p.touched \cup p.emptied
    PROVE  PostFits(form, c, r, old)
<1> DEFINE lost == Discards(form, p.data)
<1>1. r.posted = [g \in DOMAIN p.data \ lost |-> p.data[g]]
  BY DEF Fill, Discards, Kind
<1>2. \A g \in lost : g # Status
  BY DiscardsAre
<1>3. form.kind # "mercator2015" => lost = {}
  BY DEF Discards
<1> HIDE DEF lost
<1>4. /\ DOMAIN r.posted = DOMAIN p.data \ lost
      /\ \A g \in DOMAIN p.data \ lost : r.posted[g] = p.data[g]
  BY <1>1
<1>5. form.kind = "mercator2015" =>
          Status \in DOMAIN r.posted /\ r.posted[Status] = p.data[Status]
  BY <1>2, <1>4 DEF DataFits
<1>6. \A g \in lost : g \in Discards(form, r.posted)
  <2>1. CASE form.kind # "mercator2015"
    BY <1>3, <2>1
  <2>2. CASE form.kind = "mercator2015"
    BY <1>5, <2>2, DiscardsAre DEF lost
  <2> QED
    BY <2>1, <2>2
<1>7. ASSUME NEW g \in Plain(form.kind)
      PROVE  /\ g \in r.entered \ {Status} =>
                    IF g \in DOMAIN r.posted THEN r.posted[g] = c
                                             ELSE g \in r.emptied \cup Discards(form, r.posted)
             /\ g \notin r.live \cup GarbledIn(form) =>
                    IF g \in DOMAIN r.posted THEN r.posted[g] = old[g]
                                             ELSE g \in Forgotten(form) \cup Discards(form, r.posted)
  BY <1>4, <1>6 DEF DataFits
<1>8. r.emptied \subseteq r.live /\ (form.kind # "mercator2015" => r.emptied = {})
  BY DEF DataFits
<1> QED
  BY <1>5, <1>7, <1>8 DEF PostFits, Texts

\* What the server stores of it.
LEMMA ContentFits ==
    ASSUME FormOk, NEW c, NEW r, NEW old, PostFits(form, c, r, old)
    PROVE  LET new == Stored(c, r)
           IN  \A g \in Fields(form.kind) \ Discards(form, new.content) :
                 /\ g \in new.entered \ {Status} =>
                      \/ new.content[g] = new.by
                      \/ g[2] = "text" /\ new.content[g] = Empty
                      \/ g \in new.emptied /\ new.content[g] = Empty
                 /\ g \notin new.live \cup GarbledIn(form) =>
                      \/ new.content[g] = old[g]
                      \/ /\ form.kind = "mercator2016" /\ ~ form.create
                         /\ new.content[g] = versions[LAST].content[g]
<1> DEFINE content == IF Versioned \/ form.create THEN NewContent(Kind, r.posted)
                      ELSE PutContent(Kind, versions[LAST].content, r.posted)
           new == Stored(c, r)
<1>1. /\ new.content = content /\ new.by = c /\ new.entered = r.entered
      /\ new.emptied = r.emptied /\ new.live = r.live
  BY DEF Stored
<1>2. \A g \in Fields(form.kind) : g \in DOMAIN r.posted => content[g] = r.posted[g]
  BY DEF NewContent, PutContent, Kind
<1>3. \A g \in Fields(form.kind) : g \notin DOMAIN r.posted =>
          IF form.kind = "mercator2016" /\ ~ form.create
          THEN content[g] = versions[LAST].content[g] ELSE content[g] = Empty
  BY DEF NewContent, PutContent, Kind, Versioned
<1> HIDE DEF content, new
<1>4. \A g : g \in Discards(form, content) <=> g \in Discards(form, r.posted)
  <2>1. CASE form.kind # "mercator2015"
    BY <2>1 DEF Discards
  <2>2. CASE form.kind = "mercator2015"
    <3>1. content[Status] = r.posted[Status]
      BY <1>2, <2>2, StatusIsField DEF PostFits
    <3> QED
      BY <3>1, DiscardsAre
  <2> QED
    BY <2>1, <2>2
<1>5. ASSUME NEW g \in Fields(form.kind), g \notin Discards(form, content)
      PROVE  /\ g \in r.entered \ {Status} =>
                      \/ content[g] = c
                      \/ g[2] = "text" /\ content[g] = Empty
                      \/ g \in r.emptied /\ content[g] = Empty
             /\ g \notin r.live \cup GarbledIn(form) =>
                      \/ content[g] = old[g]
                      \/ /\ form.kind = "mercator2016" /\ ~ form.create
                         /\ content[g] = versions[LAST].content[g]
  <2>1. CASE g \in Plain(form.kind)
    <3>1. CASE g \in DOMAIN r.posted
      BY <1>2, <2>1, <3>1 DEF PostFits
    <3>2. CASE g \notin DOMAIN r.posted
      <4>1. g \notin Discards(form, r.posted)
        BY <1>4, <1>5
      <4>2. g \in r.entered \ {Status} => g \in r.emptied /\ form.kind = "mercator2015"
        BY <2>1, <3>2, <4>1 DEF PostFits
      <4>3. g \notin r.live \cup GarbledIn(form) => g \in Forgotten(form)
        BY <2>1, <3>2, <4>1 DEF PostFits
      <4>4. g \in Forgotten(form) => form.kind = "mercator2016" /\ ~ form.create
        BY DEF Forgotten, Unread
      <4> QED
        BY <1>3, <3>2, <4>2, <4>3, <4>4
    <3> QED
      BY <3>1, <3>2
  <2>2. CASE g \in Texts(form.kind)
    <3>1. g[2] = "text" /\ form.kind # "mercator2016"
      BY <2>2 DEF Texts, Text, HasParagraphs
    <3>2. content[g] = IF g \in DOMAIN r.posted THEN r.posted[g] ELSE Empty
      BY <1>2, <1>3, <3>1
    <3> QED
      BY <2>2, <3>1, <3>2 DEF PostFits
  <2> QED
    BY <2>1, <2>2 DEF Plain
<1> QED
  BY <1>1, <1>5 DEF new

--------------------------------------------------------------------------------
(* What one client does, when no version is stored.                             *)

\* The others are as they were.
LEMMA ClientStep ==
    ASSUME ConflictInv, StoresInv, UNCHANGED <<form, versions>>, NEW c \in Clients, NEW page, NEW js,
           pages' = [pages EXCEPT ![c] = page], jobs' = [jobs EXCEPT ![c] = js],
           ClientFits(form, versions, c, page, js),
           seen' = seen \/ \E v \in Nat \ {0} : seen' = [seen EXCEPT ![c] = v]
    PROVE  StoresInv'
<1>1. seen' = [d \in Clients |-> seen'[d]] /\ \A d \in Clients : seen'[d] \in Nat \ {0}
  <2>1. CASE seen' = seen
    BY <2>1 DEF StoresInv
  <2>2. CASE \E v \in Nat \ {0} : seen' = [seen EXCEPT ![c] = v]
    <3>1. PICK v \in Nat \ {0} : seen' = [seen EXCEPT ![c] = v]
      BY <2>2
    <3> QED
      BY <3>1 DEF StoresInv
  <2> QED
    BY <2>1, <2>2
<1>2. ASSUME NEW d \in Clients
      PROVE  ClientFits(form, versions, d, pages'[d], jobs'[d])
  <2>1. DOMAIN pages = Clients /\ DOMAIN jobs = Clients
    BY DEF ConflictInv
  <2>2. CASE d = c
    BY <2>1, <2>2
  <2>3. CASE d # c
    <3>1. pages'[d] = pages[d] /\ jobs'[d] = jobs[d]
      BY <2>1, <2>3
    <3> QED
      BY <3>1 DEF StoresInv
  <2> QED
    BY <2>2, <2>3
<1>3. ASSUME NEW d \in Clients
      PROVE  ClientFits(form, versions, d, pages[d], jobs[d])'
  <2>1. ClientFits(form, versions, d, pages'[d], jobs'[d])
    BY <1>2
  <2>2. form' = form /\ versions' = versions
    OBVIOUS
  <2> QED
    BY <2>1, <2>2
<1>4. \A v \in DOMAIN versions' : versions'[v].by \in Clients => VersionFits(form, versions, v)'
  BY DEF StoresInv
<1>5. (form.create \/ LAST >= 1)'
  BY DEF StoresInv, LAST
<1> QED
  BY <1>1, <1>3, <1>4, <1>5 DEF StoresInv

\* A page with the same contents fits as well.
LEMMA SamePageFits ==
    ASSUME NEW c, NEW p, PageFits(form, versions, c, p), NEW q,
           q.base = p.base, q.data = p.data, q.paragraphs = p.paragraphs,
           q.touched = p.touched, q.emptied = p.emptied
    PROVE  PageFits(form, versions, c, q)
BY DEF PageFits, DataFits, ParagraphsFit

\* A page that is cleaned.
LEMMA CleanedPageFits ==
    ASSUME NEW c, NEW p, PageFits(form, versions, c, p), IsPage(p)
    PROVE  /\ PageFits(form, versions, c, Cleaned(p))
           /\ Cleaned(p).base = p.base /\ Cleaned(p).touched = p.touched
<1> DEFINE fields == IF Kind = "mercator2015"
                     THEN CleanOrganizationInfo(p.data) \cap DOMAIN p.data ELSE {}
           x == Fill(Kind, p.data)
           y == p.emptied \cup fields
           q == Cleaned(p)
           old == OldContent(form, versions, p.base)
<1>1. q = [p EXCEPT !.data = x, !.emptied = y]
  BY DEF Cleaned
<1>2. DataFits(form, c, p, old)
  BY DEF PageFits
<1> HIDE DEF old
<1>3. DataFits(form, c, q, old)
  BY <1>2, CleanFits
<1> HIDE DEF x, y, q
<1>4. q.base = p.base /\ q.touched = p.touched /\ q.paragraphs = p.paragraphs
  BY <1>1 DEF IsPage, FormFields
<1>5. PageFits(form, versions, c, q)
  BY <1>3, <1>4 DEF PageFits, ParagraphsFit, old
<1> QED
  BY <1>4, <1>5 DEF q

\* A job that stores the same, from the same form, fits as well.
LEMMA SameJobFits ==
    ASSUME NEW c, NEW r, NEW p, JobFits(form, versions, c, r, p), NEW new,
           new.posted = r.posted, new.entered = r.entered, new.emptied = r.emptied,
           new.live = r.live, new.left = r.left, new.base = r.base
    PROVE  JobFits(form, versions, c, new, p)
BY DEF JobFits, PostFits, ScopeOf

\* Or from that form with more that was touched.
LEMMA OtherScopeFits ==
    ASSUME NEW c, NEW r, NEW p, JobFits(form, versions, c, r, p), NEW q,
           PageFits(form, versions, c, q), q.base = p.base, p.touched \subseteq q.touched
    PROVE  JobFits(form, versions, c, r, q)
BY DEF JobFits, ScopeOf

\* A job that has read the form again.
LEMMA ReadAgainFits ==
    ASSUME ~ HasParagraphs(form.kind), NEW c, NEW r, NEW p, JobFits(form, versions, c, r, p), IsJob(r),
           NEW page, page = ScopeOf(r, p) \/ (page = Cleaned(ScopeOf(r, p)) /\ IsPage(ScopeOf(r, p))),
           NEW fields,
           OrganizationParts \subseteq fields \/ OrganizationParts \cap fields = {}
    PROVE  JobFits(form, versions, c, ReadAgain(page, r, fields), p)
<1> DEFINE read == DOMAIN page.data \cap fields
           kept == DOMAIN r.posted \ fields
           x == [f \in read \cup kept |-> IF f \in read THEN page.data[f] ELSE r.posted[f]]
           y == r.emptied \cup page.emptied
           z == r.live \cup page.touched \cup page.emptied
           new == ReadAgain(page, r, fields)
           old == OldContent(form, versions, r.base)
<1>1. new = [r EXCEPT !.posted = x, !.emptied = y, !.live = z]
  BY DEF ReadAgain
<1>2. /\ DOMAIN x = (DOMAIN page.data \cap fields) \cup (DOMAIN r.posted \ fields)
      /\ \A g \in DOMAIN page.data \cap fields : x[g] = page.data[g]
      /\ \A g \in DOMAIN r.posted \ fields : x[g] = r.posted[g]
  OBVIOUS
<1> HIDE DEF x, y, z, new
<1>3. /\ new.posted = x /\ new.emptied = y /\ new.live = z
      /\ new.entered = r.entered /\ new.left = r.left /\ new.base = r.base
  BY <1>1 DEF IsJob, JobFields
<1>4. PageFits(form, versions, c, page) /\ page.base = r.base /\ r.entered \subseteq page.touched
  <2>1. /\ PageFits(form, versions, c, ScopeOf(r, p))
        /\ ScopeOf(r, p).base = r.base /\ r.entered \subseteq ScopeOf(r, p).touched
    BY DEF JobFits
  <2>2. CASE page = ScopeOf(r, p)
    BY <2>1, <2>2
  <2>3. CASE page = Cleaned(ScopeOf(r, p)) /\ IsPage(ScopeOf(r, p))
    BY <2>1, <2>3, CleanedPageFits
  <2> QED
    BY <2>2, <2>3
<1>5. DataFits(form, c, page, old) /\ PostFits(form, c, r, old)
  BY <1>4 DEF PageFits, JobFits
<1> HIDE DEF old
<1>6. PostFits(form, c, new, old)
  BY <1>2, <1>3, <1>4, <1>5, ReadFits DEF y, z
<1>7. JobFits(form, versions, c, new, p)
  BY <1>3, <1>6 DEF JobFits, ScopeOf, old
<1> QED
  BY <1>7 DEF new

\* Some jobs of a client become one.
LEMMA BecomesFits ==
    ASSUME ConflictInv, StoresInv, NEW c \in Clients, NEW js, NEW job, Become(c, js, job),
           NEW page, pages' = [pages EXCEPT ![c] = page],
           \/ page = pages[c]
           \/ /\ PageFits(form, versions, c, page)
              /\ page.base = pages[c].base /\ page.touched = pages[c].touched,
           JobFits(form, versions, c, job, page)
    PROVE  StoresInv'
<1> DEFINE new == [i \in Slots |-> IF i \in js THEN job ELSE jobs[c][i]]
<1>1. jobs' = [jobs EXCEPT ![c] = new] /\ UNCHANGED <<form, versions, seen>>
  BY DEF Become, ConflictInv
<1>2. ClientFits(form, versions, c, pages[c], jobs[c])
  BY DEF StoresInv
<1>3. \A j \in Slots : new[j] = job \/ new[j] = jobs[c][j]
  OBVIOUS
<1> HIDE DEF new
<1>4. ASSUME NEW j \in Slots, jobs[c][j] # None
      PROVE  JobFits(form, versions, c, jobs[c][j], page)
  <2>1. JobFits(form, versions, c, jobs[c][j], pages[c])
    BY <1>2, <1>4 DEF ClientFits, Slots, SlotsOf
  <2>2. CASE page = pages[c]
    BY <2>1, <2>2
  <2>3. CASE /\ PageFits(form, versions, c, page)
             /\ page.base = pages[c].base /\ page.touched = pages[c].touched
    BY <2>1, <2>3, OtherScopeFits
  <2> QED
    BY <2>2, <2>3
<1>5. page.at = "open" => PageFits(form, versions, c, page)
  BY <1>2 DEF ClientFits
<1>6. \A j \in Slots : new[j] # None => JobFits(form, versions, c, new[j], page)
  BY <1>3, <1>4
<1>7. ClientFits(form, versions, c, page, new)
  BY <1>5, <1>6 DEF ClientFits, Slots, SlotsOf
<1> QED
  BY <1>1, <1>7, ClientStep

\* Jobs go on, and the page is as it was.
LEMMA GoesOnFits ==
    ASSUME ConflictInv, StoresInv, NEW c \in Clients, NEW js, NEW job,
           Become(c, js, job), UNCHANGED pages, JobFits(form, versions, c, job, pages[c])
    PROVE  StoresInv'
<1>1. pages' = [pages EXCEPT ![c] = pages[c]]
  BY DEF ConflictInv
<1> QED
  BY <1>1, BecomesFits

\* Or the form is cleaned.
LEMMA CleaningFits ==
    ASSUME ConflictInv, StoresInv, NEW c \in Clients, NEW js, NEW job, Cleans(c, js, job),
           IsJob(job), JobFits(form, versions, c, job, pages[c]),
           job.left = None => IsOpen(c), job.left # None => IsPage(job.left)
    PROVE  StoresInv'
<1>1. CASE job.left = None
  <2> DEFINE page == Cleaned(pages[c])
  <2>1. Become(c, js, job) /\ pages' = [pages EXCEPT ![c] = page]
    BY <1>1 DEF Cleans
  <2>2. IsPage(pages[c])
    BY <1>1, OpenIsPage
  <2>3. PageFits(form, versions, c, pages[c])
    BY <1>1 DEF JobFits, ScopeOf
  <2>4. PageFits(form, versions, c, page) /\ page.base = pages[c].base /\ page.touched = pages[c].touched
    BY <2>2, <2>3, CleanedPageFits
  <2> HIDE DEF page
  <2>5. JobFits(form, versions, c, job, page)
    BY <2>4, OtherScopeFits
  <2> QED
    BY <2>1, <2>4, <2>5, BecomesFits
<1>2. CASE job.left # None
  <2> DEFINE x == Cleaned(job.left)
             last == [job EXCEPT !.left = x]
  <2>1. Become(c, js, last) /\ UNCHANGED pages
    BY <1>2 DEF Cleans
  <2>2. PageFits(form, versions, c, job.left) /\ IsPage(job.left)
        /\ job.left.base = job.base /\ job.entered \subseteq job.left.touched
        /\ PostFits(form, c, job, OldContent(form, versions, job.base))
    BY <1>2 DEF JobFits, ScopeOf
  <2>3. PageFits(form, versions, c, x) /\ x.base = job.base /\ job.entered \subseteq x.touched
    BY <2>2, CleanedPageFits
  <2>4. IsPage(x)
    BY <2>2, CleanedIsPage
  <2>5. x # None
    BY <2>4 DEF IsPage, None
  <2> HIDE DEF x
  <2>6. /\ last.left = x /\ last.base = job.base /\ last.posted = job.posted
        /\ last.entered = job.entered /\ last.emptied = job.emptied /\ last.live = job.live
    BY DEF IsJob, JobFields
  <2> HIDE DEF last
  <2>7. JobFits(form, versions, c, last, pages[c])
    BY <2>2, <2>3, <2>5, <2>6 DEF JobFits, PostFits, ScopeOf
  <2> QED
    BY <2>1, <2>7, GoesOnFits
<1> QED
  BY <1>1, <1>2

\* At the start nothing is open, and the first version has no user.
LEMMA StoresStarts == EditingInit \/ EditingIdle => StoresInv
<1> SUFFICES ASSUME EditingInit \/ EditingIdle
             PROVE  StoresInv
  OBVIOUS
<1>1. seen = [c \in Clients |-> 1]
  BY DEF EditingInit, EditingIdle
<1>2. \/ form.create /\ versions = <<>>
      \/ ~ form.create /\ \E e : versions = <<e>> /\ e.by = Written
  <2>1. CASE EditingInit
    <3> DEFINE e == [content |-> FirstContent(Kind), base |-> 0, by |-> Written,
                     entered |-> {}, emptied |-> {}, live |-> {}]
    <3>1. e.by = Written
      OBVIOUS
    <3>2. form.create \in BOOLEAN /\ versions = IF form.create THEN <<>> ELSE <<e>>
      BY <2>1 DEF EditingInit
    <3> HIDE DEF e
    <3> QED
      BY <3>1, <3>2
  <2>2. CASE EditingIdle
    BY <2>2 DEF EditingIdle
  <2> QED
    BY <2>1, <2>2
<1>3. form.create \/ LAST >= 1
  <2>1. CASE \E e : versions = <<e>>
    <3>1. LAST = 1
      BY <2>1 DEF LAST
    <3> QED
      BY <3>1
  <2> QED
    BY <1>2, <2>1
<1>4. \A v \in DOMAIN versions : versions[v].by \notin Clients
  <2>1. CASE versions = <<>>
    <3>1. DOMAIN versions = {}
      BY <2>1
    <3> QED
      BY <3>1
  <2>2. CASE \E e : versions = <<e>> /\ e.by = Written
    <3>1. PICK e : versions = <<e>> /\ e.by = Written
      BY <2>2
    <3>2. DOMAIN versions = {1} /\ versions[1] = e
      BY <3>1
    <3> QED
      BY <3>1, <3>2, BoundsAssumption
  <2> QED
    BY <1>2, <2>1, <2>2
<1>5. ASSUME NEW c \in Clients
      PROVE  ClientFits(form, versions, c, pages[c], jobs[c])
  <2>0. \/ pages = [d \in Clients |-> Unopened]
        \/ pages = [d \in Clients |-> Closed]
    BY DEF EditingInit, EditingIdle
  <2>a. jobs = [d \in Clients |-> [j \in SlotsOf(form) |-> None]]
    BY DEF EditingInit, EditingIdle, Slots, SlotsOf
  <2>1. (pages[c] = Unopened \/ pages[c] = Closed) /\ \A j \in SlotsOf(form) : jobs[c][j] = None
    BY <2>0, <2>a
  <2>2. pages[c].at # "open"
    BY <2>1 DEF Unopened, Closed
  <2> QED
    BY <2>1, <2>2 DEF ClientFits
<1>6. \A c \in Clients : seen[c] \in Nat \ {0}
  BY <1>1
<1>7. seen = [c \in Clients |-> seen[c]]
  BY <1>1
<1> QED
  BY <1>3, <1>4, <1>5, <1>6, <1>7 DEF StoresInv

\* The form changes and keeps what was touched.
LEMMA PageChangeFits ==
    ASSUME ConflictInv, StoresInv, UNCHANGED <<form, versions, jobs>>, NEW c \in Clients,
           NEW page, pages' = [pages EXCEPT ![c] = page],
           seen' = seen \/ \E v \in Nat \ {0} : seen' = [seen EXCEPT ![c] = v],
           PageFits(form, versions, c, page),
           \/ pages[c] = Unopened
           \/ page.base = pages[c].base /\ pages[c].touched \subseteq page.touched
    PROVE  StoresInv'
<1>1. jobs' = [jobs EXCEPT ![c] = jobs[c]]
  BY DEF ConflictInv
<1>2. ClientFits(form, versions, c, pages[c], jobs[c]) /\ ClientOk(form, pages[c], jobs[c], HasStored(c))
  BY DEF StoresInv, ConflictInv
<1>3. ASSUME NEW j \in SlotsOf(form), jobs[c][j] # None
      PROVE  JobFits(form, versions, c, jobs[c][j], page)
  <2>1. pages[c] # Unopened
    BY <1>2, <1>3 DEF ClientOk, PageOk
  <2>2. JobFits(form, versions, c, jobs[c][j], pages[c])
    BY <1>2, <1>3 DEF ClientFits
  <2> QED
    BY <2>1, <2>2, OtherScopeFits
<1>4. ClientFits(form, versions, c, page, jobs[c])
  BY <1>3 DEF ClientFits
<1> QED
  BY <1>1, <1>4, ClientStep

\* A form that was just opened.
LEMMA OpenedFits ==
    ASSUME NEW c, NEW base, NEW data, NEW paragraphs, BaseFits(form, versions, base),
           NEW old, old = OldContent(form, versions, base),
           form.kind = "mercator2015" => Status \in DOMAIN data,
           \A g \in Plain(form.kind) \ GarbledIn(form) :
               IF g \in DOMAIN data THEN data[g] = old[g] ELSE g \in Forgotten(form),
           HasParagraphs(form.kind) =>
               /\ \E S : paragraphs \in Seq(S)
               /\ Len(StoredParagraphs(old)) <= Len(paragraphs) /\ Len(paragraphs) <= 4
               /\ \A i \in 1 .. Len(paragraphs) :
                      /\ IsParagraph(paragraphs[i]) /\ ~ paragraphs[i].deleted
                      /\ paragraphs[i].body = old[Text(ParagraphAt(i, old))]
    PROVE  PageFits(form, versions, c, Page(base, data, paragraphs))
<1> DEFINE p == Page(base, data, paragraphs)
<1>1. /\ p.base = base /\ p.data = data /\ p.paragraphs = paragraphs
      /\ p.touched = {} /\ p.emptied = {}
  BY DEF Page
<1> HIDE DEF p
<1>2. DataFits(form, c, p, old)
  BY <1>1 DEF DataFits
<1>3. HasParagraphs(form.kind) => ParagraphsFit(c, p, old)
  BY <1>1 DEF ParagraphsFit, ParagraphFits
<1>4. PageFits(form, versions, c, p)
  BY <1>1, <1>2, <1>3 DEF PageFits
<1> QED
  BY <1>4 DEF p

\* A form that creates.
LEMMA BlankFits ==
    ASSUME NEW c, form.create
    PROVE  PageFits(form, versions, c,
                    Page(0, Blank, IF HasParagraphs(Kind) THEN <<Untyped>> ELSE <<>>))
<1> DEFINE old == OldContent(form, versions, 0)
           paragraphs == IF HasParagraphs(Kind) THEN <<Untyped>> ELSE <<>>
<1>1. old = Blank /\ Blank = [g \in Fields(form.kind) |-> Empty]
  BY DEF OldContent, Blank, Kind
<1>2. BaseFits(form, versions, 0)
  BY DEF BaseFits
<1>3. form.kind = "mercator2015" => Status \in DOMAIN Blank
  BY <1>1, StatusIsField
<1>4. \A g \in Plain(form.kind) : g \in DOMAIN Blank /\ Blank[g] = old[g]
  BY <1>1 DEF Plain
<1>5. ASSUME HasParagraphs(form.kind)
      PROVE  /\ \E S : paragraphs \in Seq(S)
             /\ Len(StoredParagraphs(old)) <= Len(paragraphs) /\ Len(paragraphs) <= 4
             /\ \A i \in 1 .. Len(paragraphs) :
                    /\ IsParagraph(paragraphs[i]) /\ ~ paragraphs[i].deleted
                    /\ paragraphs[i].body = old[Text(ParagraphAt(i, old))]
  <2>1. paragraphs = <<Untyped>>
    BY <1>5 DEF Kind
  <2>2. Len(paragraphs) = 1 /\ paragraphs[1] = Untyped /\ paragraphs \in Seq({Untyped})
    <3> HIDE DEF paragraphs
    <3>1. Untyped \in {Untyped}
      OBVIOUS
    <3>2. <<Untyped>> \in Seq({Untyped})
      BY <3>1
    <3> QED
      BY <2>1, <3>2
  <2>3. IsParagraph(Untyped) /\ ~ Untyped.deleted /\ Untyped.body = Empty
    BY DEF IsParagraph, Untyped
  <2>4. \A q \in Range(Paragraphs) : Text(q) \in Fields(form.kind)
    BY <1>5, DocumentFields
  <2>5. \A q \in Range(Paragraphs) : old[Text(q)] = Empty
    BY <1>1, <2>4
  <2> HIDE DEF old, paragraphs
  <2>6. Len(StoredParagraphs(old)) = 0
    <3> DEFINE chosen == {p \in Range(Paragraphs) : old[Text(p)] # Empty}
               s == StoredParagraphs(old)
    <3>1. s = InOrder(chosen)
      BY DEF StoredParagraphs
    <3>2. chosen = {}
      BY <2>5
    <3>3. \A x : x \notin chosen
      BY <3>2
    <3> HIDE DEF chosen
    <3>4. Lists(s, Range(Paragraphs) \cap chosen) /\ Len(s) \in 0 .. 4
      BY <3>1, InOrderLists, PlacesOfParagraphs
    <3> HIDE DEF s
    <3>5. \A i \in 1 .. Len(s) : s[i] \in Range(Paragraphs) \cap chosen
      BY <3>4 DEF Lists
    <3>6. \A i \in 1 .. Len(s) : FALSE
      BY <3>3, <3>5
    <3> QED
      BY <3>4, <3>6 DEF s
  <2>7. ParagraphAt(1, old) \in Range(Paragraphs)
    BY PlacesOfParagraphs
  <2> QED
    BY <2>2, <2>3, <2>5, <2>6, <2>7
<1> HIDE DEF old, paragraphs
<1>6. PageFits(form, versions, c, Page(0, Blank, paragraphs))
  BY <1>2, <1>3, <1>4, <1>5, OpenedFits DEF old
<1> QED
  BY <1>6 DEF paragraphs

\* A form that shows a version.
LEMMA ShownFits ==
    ASSUME NEW c, ~ form.create, NEW v \in 1 .. LAST
    PROVE  PageFits(form, versions, c, Page(v, Read(Kind, versions[v].content),
                                            ShownParagraphs(Kind, versions[v].content)))
<1> DEFINE old == OldContent(form, versions, v)
           content == versions[v].content
           data == Read(Kind, content)
           paragraphs == ShownParagraphs(Kind, content)
<1>1. old = content
  BY DEF OldContent
<1>2. BaseFits(form, versions, v)
  BY DEF BaseFits, LAST
<1>3. /\ DOMAIN data = Fields(form.kind) \ Unread(form.kind)
      /\ \A g \in DOMAIN data : g \notin GarbledIn(form) => data[g] = content[g]
  BY DEF Read, Kind, GarbledIn
<1>4. Forgotten(form) = Unread(form.kind)
  BY DEF Forgotten
<1>5. Plain(form.kind) \subseteq Fields(form.kind)
  BY DEF Plain
<1>6. ASSUME HasParagraphs(form.kind)
      PROVE  /\ \E S : paragraphs \in Seq(S)
             /\ Len(StoredParagraphs(old)) <= Len(paragraphs) /\ Len(paragraphs) <= 4
             /\ \A i \in 1 .. Len(paragraphs) :
                    /\ IsParagraph(paragraphs[i]) /\ ~ paragraphs[i].deleted
                    /\ paragraphs[i].body = old[Text(ParagraphAt(i, old))]
  <2> DEFINE s == StoredParagraphs(old)
             Entry(i) == [body |-> old[Text(s[i])], deleted |-> FALSE]
             n == Len(s)
  <2>1. paragraphs = [i \in DOMAIN s |-> Entry(i)]
    BY <1>1, <1>6 DEF ShownParagraphs, Kind
  <2>2. s \in Seq(Range(Paragraphs))
    BY InOrderLists DEF StoredParagraphs
  <2>3. DOMAIN s = 1 .. n /\ n \in 0 .. 4
    BY <2>2, PlacesOfParagraphs
  <2>4. \A i \in 1 .. n : s[i] = ParagraphAt(i, old)
    BY PlacesOfParagraphs
  <2>5. \A i : IsParagraph(Entry(i)) /\ ~ Entry(i).deleted /\ Entry(i).body = old[Text(s[i])]
    BY DEF IsParagraph
  <2> HIDE DEF s, old, paragraphs, n
  <2>6. paragraphs = [i \in 1 .. n |-> Entry(i)]
    BY <2>1, <2>3
  <2>7. paragraphs \in Seq({Entry(i) : i \in 1 .. n}) /\ Len(paragraphs) = n
        /\ \A i \in 1 .. n : paragraphs[i] = Entry(i)
    <3> DEFINE T == {Entry(i) : i \in 1 .. n}
    <3>1. \A i \in 1 .. n : Entry(i) \in T
      OBVIOUS
    <3> HIDE DEF Entry, T
    <3>2. paragraphs \in [1 .. n -> T] /\ n \in Nat
      BY <2>3, <2>6, <3>1
    <3>3. paragraphs \in Seq(T) /\ Len(paragraphs) = n
      BY <3>2
    <3> QED
      BY <2>6, <3>3 DEF T
  <2> HIDE DEF Entry
  <2>8. Len(StoredParagraphs(old)) = n
    BY DEF n, s
  <2> QED
    BY <2>3, <2>4, <2>5, <2>7, <2>8
<1> HIDE DEF old, data, paragraphs, content
<1>7. form.kind = "mercator2015" => Status \in DOMAIN data
  BY <1>3, StatusIsField
<1>8. \A g \in Plain(form.kind) \ GarbledIn(form) :
          IF g \in DOMAIN data THEN data[g] = old[g] ELSE g \in Forgotten(form)
  BY <1>1, <1>3, <1>4, <1>5
<1>9. PageFits(form, versions, c, Page(v, data, paragraphs))
  BY <1>2, <1>6, <1>7, <1>8, OpenedFits DEF old
<1> QED
  BY <1>9 DEF data, paragraphs, content

\* Opening a form.
LEMMA OpenFits ==
    ASSUME ConflictInv, StoresInv, NEW c \in Clients, Open(c)
    PROVE  StoresInv'
<1>1. UNCHANGED <<form, versions, jobs>> /\ pages[c] = Unopened
  BY DEF Open
<1>2. CASE form.create
  <2> DEFINE page == Page(0, Blank, IF HasParagraphs(Kind) THEN <<Untyped>> ELSE <<>>)
  <2>1. pages' = [pages EXCEPT ![c] = page] /\ seen' = seen
    BY <1>2 DEF Open
  <2>2. PageFits(form, versions, c, page)
    BY <1>2, BlankFits
  <2> HIDE DEF page
  <2> QED
    BY <1>1, <2>1, <2>2, PageChangeFits
<1>3. CASE ~ form.create
  <2>1. PICK v \in seen[c] .. LAST :
            /\ pages' = [pages EXCEPT ![c] = Page(v, Read(Kind, versions[v].content),
                                                  ShownParagraphs(Kind, versions[v].content))]
            /\ seen' = [seen EXCEPT ![c] = v]
    BY <1>3 DEF Open
  <2> DEFINE page == Page(v, Read(Kind, versions[v].content),
                          ShownParagraphs(Kind, versions[v].content))
  <2>2. seen[c] \in Nat \ {0}
    BY DEF StoresInv
  <2>3. v \in 1 .. LAST
    BY <2>1, <2>2
  <2>4. v \in Nat \ {0} /\ PageFits(form, versions, c, page)
    BY <1>3, <2>3, ShownFits
  <2>5. pages' = [pages EXCEPT ![c] = page] /\ seen' = [seen EXCEPT ![c] = v]
    BY <2>1
  <2> HIDE DEF page
  <2> QED
    BY <1>1, <2>4, <2>5, PageChangeFits
<1> QED
  BY <1>2, <1>3

\* What the form edits.
LEMMA OriginalIs ==
    ASSUME NEW page
    PROVE  Original(page) = OldContent(form, versions, page.base)
BY DEF Original, OldContent, Blank, Kind

\* What the user has entered.
LEMMA ChangedFits ==
    ASSUME ConflictInv, StoresInv, NEW c \in Clients, IsOpen(c), NEW page, NEW g, Changed(c, page, g),
           IsPage(page), page.base = pages[c].base, page.touched = pages[c].touched,
           LET old == OldContent(form, versions, page.base)
           IN  \A q : /\ q.data = page.data /\ q.paragraphs = page.paragraphs
                      /\ q.touched = page.touched \cup {g} /\ q.emptied = page.emptied
                      => /\ DataFits(form, c, q, old)
                         /\ HasParagraphs(form.kind) => ParagraphsFit(c, q, old)
    PROVE  StoresInv'
<1> DEFINE x == page.touched \cup {g}
           y == page.changes + 1
           q == [page EXCEPT !.touched = x, !.changes = y]
           old == OldContent(form, versions, page.base)
<1>1. pages' = [pages EXCEPT ![c] = q] /\ UNCHANGED <<form, versions, jobs, seen>>
  BY DEF Changed
<1>2. x = page.touched \cup {g}
  OBVIOUS
<1> HIDE DEF x, y
<1>3. /\ q.base = page.base /\ q.data = page.data /\ q.paragraphs = page.paragraphs
      /\ q.touched = x /\ q.emptied = page.emptied
  BY DEF IsPage, FormFields
<1>4. PageFits(form, versions, c, pages[c])
  BY DEF StoresInv, ClientFits, IsOpen
<1>5. DataFits(form, c, q, old) /\ (HasParagraphs(form.kind) => ParagraphsFit(c, q, old))
  BY <1>2, <1>3
<1>6. PageFits(form, versions, c, q)
  BY <1>3, <1>4, <1>5 DEF PageFits
<1>7. q.base = pages[c].base /\ pages[c].touched \subseteq q.touched
  BY <1>2, <1>3
<1> HIDE DEF q
<1> QED
  BY <1>1, <1>6, <1>7, PageChangeFits

\* The fields that a user may change are no paragraphs, and all but a status are
\* given the user's value.
LEMMA TouchableIs ==
    ASSUME FormOk, NEW g \in Touchable[Kind], NEW c, NEW value \in Values(c, g)
    PROVE  g \in Plain(form.kind) /\ (g # Status => value = c)
<1>1. form.kind \in Kinds
  BY DEF FormOk
<1>2. Touchable[form.kind] \subseteq Fields(form.kind) \ Texts(form.kind)
  BY <1>1, BoundsAssumption DEF Texts
<1> QED
  BY <1>2 DEF Plain, Kind, Values, Status

\* A field is changed.
LEMMA TouchKeepsFits ==
    ASSUME ConflictInv, StoresInv, NEW c \in Clients, Touch(c)
    PROVE  StoresInv'
<1>1. IsOpen(c)
  BY DEF Touch
<1>2. IsPage(pages[c])
  BY <1>1, OpenIsPage
<1>3. PICK g \in Touchable[Kind] : \E value \in Values(c, g) :
          Changed(c, [pages[c] EXCEPT !.data = [h \in {g} \cup DOMAIN @ |-> IF h = g THEN value ELSE @[h]]], g)
  BY DEF Touch
<1>4. PICK value \in Values(c, g) :
          Changed(c, [pages[c] EXCEPT !.data = [h \in {g} \cup DOMAIN @ |-> IF h = g THEN value ELSE @[h]]], g)
  BY <1>3
<1> DEFINE p == pages[c]
           data == [h \in {g} \cup DOMAIN p.data |-> IF h = g THEN value ELSE p.data[h]]
           page == [p EXCEPT !.data = data]
           old == OldContent(form, versions, p.base)
<1>5. Changed(c, page, g)
  BY <1>4
<1>6. g \in Plain(form.kind) /\ (g # Status => value = c)
  BY TouchableIs DEF ConflictInv
<1>7. PageFits(form, versions, c, p)
  BY <1>1 DEF StoresInv, ClientFits, IsOpen
<1>8. data = [h \in {g} \cup DOMAIN p.data |-> IF h = g THEN value ELSE p.data[h]]
  OBVIOUS
<1> HIDE DEF data
<1>9. /\ IsPage(page) /\ page.base = p.base /\ page.touched = p.touched /\ page.data = data
      /\ page.paragraphs = p.paragraphs /\ page.emptied = p.emptied
  BY <1>2 DEF IsPage, FormFields
<1>10. DataFits(form, c, p, old) /\ (HasParagraphs(form.kind) => ParagraphsFit(c, p, old))
  BY <1>7 DEF PageFits
<1>11. old = OldContent(form, versions, page.base)
  BY <1>9
<1> HIDE DEF page, old, p
<1>12. ASSUME NEW q, q.data = page.data, q.paragraphs = page.paragraphs,
              q.touched = page.touched \cup {g}, q.emptied = page.emptied
       PROVE  /\ DataFits(form, c, q, old)
              /\ HasParagraphs(form.kind) => ParagraphsFit(c, q, old)
  <2>1. /\ q.data = [h \in {g} \cup DOMAIN p.data |-> IF h = g THEN value ELSE p.data[h]]
        /\ q.touched = p.touched \cup {g} /\ q.emptied = p.emptied /\ q.paragraphs = p.paragraphs
    BY <1>8, <1>9, <1>12
  <2>2. DataFits(form, c, q, old)
    BY <1>6, <1>10, <2>1, TouchFits
  <2>3. ASSUME HasParagraphs(form.kind)
        PROVE  ParagraphsFit(c, q, old)
    <3>1. \A i \in 1 .. 4 : Text(ParagraphAt(i, old)) # g
      <4>1. \A i \in 1 .. 4 : ParagraphAt(i, old) \in Range(Paragraphs)
        BY PlacesOfParagraphs
      <4> QED
        BY <4>1, <1>6, <2>3 DEF Plain, Texts
    <3>2. ParagraphsFit(c, p, old)
      BY <1>10, <2>3
    <3>3. Len(p.paragraphs) \in Nat
      BY <3>2 DEF ParagraphsFit
    <3>4. \A i \in 1 .. Len(p.paragraphs) : Text(ParagraphAt(i, old)) # g
      BY <3>1, <3>2, <3>3 DEF ParagraphsFit
    <3> QED
      BY <2>1, <3>2, <3>4 DEF ParagraphsFit, ParagraphFits
  <2> QED
    BY <2>2, <2>3
<1> QED
  BY <1>1, <1>5, <1>9, <1>11, <1>12, ChangedFits DEF p

\* A paragraph is typed, deleted or added: the others are as they were.
LEMMA ParagraphChangeFits ==
    ASSUME NEW c, NEW p, NEW old, ParagraphsFit(c, p, old), NEW i \in 1 .. 4, NEW x,
           IsParagraph(x), x.deleted \/ x.body \in {c, Empty},
           NEW q, q.touched = p.touched \cup {Text(ParagraphAt(i, old))},
           \/ i <= Len(p.paragraphs) /\ q.paragraphs = [p.paragraphs EXCEPT ![i] = x]
           \/ i = Len(p.paragraphs) + 1 /\ q.paragraphs = Append(p.paragraphs, x)
    PROVE  ParagraphsFit(c, q, old)
<1>1. PICK S : p.paragraphs \in Seq(S)
  BY DEF ParagraphsFit
<1> DEFINE n == Len(p.paragraphs)
           T == S \cup {x}
<1>2. /\ n \in Nat /\ Len(StoredParagraphs(old)) <= n /\ n <= 4
      /\ \A k \in 1 .. n : /\ IsParagraph(p.paragraphs[k])
                           /\ ParagraphFits(c, p.paragraphs[k], p.touched, old, Text(ParagraphAt(k, old)))
  BY <1>1 DEF ParagraphsFit
<1>3. p.paragraphs \in Seq(T) /\ x \in T
  BY <1>1
<1> HIDE DEF T
<1>4. /\ q.paragraphs \in Seq(T) /\ n <= Len(q.paragraphs) /\ Len(q.paragraphs) <= 4
      /\ i \in 1 .. Len(q.paragraphs) /\ q.paragraphs[i] = x
      /\ \A k \in 1 .. Len(q.paragraphs) : k # i => k \in 1 .. n /\ q.paragraphs[k] = p.paragraphs[k]
  <2>1. CASE i <= n /\ q.paragraphs = [p.paragraphs EXCEPT ![i] = x]
    BY <1>2, <1>3, <2>1
  <2>2. CASE i = n + 1 /\ q.paragraphs = Append(p.paragraphs, x)
    BY <1>2, <1>3, <2>2
  <2> QED
    BY <2>1, <2>2
<1>5. Len(StoredParagraphs(old)) <= Len(q.paragraphs)
  <2>1. Len(StoredParagraphs(old)) \in 0 .. 4 /\ Len(q.paragraphs) \in Nat
    BY <1>4, PlacesOfParagraphs
  <2> QED
    BY <1>2, <1>4, <2>1
<1>6. ASSUME NEW k \in 1 .. Len(q.paragraphs)
      PROVE  /\ IsParagraph(q.paragraphs[k])
             /\ ParagraphFits(c, q.paragraphs[k], q.touched, old, Text(ParagraphAt(k, old)))
  <2>1. CASE k = i
    BY <1>4, <2>1 DEF ParagraphFits
  <2>2. CASE k # i
    <3>1. k \in 1 .. n /\ q.paragraphs[k] = p.paragraphs[k]
      BY <1>4, <2>2
    <3>2. k \in 1 .. 4
      BY <1>2, <3>1
    <3>3. Text(ParagraphAt(k, old)) # Text(ParagraphAt(i, old))
      BY <2>2, <3>2, PlacesOfParagraphs
    <3> QED
      BY <1>2, <3>1, <3>3 DEF ParagraphFits
  <2> QED
    BY <2>1, <2>2
<1> QED
  BY <1>4, <1>5, <1>6 DEF ParagraphsFit

\* The page with other paragraphs.
LEMMA ParagraphStepFits ==
    ASSUME ConflictInv, StoresInv, NEW c \in Clients, IsOpen(c), HasParagraphs(Kind),
           NEW i \in 1 .. 4, NEW x, IsParagraph(x), x.deleted \/ x.body \in {c, Empty},
           NEW paragraphs,
           \/ i <= Len(pages[c].paragraphs) /\ paragraphs = [pages[c].paragraphs EXCEPT ![i] = x]
           \/ i = Len(pages[c].paragraphs) + 1 /\ paragraphs = Append(pages[c].paragraphs, x),
           Changed(c, [pages[c] EXCEPT !.paragraphs = paragraphs], TextAt(pages[c], i))
    PROVE  StoresInv'
<1> DEFINE p == pages[c]
           page == [p EXCEPT !.paragraphs = paragraphs]
           old == OldContent(form, versions, p.base)
           g == Text(ParagraphAt(i, old))
<1>1. IsPage(p)
  BY OpenIsPage
<1>2. /\ IsPage(page) /\ page.base = p.base /\ page.touched = p.touched /\ page.data = p.data
      /\ page.paragraphs = paragraphs /\ page.emptied = p.emptied
  BY <1>1 DEF IsPage, FormFields
<1>3. PageFits(form, versions, c, p)
  BY DEF StoresInv, ClientFits, IsOpen
<1>4. DataFits(form, c, p, old) /\ ParagraphsFit(c, p, old)
  BY <1>3 DEF PageFits, Kind
<1>5. TextAt(p, i) = g
  BY OriginalIs DEF TextAt
<1>6. old = OldContent(form, versions, page.base)
  BY <1>2
<1>7. g \notin Plain(form.kind)
  <2>1. ParagraphAt(i, old) \in Range(Paragraphs)
    BY PlacesOfParagraphs
  <2> QED
    BY <2>1 DEF Plain, Texts, Kind
<1>8. Changed(c, page, g)
  BY <1>5
<1>9. g = Text(ParagraphAt(i, old))
  OBVIOUS
<1>10. \/ i <= Len(p.paragraphs) /\ paragraphs = [p.paragraphs EXCEPT ![i] = x]
       \/ i = Len(p.paragraphs) + 1 /\ paragraphs = Append(p.paragraphs, x)
  OBVIOUS
<1> HIDE DEF page, old, p, g
<1>11. ASSUME NEW q, q.data = page.data, q.paragraphs = page.paragraphs,
              q.touched = page.touched \cup {g}, q.emptied = page.emptied
       PROVE  /\ DataFits(form, c, q, old)
              /\ HasParagraphs(form.kind) => ParagraphsFit(c, q, old)
  <2>1. /\ q.data = p.data /\ q.paragraphs = paragraphs
        /\ q.touched = p.touched \cup {g} /\ q.emptied = p.emptied
    BY <1>2, <1>11
  <2>2. DataFits(form, c, q, old)
    BY <1>4, <1>7, <2>1, TextFits
  <2>3. \/ i <= Len(p.paragraphs) /\ q.paragraphs = [p.paragraphs EXCEPT ![i] = x]
        \/ i = Len(p.paragraphs) + 1 /\ q.paragraphs = Append(p.paragraphs, x)
    BY <1>10, <2>1
  <2>4. q.touched = p.touched \cup {Text(ParagraphAt(i, old))}
    BY <1>9, <2>1
  <2>5. ParagraphsFit(c, q, old)
    BY <1>4, <2>3, <2>4, ParagraphChangeFits
  <2> QED
    BY <2>2, <2>5
<1> QED
  BY <1>2, <1>6, <1>8, <1>11, ChangedFits DEF p

\* Adding, typing and deleting paragraphs.
LEMMA ParagraphsKeepFits ==
    ASSUME ConflictInv, StoresInv, NEW c \in Clients, AddParagraph(c) \/ ChangeParagraph(c)
    PROVE  StoresInv'
<1> DEFINE p == pages[c]
           s == p.paragraphs
<1>1. IsOpen(c) /\ HasParagraphs(Kind)
  BY DEF AddParagraph, ChangeParagraph
<1>2. PageFits(form, versions, c, p)
  BY <1>1 DEF StoresInv, ClientFits, IsOpen
<1>3. ParagraphsFit(c, p, OldContent(form, versions, p.base))
  BY <1>1, <1>2 DEF PageFits, Kind
<1>4. Len(s) \in 0 .. 4 /\ DOMAIN s = 1 .. Len(s) /\ \A i \in 1 .. Len(s) : IsParagraph(s[i])
  <2>1. PICK S : s \in Seq(S)
    BY <1>3 DEF ParagraphsFit
  <2>2. Len(s) \in Nat /\ DOMAIN s = 1 .. Len(s)
    BY <2>1
  <2>3. Len(s) <= 4 /\ \A i \in 1 .. Len(s) : IsParagraph(s[i])
    BY <1>3 DEF ParagraphsFit
  <2> HIDE DEF s
  <2> QED
    BY <2>2, <2>3
<1>5. Len(Paragraphs) = 4
  BY DEF Paragraphs
<1>6. CASE AddParagraph(c)
  <2> DEFINE i == Len(s) + 1
             paragraphs == Append(s, Untyped)
  <2>1. i \in 1 .. 4 /\ Changed(c, [p EXCEPT !.paragraphs = paragraphs], TextAt(p, i))
    BY <1>4, <1>5, <1>6 DEF AddParagraph
  <2>2. IsParagraph(Untyped) /\ Untyped.body = Empty
    BY DEF IsParagraph, Untyped
  <2>3. i = Len(s) + 1 /\ paragraphs = Append(s, Untyped)
    OBVIOUS
  <2> HIDE DEF i, paragraphs
  <2> QED
    BY <1>1, <2>1, <2>2, <2>3, ParagraphStepFits
<1>7. CASE ChangeParagraph(c)
  <2>1. PICK i \in DOMAIN s :
            \/ Changed(c, [p EXCEPT !.paragraphs[i].deleted = TRUE], TextAt(p, i))
            \/ Changed(c, [p EXCEPT !.paragraphs[i].body = c], TextAt(p, i))
    BY <1>7 DEF ChangeParagraph
  <2>2. i \in 1 .. 4 /\ i <= Len(s) /\ IsParagraph(s[i])
    BY <1>4
  <2>3. ASSUME NEW x, IsParagraph(x), x.deleted \/ x.body \in {c, Empty},
               Changed(c, [p EXCEPT !.paragraphs = [s EXCEPT ![i] = x]], TextAt(p, i))
        PROVE  StoresInv'
    <3> DEFINE paragraphs == [s EXCEPT ![i] = x]
    <3>1. paragraphs = [s EXCEPT ![i] = x] /\ Changed(c, [p EXCEPT !.paragraphs = paragraphs], TextAt(p, i))
      BY <2>3
    <3> HIDE DEF paragraphs
    <3> QED
      BY <1>1, <2>2, <2>3, <3>1, ParagraphStepFits
  <2>4. CASE Changed(c, [p EXCEPT !.paragraphs[i].deleted = TRUE], TextAt(p, i))
    <3> DEFINE x == [s[i] EXCEPT !.deleted = TRUE]
    <3>1. IsParagraph(x) /\ x.deleted
      BY <2>2 DEF IsParagraph
    <3>2. Changed(c, [p EXCEPT !.paragraphs = [s EXCEPT ![i] = x]], TextAt(p, i))
      BY <2>4
    <3> HIDE DEF x
    <3> QED
      BY <2>3, <3>1, <3>2
  <2>5. CASE Changed(c, [p EXCEPT !.paragraphs[i].body = c], TextAt(p, i))
    <3> DEFINE x == [s[i] EXCEPT !.body = c]
    <3>1. IsParagraph(x) /\ x.body = c
      BY <2>2 DEF IsParagraph
    <3>2. Changed(c, [p EXCEPT !.paragraphs = [s EXCEPT ![i] = x]], TextAt(p, i))
      BY <2>5
    <3> HIDE DEF x
    <3> QED
      BY <2>3, <3>1, <3>2
  <2> QED
    BY <2>1, <2>4, <2>5
<1> QED
  BY <1>6, <1>7

\* A click: what is posted is what is shown.
LEMMA SubmitFits ==
    ASSUME ConflictInv, StoresInv, NEW c \in Clients, Submit(c)
    PROVE  StoresInv'
<1> DEFINE p == pages[c]
           r == Job(p)
           old == OldContent(form, versions, p.base)
           page == IF FirstStep(p) = "post" THEN Cleaned(p) ELSE p
           y == page.submits + 1
           q == [page EXCEPT !.submits = y]
<1>1. IsOpen(c) /\ IsPage(p)
  BY OpenIsPage DEF Submit
<1>2. PICK j \in DOMAIN jobs[c] : jobs[c][j] = None /\ jobs' = [jobs EXCEPT ![c][j] = r]
  BY DEF Submit
<1>3. pages' = [pages EXCEPT ![c] = q] /\ UNCHANGED <<form, versions, seen>>
  BY DEF Submit
<1>4. PageFits(form, versions, c, p)
  BY <1>1 DEF StoresInv, ClientFits, IsOpen
<1>5. /\ r.posted = Filled(p) /\ r.entered = p.touched /\ r.emptied = p.emptied
      /\ r.live = p.touched \cup p.emptied /\ r.base = p.base /\ r.left = None
  BY DEF Job
<1>6. IsPage(page) /\ PageFits(form, versions, c, page) /\ page.base = p.base /\ page.touched = p.touched
  <2>1. IsPage(Cleaned(p)) /\ PageFits(form, versions, c, Cleaned(p))
        /\ Cleaned(p).base = p.base /\ Cleaned(p).touched = p.touched
    BY <1>1, <1>4, CleanedIsPage, CleanedPageFits
  <2> QED
    BY <1>1, <1>4, <2>1
<1> HIDE DEF page, r
<1>7. /\ q.base = page.base /\ q.data = page.data /\ q.paragraphs = page.paragraphs
      /\ q.touched = page.touched /\ q.emptied = page.emptied
  <2> HIDE DEF y
  <2> QED
    BY <1>6 DEF IsPage, FormFields
<1>8. PageFits(form, versions, c, q) /\ q.base = p.base /\ q.touched = p.touched
  <2> HIDE DEF q
  <2> QED
    BY <1>6, <1>7, SamePageFits
<1> HIDE DEF q
<1>9. PostFits(form, c, r, old)
  <2>1. DataFits(form, c, p, old) /\ (HasParagraphs(form.kind) => ParagraphsFit(c, p, old))
    BY <1>4 DEF PageFits
  <2>2. Original(p) = old
    BY OriginalIs
  <2> HIDE DEF old, p
  <2>3. CASE HasParagraphs(form.kind)
    <3>1. r.posted = FillDocument(p.data, p.paragraphs, old)
      BY <1>5, <2>2, <2>3 DEF Filled, Kind
    <3> QED
      BY <1>5, <2>1, <2>3, <3>1, DocumentPosts
  <2>4. CASE ~ HasParagraphs(form.kind)
    <3>1. r.posted = Fill(Kind, p.data)
      BY <1>5, <2>4 DEF Filled, Kind
    <3> QED
      BY <1>5, <2>1, <2>4, <3>1, FormPosts
  <2> QED
    BY <2>3, <2>4
<1>10. JobFits(form, versions, c, r, q)
  BY <1>5, <1>8, <1>9 DEF JobFits, ScopeOf
<1> DEFINE js == [jobs[c] EXCEPT ![j] = r]
<1>11. jobs' = [jobs EXCEPT ![c] = js]
  BY <1>2
<1>12. ClientFits(form, versions, c, p, jobs[c])
  BY DEF StoresInv
<1>13. \A i \in SlotsOf(form) : js[i] = r \/ js[i] = jobs[c][i]
  <2>1. jobs[c] = [i \in SlotsOf(form) |-> jobs[c][i]]
    BY DEF ConflictInv, ClientOk
  <2> QED
    BY <2>1
<1> HIDE DEF js
<1>14. ASSUME NEW i \in SlotsOf(form), js[i] # None
       PROVE  JobFits(form, versions, c, js[i], q)
  <2>1. CASE js[i] = r
    BY <1>10, <2>1
  <2>2. CASE js[i] = jobs[c][i]
    <3>1. JobFits(form, versions, c, js[i], p)
      BY <1>12, <1>14, <2>2 DEF ClientFits
    <3> QED
      BY <1>8, <3>1, OtherScopeFits
  <2> QED
    BY <1>13, <2>1, <2>2
<1>15. ClientFits(form, versions, c, q, js)
  BY <1>8, <1>14 DEF ClientFits
<1> QED
  BY <1>3, <1>11, <1>15, ClientStep

\* What the invariant says of one job.
LEMMA JobOf ==
    ASSUME ConflictInv, StoresInv, NEW c \in Clients, NEW j \in Slots, jobs[c][j] # None
    PROVE  /\ JobFits(form, versions, c, jobs[c][j], pages[c])
           /\ Scope(c, jobs[c][j]) = ScopeOf(jobs[c][j], pages[c])
           /\ IsPage(Scope(c, jobs[c][j]))
<1>1. JobFits(form, versions, c, jobs[c][j], pages[c])
  BY DEF StoresInv, ClientFits, Slots, SlotsOf
<1>2. Scope(c, jobs[c][j]) = ScopeOf(jobs[c][j], pages[c])
  BY DEF Scope, ScopeOf
<1>3. IsPage(Scope(c, jobs[c][j]))
  <2> DEFINE r == jobs[c][j]
  <2>1. (r.left = None <=> IsOpen(c)) /\ (r.left # None => IsPage(r.left))
    BY JobIs
  <2>2. CASE r.left = None
    BY <2>1, <2>2, OpenIsPage DEF Scope
  <2>3. CASE r.left # None
    BY <2>1, <2>3 DEF Scope
  <2> QED
    BY <2>2, <2>3
<1> QED
  BY <1>1, <1>2, <1>3

\* A job at another step.
LEMMA AtStepFits ==
    ASSUME NEW c, NEW r, NEW p, JobFits(form, versions, c, r, p), IsJob(r), NEW step
    PROVE  JobFits(form, versions, c, [r EXCEPT !.at = step], p)
<1> DEFINE new == [r EXCEPT !.at = step]
<1>1. /\ new.posted = r.posted /\ new.entered = r.entered /\ new.emptied = r.emptied
      /\ new.live = r.live /\ new.left = r.left /\ new.base = r.base
  BY DEF IsJob, JobFields
<1> HIDE DEF new
<1>2. JobFits(form, versions, c, new, p)
  BY <1>1, SameJobFits
<1> QED
  BY <1>2 DEF new

\* A form is read again for all fields of the organization, or for none.
LEMMA WholeParts ==
    ASSUME NEW fields, form.kind \in {"comment", "mercator2015", "mercator2016"},
           \/ fields = MainOnly
           \/ fields = Fields(Kind)
           \/ fields = Fields(Kind) \ MainOnly /\ form.kind = "mercator2015"
    PROVE  OrganizationParts \subseteq fields \/ OrganizationParts \cap fields = {}
<1>1. \A g \in OrganizationParts : g[1] = "organization_info" /\ g \notin MainOnly
  BY DEF OrganizationParts, Organization, MainOnly
<1>2. CASE fields = MainOnly
  BY <1>1, <1>2
<1>3. CASE form.kind = "mercator2015"
  <2>1. SubResources(form.kind) = Mercator2015SubResources
    BY <1>3 DEF SubResources, HasParagraphs
  <2>2. "organization_info" \in DOMAIN Mercator2015SubResources
        /\ Mercator2015SubResources["organization_info"] = OrganizationFields
    BY DEF Mercator2015SubResources
  <2>3. \A g \in OrganizationParts : g \in SubFields(form.kind, "organization_info")
    BY <2>1, <2>2 DEF SubFields, OrganizationParts, Organization
  <2>4. \A g \in OrganizationParts : g \in Fields(form.kind)
    BY <2>1, <2>2, <2>3 DEF Fields
  <2>5. CASE fields # MainOnly
    <3>1. \A g \in OrganizationParts : g \in fields
      BY <1>1, <2>4, <2>5 DEF Kind
    <3> QED
      BY <3>1
  <2> QED
    BY <1>2, <2>5
<1>4. CASE form.kind # "mercator2015" /\ fields = Fields(Kind)
  <2>1. "organization_info" \notin DOMAIN SubResources(form.kind)
    <3>1. CASE form.kind = "comment"
      BY <3>1 DEF SubResources, HasParagraphs
    <3>2. CASE form.kind = "mercator2016"
      BY <3>2 DEF SubResources, HasParagraphs, Mercator2016SubResources
    <3> QED
      BY <1>4, <3>1, <3>2
  <2>2. \A g \in Fields(form.kind) : g[1] = "main" \/ g[1] \in DOMAIN SubResources(form.kind)
    BY DEF Fields, SubFields
  <2>3. \A g \in OrganizationParts : g \notin fields
    BY <1>1, <1>4, <2>1, <2>2 DEF Kind
  <2> QED
    BY <2>3
<1> QED
  BY <1>2, <1>3, <1>4

\* A job that has read the form again, at its next step.
LEMMA ReadAtStepFits ==
    ASSUME ConflictInv, StoresInv, NEW c \in Clients, NEW j \in Slots, jobs[c][j] # None,
           form.kind \in {"comment", "mercator2015", "mercator2016"},
           NEW page, page = Scope(c, jobs[c][j]) \/ page = Cleaned(Scope(c, jobs[c][j])),
           NEW fields,
           \/ fields = MainOnly
           \/ fields = Fields(Kind)
           \/ fields = Fields(Kind) \ MainOnly /\ form.kind = "mercator2015",
           NEW step, step \in Steps
    PROVE  LET read == ReadAgain(page, jobs[c][j], fields)
               new == [read EXCEPT !.at = step]
           IN  /\ JobFits(form, versions, c, read, pages[c]) /\ IsJob(read)
               /\ JobFits(form, versions, c, new, pages[c]) /\ IsJob(new)
               /\ new.left = jobs[c][j].left
<1> DEFINE r == jobs[c][j]
           read == ReadAgain(page, r, fields)
           new == [read EXCEPT !.at = step]
<1>1. JobFits(form, versions, c, r, pages[c]) /\ Scope(c, r) = ScopeOf(r, pages[c]) /\ IsPage(Scope(c, r))
  BY JobOf
<1>2. IsJob(r)
  BY JobIs
<1>3. ~ HasParagraphs(form.kind)
  BY DEF HasParagraphs
<1>4. OrganizationParts \subseteq fields \/ OrganizationParts \cap fields = {}
  BY WholeParts
<1>5. page = Scope(c, r) \/ page = Cleaned(Scope(c, r))
  OBVIOUS
<1> HIDE DEF r
<1>6. page = ScopeOf(r, pages[c]) \/ (page = Cleaned(ScopeOf(r, pages[c])) /\ IsPage(ScopeOf(r, pages[c])))
  BY <1>1, <1>5
<1>7. JobFits(form, versions, c, read, pages[c])
  BY <1>1, <1>2, <1>3, <1>4, <1>6, ReadAgainFits
<1>8. IsJob(read) /\ read.left = r.left
  BY <1>2, ReadAgainIsJob
<1> HIDE DEF read
<1>9. JobFits(form, versions, c, new, pages[c]) /\ IsJob(new) /\ new.left = r.left
  BY <1>7, <1>8, AtStepFits, JobAtStep
<1> QED
  BY <1>7, <1>8, <1>9 DEF r, read

\* A job that goes on as it was read.
LEMMA StepKeepsFits ==
    ASSUME ConflictInv, StoresInv, NEW c \in Clients, NEW j \in Slots, jobs[c][j] # None,
           NEW step, NEW js, Become(c, js, [jobs[c][j] EXCEPT !.at = step]), UNCHANGED pages
    PROVE  StoresInv'
<1> DEFINE new == [jobs[c][j] EXCEPT !.at = step]
<1>1. JobFits(form, versions, c, new, pages[c])
  BY JobOf, JobIs, AtStepFits
<1>2. Become(c, js, new)
  OBVIOUS
<1> HIDE DEF new
<1> QED
  BY <1>1, <1>2, GoesOnFits

\* Or as it cleans the form.
LEMMA CleansKeepsFits ==
    ASSUME ConflictInv, StoresInv, NEW c \in Clients, NEW j \in Slots, jobs[c][j] # None,
           NEW js, NEW new, Cleans(c, js, new), JobFits(form, versions, c, new, pages[c]), IsJob(new),
           new.left = jobs[c][j].left
    PROVE  StoresInv'
<1>1. new.left = None => IsOpen(c)
  BY JobIs
<1>2. new.left # None => IsPage(new.left)
  BY JobIs
<1> QED
  BY <1>1, <1>2, CleaningFits

\* Mercator 2015 has the old version.
LEMMA GotOldFits ==
    ASSUME ConflictInv, StoresInv, NEW c \in Clients, NEW j \in Slots, GotOld(c, j)
    PROVE  StoresInv'
<1> DEFINE page == Scope(c, jobs[c][j])
<1>1. jobs[c][j] # None /\ jobs[c][j].at = "old"
  BY NotNone DEF GotOld, At
<1>2. form.kind = "mercator2015"
  BY <1>1, JobIs DEF AtItsStep, StepFits, Steps
<1>3. CASE Step(c, j, [jobs[c][j] EXCEPT !.at = "upload"])
  BY <1>1, <1>3, StepKeepsFits DEF Step
<1>4. CASE Cleans(c, {j}, [ReadAgain(page, jobs[c][j], MainOnly) EXCEPT !.at = "get"])
  <2> DEFINE new == [ReadAgain(page, jobs[c][j], MainOnly) EXCEPT !.at = "get"]
  <2>0. page = Scope(c, jobs[c][j])
    OBVIOUS
  <2>1. JobFits(form, versions, c, new, pages[c]) /\ IsJob(new) /\ new.left = jobs[c][j].left
    <3> HIDE DEF page
    <3> QED
      BY <1>1, <1>2, <2>0, ReadAtStepFits DEF Steps
  <2>2. Cleans(c, {j}, new)
    BY <1>4
  <2> HIDE DEF new
  <2> QED
    BY <1>1, <2>1, <2>2, CleansKeepsFits
<1> QED
  BY <1>3, <1>4 DEF GotOld

\* The image is uploaded.
LEMMA UploadedFits ==
    ASSUME ConflictInv, StoresInv, NEW c \in Clients, NEW j \in Slots, Uploaded(c, j)
    PROVE  StoresInv'
<1> DEFINE job == jobs[c][j]
           page == Scope(c, job)
           step == StepAfter(page, "upload")
           js == IF step = "post" THEN Shared(c, j) ELSE {j}
<1>1. jobs[c][j] # None /\ jobs[c][j].at = "upload"
  BY NotNone DEF Uploaded, At
<1>2. form.kind \in Uploading /\ FormOk
  <2>1. AtItsStep(form, jobs[c][j])
    BY <1>1, JobIs
  <2> QED
    BY <1>1, <2>1 DEF AtItsStep, StepFits, Steps, ConflictInv
<1>3. step \in Steps
  BY <1>2, AfterUpload DEF FormOk, StepFits
<1>4. page = Scope(c, jobs[c][j])
  OBVIOUS
<1>5. \/ form.kind \in {"document", "image"} /\ Cleans(c, js, [job EXCEPT !.at = step])
      \/ form.kind = "mercator2015" /\ Cleans(c, js, [ReadAgain(page, job, MainOnly) EXCEPT !.at = step])
      \/ /\ form.kind \in {"mercator2015", "mercator2016"}
         /\ Cleans(c, js, [ReadAgain(Cleaned(page), job, Fields(Kind)) EXCEPT !.at = step])
  <2>1. CASE Kind \in {"document", "image"}
    BY <2>1 DEF Uploaded, Kind
  <2>2. CASE Kind = "mercator2015" /\ ~ form.create
    BY <2>2 DEF Uploaded, Kind
  <2>3. CASE Kind \notin {"document", "image"} /\ ~ (Kind = "mercator2015" /\ ~ form.create)
    <3>1. Cleans(c, js, [ReadAgain(Cleaned(page), job, Fields(Kind)) EXCEPT !.at = step])
      BY <2>3 DEF Uploaded
    <3> QED
      BY <1>2, <2>3, <3>1 DEF Uploading, Kind
  <2> QED
    BY <2>1, <2>2, <2>3
<1> HIDE DEF page, step, js
<1>6. ASSUME NEW new, Cleans(c, js, new), JobFits(form, versions, c, new, pages[c]), IsJob(new),
             new.left = jobs[c][j].left
      PROVE  StoresInv'
  BY <1>1, <1>6, CleansKeepsFits
<1>7. CASE form.kind \in {"document", "image"} /\ Cleans(c, js, [job EXCEPT !.at = step])
  <2> DEFINE new == [job EXCEPT !.at = step]
  <2>1. JobFits(form, versions, c, job, pages[c]) /\ IsJob(job)
    BY <1>1, JobOf, JobIs
  <2>2. job.left = jobs[c][j].left
    OBVIOUS
  <2> HIDE DEF job
  <2>3. JobFits(form, versions, c, new, pages[c]) /\ IsJob(new) /\ new.left = jobs[c][j].left
    BY <1>3, <2>1, <2>2, AtStepFits, JobAtStep
  <2>4. Cleans(c, js, new)
    BY <1>7
  <2> HIDE DEF new
  <2> QED
    BY <1>6, <2>3, <2>4
<1>8. CASE form.kind = "mercator2015" /\ Cleans(c, js, [ReadAgain(page, job, MainOnly) EXCEPT !.at = step])
  <2> DEFINE new == [ReadAgain(page, job, MainOnly) EXCEPT !.at = step]
  <2>1. JobFits(form, versions, c, new, pages[c]) /\ IsJob(new) /\ new.left = jobs[c][j].left
    BY <1>1, <1>3, <1>4, <1>8, ReadAtStepFits
  <2>2. Cleans(c, js, new)
    BY <1>8
  <2> HIDE DEF new, job
  <2> QED
    BY <1>6, <2>1, <2>2
<1>9. CASE /\ form.kind \in {"mercator2015", "mercator2016"}
           /\ Cleans(c, js, [ReadAgain(Cleaned(page), job, Fields(Kind)) EXCEPT !.at = step])
  <2> DEFINE x == Cleaned(page)
             fields == Fields(Kind)
             new == [ReadAgain(x, job, fields) EXCEPT !.at = step]
  <2>1. x = Cleaned(Scope(c, jobs[c][j])) /\ fields = Fields(Kind)
    BY <1>4
  <2>2. Cleans(c, js, new)
    BY <1>9
  <2> HIDE DEF x, fields
  <2>3. JobFits(form, versions, c, new, pages[c]) /\ IsJob(new) /\ new.left = jobs[c][j].left
    BY <1>1, <1>3, <1>9, <2>1, ReadAtStepFits
  <2> HIDE DEF new, job
  <2> QED
    BY <1>6, <2>2, <2>3
<1> QED
  BY <1>5, <1>7, <1>8, <1>9

\* The last GET.
LEMMA GotFits ==
    ASSUME ConflictInv, StoresInv, NEW c \in Clients, NEW j \in Slots, Got(c, j)
    PROVE  StoresInv'
<1> DEFINE job == jobs[c][j]
           page == Scope(c, job)
<1>1. jobs[c][j] # None /\ jobs[c][j].at = "get"
  BY NotNone DEF Got, At
<1>2. form.kind \in Getting
  BY <1>1, JobIs DEF AtItsStep, StepFits, Steps
<1>3. page = Scope(c, jobs[c][j])
  OBVIOUS
<1>4. ASSUME NEW fields,
             \/ fields = Fields(Kind) /\ form.kind \in {"comment", "mercator2016"}
             \/ fields = Fields(Kind) \ MainOnly /\ form.kind = "mercator2015"
      PROVE  LET read == ReadAgain(page, job, fields)
                 new == [read EXCEPT !.at = "post"]
             IN  /\ JobFits(form, versions, c, read, pages[c]) /\ IsJob(read)
                 /\ JobFits(form, versions, c, new, pages[c])
  <2> HIDE DEF page
  <2> QED
    BY <1>1, <1>3, <1>4, ReadAtStepFits DEF Steps
<1>5. CASE Kind = "mercator2015"
  <2> DEFINE fields == Fields(Kind) \ MainOnly
             new == [ReadAgain(page, job, fields) EXCEPT !.at = "post"]
  <2>1. Become(c, Shared(c, j), new) /\ UNCHANGED pages
    BY <1>5 DEF Got, Provides
  <2>2. fields = Fields(Kind) \ MainOnly
    OBVIOUS
  <2> HIDE DEF fields, page, job
  <2>3. JobFits(form, versions, c, new, pages[c])
    BY <1>4, <1>5, <2>2 DEF Kind
  <2> HIDE DEF new
  <2> QED
    BY <2>1, <2>3, GoesOnFits
<1>6. CASE Kind = "mercator2016"
  <2> DEFINE fields == Fields(Kind)
             new == [ReadAgain(page, job, fields) EXCEPT !.at = "post"]
  <2>1. Become(c, {j}, new) /\ UNCHANGED pages
    BY <1>6 DEF Got, Step
  <2>2. fields = Fields(Kind)
    OBVIOUS
  <2> HIDE DEF fields, page, job
  <2>3. JobFits(form, versions, c, new, pages[c])
    BY <1>4, <1>6, <2>2 DEF Kind
  <2> HIDE DEF new
  <2> QED
    BY <2>1, <2>3, GoesOnFits
<1>7. CASE Kind = "image"
  <2>1. Become(c, {j}, [job EXCEPT !.at = "post"]) /\ UNCHANGED pages
    BY <1>7 DEF Got, Step
  <2> QED
    BY <1>1, <2>1, StepKeepsFits
<1>8. CASE Kind = "comment"
  <2> DEFINE fields == Fields(Kind)
             read == ReadAgain(page, job, fields)
  <2>1. PICK v \in seen[c] .. LAST :
            Step(c, j, [ReadAgain(page, job, Fields(Kind)) EXCEPT !.at = "post", !.follows = v])
    BY <1>8 DEF Got
  <2> DEFINE new == [read EXCEPT !.at = "post", !.follows = v]
  <2>2. Become(c, {j}, new) /\ UNCHANGED pages
    BY <2>1 DEF Step
  <2>3. fields = Fields(Kind)
    OBVIOUS
  <2> HIDE DEF fields, page, job
  <2>4. JobFits(form, versions, c, read, pages[c]) /\ IsJob(read)
    BY <1>4, <1>8, <2>3 DEF Kind
  <2> HIDE DEF read
  <2>5. /\ new.posted = read.posted /\ new.entered = read.entered /\ new.emptied = read.emptied
        /\ new.live = read.live /\ new.left = read.left /\ new.base = read.base
    BY <2>4 DEF IsJob, JobFields
  <2> HIDE DEF new
  <2>6. JobFits(form, versions, c, new, pages[c])
    BY <2>4, <2>5, SameJobFits
  <2> QED
    BY <2>2, <2>6, GoesOnFits
<1> QED
  BY <1>2, <1>5, <1>6, <1>7, <1>8 DEF Getting, Kind

\* Requests that fail.
LEMMA FailuresKeepFits ==
    ASSUME ConflictInv, StoresInv, NEW c \in Clients, NEW j \in Slots, JobFails(c, j)
    PROVE  StoresInv'
<1>1. jobs[c][j] # None
  BY NotNone DEF JobFails, Hangs, Fails, ServerRefuses, AnswerIsLost
<1>2. \E step, js : Become(c, js, [jobs[c][j] EXCEPT !.at = step]) /\ UNCHANGED pages
  <2>1. CASE Hangs(c, j)
    BY <2>1 DEF Hangs, Step
  <2>2. CASE Fails(c, j)
    BY <2>2 DEF Fails, Provides
  <2>3. CASE ServerRefuses(c, j)
    BY <2>3 DEF ServerRefuses, Step
  <2>4. CASE AnswerIsLost(c, j)
    BY <2>4 DEF AnswerIsLost, Step
  <2> QED
    BY <2>1, <2>2, <2>3, <2>4 DEF JobFails
<1>3. PICK step, js : Become(c, js, [jobs[c][j] EXCEPT !.at = step]) /\ UNCHANGED pages
  BY <1>2
<1> QED
  BY <1>1, <1>3, StepKeepsFits

\* An image is posted again.
LEMMA RetryFits ==
    ASSUME ConflictInv, StoresInv, NEW c \in Clients, NEW j \in Slots, Retry(c, j)
    PROVE  StoresInv'
<1> DEFINE job == jobs[c][j]
           left == job.rounds - 1
<1>1. jobs[c][j] # None
  BY NotNone DEF Retry
<1>2. PICK v \in seen[c] .. LAST : Step(c, j, [job EXCEPT !.at = "post", !.follows = v, !.rounds = @ - 1])
  BY DEF Retry
<1> DEFINE new == [job EXCEPT !.at = "post", !.follows = v, !.rounds = left]
<1>3. Become(c, {j}, new) /\ UNCHANGED pages
  BY <1>2 DEF Step
<1>4. JobFits(form, versions, c, job, pages[c]) /\ IsJob(job)
  BY <1>1, JobOf, JobIs
<1> HIDE DEF left, job
<1>5. /\ new.posted = job.posted /\ new.entered = job.entered /\ new.emptied = job.emptied
      /\ new.live = job.live /\ new.left = job.left /\ new.base = job.base
  BY <1>4 DEF IsJob, JobFields
<1> HIDE DEF new
<1>6. JobFits(form, versions, c, new, pages[c])
  BY <1>4, <1>5, SameJobFits
<1> QED
  BY <1>3, <1>6, GoesOnFits

\* A form that is left is kept with what was submitted from it.
LEMMA LeftFits ==
    ASSUME ConflictInv, StoresInv, NEW c \in Clients, IsOpen(c), NEW j \in Slots, NEW q,
           Left(c)[j] # None
    PROVE  JobFits(form, versions, c, Left(c)[j], q)
<1> DEFINE r == jobs[c][j]
           p == pages[c]
           new == [r EXCEPT !.left = p]
<1>1. DOMAIN jobs[c] = Slots
  BY LeftIsOk
<1>2. Left(c)[j] = IF r = None \/ r.left # None THEN r ELSE new
  BY <1>1 DEF Left
<1>3. r # None
  BY <1>2
<1>4. JobFits(form, versions, c, r, p) /\ IsJob(r) /\ IsPage(p)
  BY <1>3, JobOf, JobIs, OpenIsPage
<1>5. p # None
  BY <1>4 DEF IsPage, None
<1> HIDE DEF r, p
<1>6. CASE r.left # None
  BY <1>2, <1>4, <1>6 DEF JobFits, ScopeOf
<1>7. CASE r.left = None
  <2>1. /\ new.posted = r.posted /\ new.entered = r.entered /\ new.emptied = r.emptied
        /\ new.live = r.live /\ new.left = p /\ new.base = r.base
    BY <1>4 DEF IsJob, JobFields
  <2>2. Left(c)[j] = new
    BY <1>2, <1>3, <1>7
  <2> HIDE DEF new
  <2>3. JobFits(form, versions, c, new, q)
    BY <1>4, <1>5, <1>7, <2>1 DEF JobFits, PostFits, ScopeOf
  <2> QED
    BY <2>2, <2>3
<1> QED
  BY <1>6, <1>7

\* The page is no form any more.
LEMMA GoneFits ==
    ASSUME ConflictInv, StoresInv, NEW c \in Clients, IsOpen(c), UNCHANGED <<form, versions, seen>>,
           NEW page, page.at # "open", pages' = [pages EXCEPT ![c] = page],
           NEW js, jobs' = [jobs EXCEPT ![c] = js],
           \A j \in Slots : js[j] = None \/ js[j] = Left(c)[j]
    PROVE  StoresInv'
<1>1. ClientFits(form, versions, c, page, js)
  BY LeftFits DEF ClientFits, Slots, SlotsOf
<1> QED
  BY <1>1, ClientStep

\* Cancelling.
LEMMA CancelFits ==
    ASSUME ConflictInv, StoresInv, NEW c \in Clients, Cancel(c)
    PROVE  StoresInv'
<1>1. IsOpen(c) /\ UNCHANGED <<form, versions, seen>> /\ pages' = [pages EXCEPT ![c] = Closed]
  BY DEF Cancel
<1>2. Closed.at # "open"
  BY DEF Closed
<1>3. ASSUME NEW js, jobs' = [jobs EXCEPT ![c] = js], \A j \in Slots : js[j] = None \/ js[j] = Left(c)[j]
      PROVE  StoresInv'
  BY <1>1, <1>2, <1>3, GoneFits
<1>4. CASE jobs' = [jobs EXCEPT ![c] = Left(c)]
  BY <1>3, <1>4
<1>5. CASE jobs' = [jobs EXCEPT ![c] = Dropped(c)]
  <2>1. \A j \in Slots : Dropped(c)[j] = None \/ Dropped(c)[j] = Left(c)[j]
    BY DEF Dropped
  <2> QED
    BY <1>3, <1>5, <2>1
<1> QED
  BY <1>4, <1>5 DEF Cancel

\* A job is over.
LEMMA OverFits ==
    ASSUME ConflictInv, StoresInv, NEW c \in Clients, NEW j \in Slots, jobs' = Over(c, j),
           UNCHANGED <<form, versions, seen>>, NEW page, pages' = [pages EXCEPT ![c] = page],
           \/ page = pages[c]
           \/ /\ PageFits(form, versions, c, page)
              /\ page.base = pages[c].base /\ page.touched = pages[c].touched
    PROVE  StoresInv'
<1> DEFINE js == [jobs[c] EXCEPT ![j] = None]
<1>1. jobs' = [jobs EXCEPT ![c] = js]
  BY DEF Over
<1>2. \A i \in SlotsOf(form) : js[i] = None \/ js[i] = jobs[c][i]
  BY OverIs
<1>3. ClientFits(form, versions, c, pages[c], jobs[c])
  BY DEF StoresInv
<1> HIDE DEF js
<1>4. ASSUME NEW i \in SlotsOf(form), js[i] # None
      PROVE  JobFits(form, versions, c, js[i], page)
  <2>1. JobFits(form, versions, c, js[i], pages[c])
    BY <1>2, <1>3, <1>4 DEF ClientFits
  <2> QED
    BY <2>1, OtherScopeFits
<1>5. ClientFits(form, versions, c, page, js)
  BY <1>3, <1>4 DEF ClientFits
<1> QED
  BY <1>1, <1>5, ClientStep

\* A success.
LEMMA SucceedsFits ==
    ASSUME ConflictInv, StoresInv, NEW c \in Clients, NEW j \in Slots, Succeeds(c, j)
    PROVE  StoresInv'
<1>1. jobs[c][j] # None /\ UNCHANGED <<form, versions, seen>>
  BY NotNone DEF Succeeds
<1>2. CASE jobs[c][j].left = None /\ Leaves(c, j)
  <2> DEFINE js == [Left(c) EXCEPT ![j] = None]
  <2>1. jobs' = [jobs EXCEPT ![c] = js] /\ pages' = [pages EXCEPT ![c] = Saved]
    BY <1>2 DEF Leaves
  <2>2. IsOpen(c)
    BY <1>1, <1>2, JobIs
  <2>3. Left(c) = [i \in Slots |-> Left(c)[i]]
    BY <2>2, LeftIsOk
  <2>4. \A i \in Slots : js[i] = None \/ js[i] = Left(c)[i]
    BY <2>3
  <2>5. Saved.at # "open"
    BY DEF Saved
  <2> HIDE DEF js
  <2> QED
    BY <1>1, <2>1, <2>2, <2>4, <2>5, GoneFits
<1>3. CASE jobs' = Over(c, j) /\ UNCHANGED pages
  <2>1. pages' = [pages EXCEPT ![c] = pages[c]]
    BY <1>3 DEF ConflictInv
  <2> QED
    BY <1>1, <1>3, <2>1, OverFits
<1> QED
  BY <1>2, <1>3 DEF Succeeds

\* What was refused.
LEMMA RefusedFits ==
    ASSUME ConflictInv, StoresInv, NEW c \in Clients, NEW j \in Slots, Refused(c, j)
    PROVE  StoresInv'
<1>1. jobs[c][j] # None
  BY NotNone DEF Refused
<1>2. CASE Step(c, j, [jobs[c][j] EXCEPT !.at = "wait"])
  BY <1>1, <1>2, StepKeepsFits DEF Step
<1>3. CASE ShowsErrors(c, j)
  <2>1. jobs' = Over(c, j) /\ UNCHANGED <<form, versions, seen>>
    BY <1>3 DEF ShowsErrors
  <2>2. CASE UNCHANGED pages
    <3>1. pages' = [pages EXCEPT ![c] = pages[c]]
      BY <2>2 DEF ConflictInv
    <3> QED
      BY <2>1, <3>1, OverFits
  <2>3. CASE jobs[c][j].left = None /\ pages' = [pages EXCEPT ![c].errors = TRUE]
    <3> DEFINE p == pages[c]
               page == [p EXCEPT !.errors = TRUE]
    <3>1. pages' = [pages EXCEPT ![c] = page]
      BY <2>3
    <3>2. IsOpen(c)
      BY <1>1, <2>3, JobIs
    <3>3. IsPage(p) /\ PageFits(form, versions, c, p)
      BY <3>2, OpenIsPage DEF StoresInv, ClientFits, IsOpen
    <3> HIDE DEF p
    <3>4. /\ page.base = p.base /\ page.data = p.data /\ page.paragraphs = p.paragraphs
          /\ page.touched = p.touched /\ page.emptied = p.emptied
      BY <3>3 DEF IsPage, FormFields
    <3> HIDE DEF page
    <3>5. PageFits(form, versions, c, page)
      BY <3>3, <3>4, SamePageFits
    <3>6. page.base = pages[c].base /\ page.touched = pages[c].touched
      BY <3>4 DEF p
    <3> QED
      BY <2>1, <3>1, <3>5, <3>6, OverFits
  <2> QED
    BY <1>3, <2>2, <2>3 DEF ShowsErrors
<1> QED
  BY <1>2, <1>3 DEF Refused

\* One more version: what was said of the others and of the forms still holds.
LEMMA AppendFits ==
    ASSUME NEW vs, NEW n \in Nat, Len(versions) = n, Len(vs) = n + 1,
           \A v \in 1 .. n : vs[v] = versions[v]
    PROVE  /\ \A base : BaseFits(form, versions, base) =>
                  BaseFits(form, vs, base) /\ OldContent(form, vs, base) = OldContent(form, versions, base)
           /\ \A c, p : PageFits(form, versions, c, p) => PageFits(form, vs, c, p)
           /\ \A c, r, p : JobFits(form, versions, c, r, p) => JobFits(form, vs, c, r, p)
           /\ \A v \in 1 .. n : VersionFits(form, versions, v) => VersionFits(form, vs, v)
<1>1. ASSUME NEW base, BaseFits(form, versions, base)
      PROVE  BaseFits(form, vs, base) /\ OldContent(form, vs, base) = OldContent(form, versions, base)
  <2>1. CASE form.create
    BY <1>1, <2>1 DEF BaseFits, OldContent
  <2>2. CASE ~ form.create
    <3>1. base \in 1 .. n
      BY <1>1, <2>2 DEF BaseFits
    <3>2. vs[base] = versions[base] /\ base \in 1 .. Len(vs)
      BY <3>1
    <3> QED
      BY <2>2, <3>2 DEF BaseFits, OldContent
  <2> QED
    BY <2>1, <2>2
<1>2. ASSUME NEW c, NEW p, PageFits(form, versions, c, p)
      PROVE  PageFits(form, vs, c, p)
  BY <1>1, <1>2 DEF PageFits
<1>3. ASSUME NEW c, NEW r, NEW p, JobFits(form, versions, c, r, p)
      PROVE  JobFits(form, vs, c, r, p)
  <2>1. BaseFits(form, versions, r.base)
    BY <1>3 DEF JobFits, PageFits
  <2> QED
    BY <1>1, <1>2, <1>3, <2>1 DEF JobFits
<1>4. ASSUME NEW v \in 1 .. n, VersionFits(form, versions, v)
      PROVE  VersionFits(form, vs, v)
  <2>1. vs[v] = versions[v] /\ BaseFits(form, versions, versions[v].base)
    BY <1>4 DEF VersionFits
  <2>2. v > 1 => vs[v - 1] = versions[v - 1]
    <3>1. v > 1 => v - 1 \in 1 .. n
      OBVIOUS
    <3> QED
      BY <3>1
  <2>3. OldContent(form, vs, versions[v].base) = OldContent(form, versions, versions[v].base)
    BY <1>1, <2>1
  <2>4. BaseFits(form, vs, versions[v].base)
    BY <1>1, <2>1
  <2> QED
    BY <1>4, <2>1, <2>2, <2>3, <2>4 DEF VersionFits
<1> QED
  BY <1>1, <1>2, <1>3, <1>4

\* The server takes a version, or says that there is a conflict.
LEMMA ServerTakesFits ==
    ASSUME ConflictInv, StoresInv, NEW c \in Clients, NEW j \in Slots, ServerTakes(c, j)
    PROVE  StoresInv'
<1> DEFINE job == jobs[c][j]
           ok == Accepted(job)
           new == [job EXCEPT !.at = "answer", !.ok = ok]
           js == [jobs[c] EXCEPT ![j] = new]
           st == Stored(c, job)
<1>1. job # None /\ UNCHANGED <<form, pages, seen>>
  BY NotNone DEF ServerTakes
<1>2. IsJob(job) /\ JobFits(form, versions, c, job, pages[c])
  BY <1>1, JobIs, JobOf
<1>3. jobs' = [jobs EXCEPT ![c] = js] /\ versions' = IF ok THEN Append(versions, st) ELSE versions
  BY DEF ServerTakes
<1>4. jobs[c] = [i \in SlotsOf(form) |-> jobs[c][i]] /\ j \in SlotsOf(form)
  BY DEF ConflictInv, ClientOk, Slots, SlotsOf
<1>5. \A i \in SlotsOf(form) : js[i] = new \/ js[i] = jobs[c][i]
  BY <1>4
<1>6. JobFits(form, versions, c, new, pages[c])
  <2> HIDE DEF job, ok
  <2>1. /\ new.posted = job.posted /\ new.entered = job.entered /\ new.emptied = job.emptied
        /\ new.live = job.live /\ new.left = job.left /\ new.base = job.base
    BY <1>2 DEF IsJob, JobFields
  <2> HIDE DEF new
  <2> QED
    BY <1>2, <2>1, SameJobFits
<1>7. ClientFits(form, versions, c, pages[c], jobs[c])
  BY DEF StoresInv
<1> HIDE DEF new, js
<1>8. ClientFits(form, versions, c, pages[c], js)
  BY <1>5, <1>6, <1>7 DEF ClientFits
<1>9. pages' = [pages EXCEPT ![c] = pages[c]]
  BY <1>1 DEF ConflictInv
<1>10. CASE ~ ok
  BY <1>1, <1>3, <1>8, <1>9, <1>10, ClientStep
<1>11. CASE ok
  <2>1. PICK S : versions \in Seq(S)
    BY DEF ConflictInv, VersionsOk
  <2>2. st.base = job.base /\ st.by = c
    BY DEF Stored
  <2>3. versions' = Append(versions, st)
    BY <1>3, <1>11
  <2>a. \A g \in Fields(form.kind) \ Discards(form, st.content) :
            /\ g \in st.entered \ {Status} =>
                 \/ st.content[g] = st.by
                 \/ g[2] = "text" /\ st.content[g] = Empty
                 \/ g \in st.emptied /\ st.content[g] = Empty
            /\ g \notin st.live \cup GarbledIn(form) =>
                 \/ st.content[g] = OldContent(form, versions, job.base)[g]
                 \/ /\ form.kind = "mercator2016" /\ ~ form.create
                    /\ st.content[g] = versions[LAST].content[g]
    <3>1. PostFits(form, c, job, OldContent(form, versions, job.base)) /\ FormOk
      BY <1>2 DEF JobFits, ConflictInv
    <3> DEFINE old == OldContent(form, versions, job.base)
    <3> HIDE DEF job, old
    <3>2. PostFits(form, c, job, old) /\ FormOk
      BY <3>1 DEF old
    <3>3. LET s == Stored(c, job)
          IN  \A g \in Fields(form.kind) \ Discards(form, s.content) :
                 /\ g \in s.entered \ {Status} =>
                      \/ s.content[g] = s.by
                      \/ g[2] = "text" /\ s.content[g] = Empty
                      \/ g \in s.emptied /\ s.content[g] = Empty
                 /\ g \notin s.live \cup GarbledIn(form) =>
                      \/ s.content[g] = old[g]
                      \/ /\ form.kind = "mercator2016" /\ ~ form.create
                         /\ s.content[g] = versions[LAST].content[g]
      BY <3>2, ContentFits
    <3> QED
      BY <3>3 DEF old
  <2> HIDE DEF st, job
  <2>4. /\ LAST \in Nat /\ DOMAIN versions = 1 .. LAST /\ DOMAIN versions' = 1 .. (LAST + 1)
        /\ versions'[LAST + 1] = st
        /\ \A v \in 1 .. LAST : versions'[v] = versions[v]
        /\ \E T : versions' \in Seq(T)
    BY <2>1, <2>3, StoredIsLast
  <2> DEFINE n == LAST
             vs == versions'
  <2>5. n \in Nat /\ Len(versions) = n /\ Len(vs) = n + 1 /\ \A v \in 1 .. n : vs[v] = versions[v]
    <3>1. PICK T : vs \in Seq(T)
      BY <2>4
    <3>2. Len(vs) \in Nat /\ DOMAIN vs = 1 .. Len(vs)
      BY <3>1
    <3>3. Len(vs) = n + 1
      BY <2>4, <3>2
    <3> QED
      BY <2>4, <3>3 DEF LAST
  <2>6. vs[n + 1] = st
    BY <2>4
  <2>7. DOMAIN vs = 1 .. (n + 1) /\ DOMAIN versions = 1 .. n
    BY <2>4
  <2>8. form.create \/ n >= 1
    BY DEF StoresInv
  <2>9. (~ form.create) => versions[LAST] = versions[n]
    OBVIOUS
  <2>10. LAST' = Len(vs)
    BY DEF LAST
  <2> HIDE DEF vs, n
  <2>11. /\ \A base : BaseFits(form, versions, base) =>
                BaseFits(form, vs, base) /\ OldContent(form, vs, base) = OldContent(form, versions, base)
         /\ \A d, p : PageFits(form, versions, d, p) => PageFits(form, vs, d, p)
         /\ \A d, r, p : JobFits(form, versions, d, r, p) => JobFits(form, vs, d, r, p)
         /\ \A v \in 1 .. n : VersionFits(form, versions, v) => VersionFits(form, vs, v)
    BY <2>5, AppendFits
  <2>12. BaseFits(form, versions, job.base)
    BY <1>2 DEF JobFits, PageFits
  <2>13. VersionFits(form, vs, n + 1)
    <3>1. BaseFits(form, vs, st.base)
          /\ OldContent(form, vs, st.base) = OldContent(form, versions, job.base)
      BY <2>2, <2>11, <2>12
    <3>2. form.kind = "mercator2016" /\ ~ form.create =>
              n + 1 > 1 /\ vs[(n + 1) - 1] = versions[LAST]
      BY <2>5, <2>8, <2>9
    <3> QED
      BY <2>6, <2>a, <3>1, <3>2 DEF VersionFits
  <2>14. ASSUME NEW v \in DOMAIN vs, vs[v].by \in Clients
         PROVE  VersionFits(form, vs, v)
    <3>1. CASE v = n + 1
      BY <2>13, <3>1
    <3>2. CASE v \in 1 .. n
      <4>1. versions[v].by \in Clients
        BY <2>5, <2>14, <3>2
      <4>2. VersionFits(form, versions, v)
        BY <2>7, <3>2, <4>1 DEF StoresInv
      <4> QED
        BY <2>11, <3>2, <4>2
    <3> QED
      BY <2>5, <2>7, <3>1, <3>2
  <2>15. ASSUME NEW d \in Clients
         PROVE  ClientFits(form, vs, d, pages[d], jobs'[d])
    <3>1. ClientFits(form, versions, d, pages[d], jobs'[d])
      <4>1. CASE d = c
        <5>1. jobs'[d] = js
          BY <1>3, <4>1 DEF ConflictInv
        <5> QED
          BY <1>8, <4>1, <5>1
      <4>2. CASE d # c
        <5>1. jobs'[d] = jobs[d]
          BY <1>3, <4>2 DEF ConflictInv
        <5> QED
          BY <5>1 DEF StoresInv
      <4> QED
        BY <4>1, <4>2
    <3> QED
      BY <2>11, <3>1 DEF ClientFits
  <2>16. form.create \/ Len(vs) >= 1
    BY <2>5, <2>8
  <2>17. seen = [d \in Clients |-> seen[d]] /\ \A d \in Clients : seen[d] \in Nat \ {0}
    BY DEF StoresInv
  <2>18. form' = form /\ seen' = seen /\ pages' = pages /\ versions' = vs
    BY <1>1 DEF vs
  <2> QED
    BY <2>10, <2>14, <2>15, <2>16, <2>17, <2>18 DEF StoresInv
<1> QED
  BY <1>10, <1>11

\* Every step keeps the invariant.
LEMMA StoresSteps == ConflictInv /\ StoresInv /\ [EditingNext]_editingVars => StoresInv'
<1> SUFFICES ASSUME ConflictInv, StoresInv, [EditingNext]_editingVars
             PROVE  StoresInv'
  OBVIOUS
<1>1. CASE UNCHANGED editingVars
  BY <1>1 DEF editingVars, StoresInv, LAST
<1>2. ASSUME NEW c \in Users, UserActs(c)
      PROVE  StoresInv'
  BY <1>2, UsersAreClients, OpenFits, TouchKeepsFits, ParagraphsKeepFits, CancelFits, SubmitFits DEF UserActs
<1>3. ASSUME NEW c \in Users, NEW j \in Slots, JobGoesOn(c, j)
      PROVE  StoresInv'
  BY <1>3, UsersAreClients, GotOldFits, UploadedFits, GotFits, RefusedFits, RetryFits,
     ServerTakesFits, SucceedsFits DEF JobGoesOn
<1>4. ASSUME NEW c \in Users, NEW j \in Slots, JobFails(c, j)
      PROVE  StoresInv'
  BY <1>4, UsersAreClients, FailuresKeepFits
<1> QED
  BY <1>1, <1>2, <1>3, <1>4 DEF EditingNext

\* The property follows from the invariant.
LEMMA StoresFollows == StoresInv => StoresWhatTheFormShows
<1> SUFFICES ASSUME StoresInv
             PROVE  StoresWhatTheFormShows
  OBVIOUS
<1>1. ASSUME NEW v \in DOMAIN versions, versions[v].by \in Clients, NEW f \in Fields(Kind),
             f \notin Useless(versions[v].content)
      PROVE  /\ f \in versions[v].entered \ {Organization("status")} =>
                    \/ versions[v].content[f] = versions[v].by
                    \/ f[2] = "text" /\ versions[v].content[f] = Empty
                    \/ f \in versions[v].emptied /\ versions[v].content[f] = Empty
             /\ f \notin versions[v].live \cup Garbled =>
                    \/ versions[v].content[f] = Original(versions[v])[f]
                    \/ ~ Versioned /\ v > 1 /\ versions[v].content[f] = versions[v - 1].content[f]
  <2> DEFINE new == versions[v]
  <2>1. VersionFits(form, versions, v)
    BY <1>1 DEF StoresInv
  <2>2. f \in Fields(form.kind) /\ f \notin Discards(form, new.content)
    BY <1>1, DiscardedIsUseless DEF Kind
  <2>3. Original(new) = OldContent(form, versions, new.base)
    BY OriginalIs
  <2>4. Garbled = GarbledIn(form)
    BY DEF Garbled, GarbledIn, Kind
  <2>5. form.kind = "mercator2016" => ~ Versioned
    BY DEF Versioned, Kind
  <2> QED
    BY <2>1, <2>2, <2>3, <2>4, <2>5 DEF VersionFits, Status
<1> QED
  BY <1>1 DEF StoresWhatTheFormShows

--------------------------------------------------------------------------------
(* The parts together: whatever a behaviour of Posting is about, what holds of  *)
(* its part holds of it.                                                        *)

\* Every step of Posting is one of each part, or leaves the part as it is.
LEMMA PostingStep ==
    ASSUME [Next]_postingVars
    PROVE  /\ [EditingNext]_editingVars /\ [RatingNext]_ratingVars
           /\ [AccountsNext]_accountsVars /\ [ModerationNext]_moderationVars
<1>1. CASE UNCHANGED postingVars
  BY <1>1 DEF postingVars
<1>2. CASE FormsAct
  BY <1>2 DEF FormsAct
<1>3. CASE RatesAct
  BY <1>3 DEF RatesAct
<1>4. CASE AccountsAct
  BY <1>4 DEF AccountsAct
<1>5. CASE ModerationAct
  BY <1>5 DEF ModerationAct
<1> QED
  BY <1>1, <1>2, <1>3, <1>4, <1>5 DEF Next

\* A page on which nobody rates.
LEMMA RatingRests == RatingIdle => AgreeInv
<1> SUFFICES ASSUME RatingIdle PROVE AgreeInv
  OBVIOUS
<1>1. /\ rateItems = <<>> /\ rateLog = <<>>
      /\ user = [p \in DOMAIN Pages |-> Nobody] /\ known = [p \in DOMAIN Pages |-> 0]
      /\ widgets = [w \in Widgets |-> Absent]
      /\ casts = [w \in Widgets |-> NoCast] /\ fetches = [w \in Widgets |-> <<>>]
      /\ mishap = FALSE
  BY DEF RatingIdle
<1>2. RateTypes
  <2>1. Absent \in WidgetType
    BY DEF Absent, WidgetType, VersionName, NoVersion
  <2>2. NoCast \in CastType
    BY DEF NoCast, CastType, Waiting
  <2>3. rateItems \in Seq(Raters) /\ rateLog \in Seq(RateType)
    BY <1>1
  <2>4. fetches \in [Widgets -> Seq(RequestType)]
    BY <1>1
  <2>5. user \in [DOMAIN Pages -> Persons] /\ known \in [DOMAIN Pages -> Nat]
    BY <1>1 DEF Persons
  <2>6. widgets \in [Widgets -> WidgetType] /\ casts \in [Widgets -> CastType]
    BY <1>1, <2>1, <2>2
  <2> QED
    BY <1>1, <2>3, <2>4, <2>5, <2>6 DEF RateTypes
<1>3. ItemsAreKnown /\ OneRatePerUser
  <2>1. Absent.mine = NoVersion /\ NoCast.at = "none"
    BY DEF Absent, NoCast
  <2> QED
    BY <1>1, <2>1 DEF ItemsAreKnown, KnownIn, CastKnows, OneRatePerUser
<1>4. CastsAreLocked /\ RequestsInOrder /\ CachesAreReal /\ NobodySwitched
  <2>1. \A w \in Widgets : casts[w].at = "none"
    BY <1>1 DEF NoCast
  <2>2. \A w \in Widgets : Len(fetches[w]) = 0
    BY <1>1
  <2>3. Len(rateLog) = 0 /\ \A p \in DOMAIN Pages : known[p] = 0
    BY <1>1
  <2> QED
    BY <2>1, <2>2, <2>3
       DEF CastsAreLocked, RequestsInOrder, Ordered, CachesAreReal, NobodySwitched, AllOf
<1>5. PagesFollow
  <2>1. \A u : LastRate(rateLog, u) = NoVersion
    BY <1>1 DEF LastRate, RateIn
  <2> QED
    BY <2>1 DEF PagesFollow, PageFollows, MadeOn
<1> QED
  BY <1>2, <1>3, <1>4, <1>5 DEF AgreeInv, RatingInv

\* A proposal that nobody moderates.
LEMMA ModerationRests == ModerationIdle => ModerationInv
<1> SUFFICES ASSUME ModerationIdle PROVE ModerationInv
  OBVIOUS
<1>1. /\ IsFiniteSet({}) /\ changes = 1 /\ lastVersion = 0 /\ assignments = {} /\ board = "none"
      /\ calls = [m \in Moderators |-> {}] /\ cached = [m \in Moderators |-> NotCached]
      /\ unheard = [m \in Moderators |-> {}] /\ screens = [m \in Moderators |-> NoScreen]
      /\ promise = NoPromise
  BY FS_EmptySet DEF ModerationIdle, Untouched
<1>2. GoodServer(board, assignments, lastVersion, changes)
  BY <1>1 DEF GoodServer
<1>3. \A m \in Moderators : GoodCache(cached[m], unheard[m], assignments)
  BY <1>1 DEF NotCached, GoodCache
<1>4. \A m \in Moderators : GoodScreen(screens[m], assignments, lastVersion, changes)
  <2>1. IsDialog(NoDialog) /\ NoDialog.since = 0
    BY <1>1 DEF IsDialog, NoDialog, Never
  <2>2. IsScreen(NoScreen) /\ NoScreen.version = 0 /\ NoScreen.dialog = NoDialog
    BY <2>1 DEF IsScreen, NoScreen, Away
  <2> QED
    BY <1>1, <2>1, <2>2 DEF GoodScreen
<1>5. GoodPromise(promise, assignments, lastVersion, funding)
  BY <1>1 DEF NoPromise, GoodPromise
<1> QED
  BY <1>1, <1>2, <1>3, <1>4, <1>5 DEF ModerationInv, Domains

\* Accounts of which none is opened are accounts at the start.
LEMMA AccountsRest == AccountsIdle => AccountsInv
<1>1. AccountsIdle => AccountsInit
  BY DEF AccountsIdle, AccountsInit
<1> QED
  BY <1>1, AccountsStart

\* The invariant of Posting: those of its parts.
PostingInv == ConflictInv /\ StoresInv /\ AgreeInv /\ AccountsInv /\ ModerationInv

\* Of a form, a rate widget, the accounts and a proposal with its moderators, each
\* keeps its invariant while the others do something or nothing.
THEOREM PostingInvariance == Spec => []PostingInv
<1>1. Init => PostingInv
  <2>1. Init => EditingInit \/ EditingIdle
    BY DEF Init
  <2>2. Init => RatingInit \/ RatingIdle
    BY DEF Init
  <2>3. Init => AccountsInit \/ AccountsIdle
    BY DEF Init
  <2>4. Init => ModerationInit \/ ModerationIdle
    BY DEF Init
  <2> QED
    BY <2>1, <2>2, <2>3, <2>4, ConflictStarts, StoresStarts, AgreeInvInit, RatingRests, AccountsStart,
       AccountsRest, InitIsGood, ModerationRests DEF PostingInv
<1>2. PostingInv /\ [Next]_postingVars => PostingInv'
  <2> SUFFICES ASSUME PostingInv, [Next]_postingVars PROVE PostingInv'
    OBVIOUS
  <2>1. /\ [EditingNext]_editingVars /\ [RatingNext]_ratingVars
        /\ [AccountsNext]_accountsVars /\ [ModerationNext]_moderationVars
    BY PostingStep
  <2>2. ConflictInv' /\ StoresInv' /\ AgreeInv'
    BY <2>1, ConflictSteps, StoresSteps, AgreeInvStep DEF PostingInv
  <2>3. AccountsInv' /\ ModerationInv'
    BY <2>1, AccountsStep, PageStep, StepsAreGood DEF PostingInv, AccountsInv
  <2> QED
    BY <2>2, <2>3 DEF PostingInv
<1> QED
  BY <1>1, <1>2, PTL DEF Spec

\* Of two users who edit the same version, the second one is told: what the first
\* one stored is never overwritten, a form closes as saved only when a version of
\* its user was stored, and one that is still open after its submissions shows an
\* error.  Comments and images write over what is there, and are left out.
THEOREM ConflictIsAlwaysReported == Spec => []ConflictIsReported
<1>1. PostingInv => ConflictIsReported
  BY ConflictFollows DEF PostingInv
<1> QED
  BY <1>1, PostingInvariance, PTL

\* What is stored is what its user saw: a field that had been changed at the click
\* has the user's value or was emptied on purpose, every other one the value that the
\* form was loaded with; but for what the status of an organization has no use for,
\* and the title of a Mercator 2015 proposal, which is read wrongly.
THEOREM WhatIsShownIsStored == Spec => []StoresWhatTheFormShows
<1>1. PostingInv => StoresWhatTheFormShows
  BY StoresFollows DEF PostingInv
<1> QED
  BY <1>1, PostingInvariance, PTL

\* And what the other parts promise, Posting promises.
THEOREM PartsKeepTheirPromises ==
    Spec => [](/\ OneRatePerUser /\ WidgetsAgree
               /\ LinksLead /\ LoginsIdentify /\ EmailIsKept /\ CaptchaFits
               /\ PublishedBadgesStay /\ ModerationIsWhole)
<1>1. PostingInv => /\ OneRatePerUser /\ WidgetsAgree
                    /\ LinksLead /\ LoginsIdentify /\ EmailIsKept /\ CaptchaFits
                    /\ PublishedBadgesStay /\ ModerationIsWhole
  <2> SUFFICES ASSUME PostingInv
               PROVE  /\ OneRatePerUser /\ WidgetsAgree
                      /\ LinksLead /\ LoginsIdentify /\ EmailIsKept /\ CaptchaFits
                      /\ PublishedBadgesStay /\ ModerationIsWhole
    OBVIOUS
  <2>1. OneRatePerUser /\ WidgetsAgree
    BY AgreeFollows DEF PostingInv
  <2>2. LinksLead /\ LoginsIdentify /\ EmailIsKept /\ CaptchaFits
    BY LinksFollow, AccountsFollow DEF PostingInv
  <2>3. PublishedBadgesStay /\ ModerationIsWhole
    BY ModerationFollows DEF PostingInv
  <2> QED
    BY <2>1, <2>2, <2>3
<1> QED
  BY <1>1, PostingInvariance, PTL
================================================================================
