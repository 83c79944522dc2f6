-------------------------------- MODULE Accounts --------------------------------
(* The life of a user account: registration with a captcha, invitation, the      *)
(* links that are mailed, password resets, the change of name and email, and the *)
(* script that removes what was never used (resources/principal.py,              *)
(* resources/subscriber.py, rest/schemas.py, rest/views.py,                      *)
(* ad_delete_stale_login_data.py), with the pages that the frontend has for it   *)
(* (User/Views.ts, User/User.ts).  A request, what the server does and what the  *)
(* page makes of the answer are one step: no page does anything in between.      *)
EXTENDS Naturals

CONSTANTS UserResources,  \* the users that can be made, in their order
          MailedLinks,  \* the links that can be mailed, in their order
          UserNames, Emails,
          NoEmail, NoLink,
          Days,         \* the days on which something happens
          ROption,      \* ad_delete_stale_login_data -r, -u
          UOption,
          MaxActs,      \* bounds of the runs: what users do, what they do where
          CaptchaActs,  \*   there is a captcha, and how many challenges the
          MaxChallenges \*   captcha service makes

\* create_validate_activation_path and _raise_if_outdated.
ActivationDays == 8
ResetDays == 7

\* What is never used is kept for as long as its links are good.
ASSUME AccountsAssumption ==
    /\ NoEmail \notin Emails /\ NoLink \notin MailedLinks
    /\ UserResources \subseteq Nat /\ MailedLinks \subseteq Nat
    /\ Days \subseteq Nat /\ 0 \in Days
    /\ ROption \in Nat /\ UOption \in Nat
    /\ ROption >= ActivationDays /\ ROption >= ResetDays
    /\ MaxActs \in Nat /\ CaptchaActs \in 0..MaxActs /\ MaxChallenges \in Nat

VARIABLES
    today,      \* the day
    accounts,   \* the users: what their sheets and attributes hold
    mails,      \* the links: what they are for, and what their page shows
    resets,     \* the links whose password reset still exists
    register,   \* the page for registration, with its captcha
    profile,    \* the page for editing a user: what it was loaded with
    acts        \* how many things users have done

accountsVars == <<today, accounts, mails, resets, register, profile, acts>>

\* "at" is "none" before a user is made, and "gone" after it was removed.
\* History: "by" is what activated the user, "moved" whether the email was ever
\* replaced.
NoUser == [at |-> "none", name |-> "", email |-> NoEmail, fresh |-> NoEmail,
           active |-> FALSE, key |-> NoLink, born |-> 0, by |-> "", moved |-> FALSE]
NoMail == [kind |-> "none", of |-> NoLink, born |-> 0, page |-> "unopened"]
NoProfile == [at |-> "closed"]

IsThere(u) == accounts[u].at = "there"
\* The user and the link that are made next.
IsNew(u) == accounts[u].at = "none" /\ \A v \in UserResources : v < u => accounts[v].at # "none"
IsUnused(k) == mails[k].kind = "none" /\ \A l \in MailedLinks : l < k => mails[l].kind # "none"

\* is_older_than.
IsOlderThan(day, days) == today - day > days

\* Mutant: get_user_by_login finds only users that are visible.
NameFreeOfVisible(name) == \A u \in UserResources : IsThere(u) /\ accounts[u].active => accounts[u].name # name
\* deferred_validate_user_name and deferred_validate_user_email: an email that is
\* waiting for its link is nobody's email yet.
NameFree(name) == \A u \in UserResources : IsThere(u) => accounts[u].name # name
EmailFree(email) == \A u \in UserResources : IsThere(u) => accounts[u].email # email

Act == acts < MaxActs /\ acts' = acts + 1

--------------------------------------------------------------------------------
(* The captcha of the page for registration.                                    *)

\* Mutant: the answer for an audio challenge does not set the id.
ShowsWithoutId(page, f) ==
    IF f.audio THEN [page EXCEPT !.audio = f.n, !.audioEnabled = TRUE]
               ELSE [page EXCEPT !.id = f.n, !.image = f.n]
\* What the answer of the captcha service sets.
ShowsChallenge(page, f) ==
    IF f.audio THEN [page EXCEPT !.id = f.n, !.audio = f.n, !.audioEnabled = TRUE]
               ELSE [page EXCEPT !.id = f.n, !.image = f.n]

\* Old challenges are removed, and a new one is asked for.
Fetch(page, audio) ==
    [page EXCEPT !.image = 0, !.audio = 0, !.made = @ + 1,
                 !.audioEnabled = @ /\ audio,
                 !.fetching = @ \cup {[n |-> page.made + 1, audio |-> audio]},
                 !.overlapped = @ \/ page.fetching # {}]
FetchCaptchaImage(page) == Fetch(page, FALSE)
FetchCaptchaAudio(page) == Fetch(page, TRUE)
RefreshCaptcha(page) ==
    IF page.audioEnabled THEN FetchCaptchaAudio(page) ELSE FetchCaptchaImage(page)
ToggleAudio(page) == RefreshCaptcha([page EXCEPT !.audioEnabled = ~ @])

Shown(page) == IF page.audioEnabled THEN page.audio ELSE page.image
CanFetch == register.enabled /\ register.made < MaxChallenges

NewChallenge ==
    /\ CanFetch /\ Act
    /\ register' \in {RefreshCaptcha(register), ToggleAudio(register)}
    /\ UNCHANGED <<today, accounts, mails, resets, profile>>
GotChallenge ==
    /\ \E f \in register.fetching :
           LET page == [register EXCEPT !.fetching = @ \ {f}]
           IN  register' \in {ShowsChallenge(page, f), page}
    /\ UNCHANGED <<today, accounts, mails, resets, profile, acts>>

--------------------------------------------------------------------------------
(* Making a user.                                                               *)

\* The user and the link that apply_user_activation_configuration sends.
Creates(u, k, name, email, kind) ==
    /\ accounts' = [accounts EXCEPT ![u] =
                       [NoUser EXCEPT !.at = "there", !.name = name, !.email = email, !.born = today,
                                      !.key = IF kind = "activation" THEN k ELSE NoLink]]
    /\ mails' = [mails EXCEPT ![k] = [NoMail EXCEPT !.kind = kind, !.of = u, !.born = today]]
    /\ resets' = IF kind = "reset" THEN resets \cup {k} ELSE resets

\* register of User.ts: the captcha sheet is sent if there are an id and a guess.
SendsCaptcha(guess) == register.id # 0 /\ guess # 0
\* Then it must be right; it is required if captchas are on.
IsSolved(guess) == register.enabled => SendsCaptcha(guess) /\ guess = register.id

\* register: a refusal, or an answer that is lost, asks for a new challenge.
RegisterFails == register' = IF register.enabled THEN RefreshCaptcha(register) ELSE register
Register(name, email, guess) ==
    /\ Act
    /\ register.enabled => CanFetch
    /\ \/ /\ IsSolved(guess) /\ NameFree(name) /\ EmailFree(email)
          /\ \E u \in UserResources, k \in MailedLinks :
                 IsNew(u) /\ IsUnused(k) /\ Creates(u, k, name, email, "activation")
          /\ UNCHANGED register \/ RegisterFails
       \/ /\ ~ (IsSolved(guess) /\ NameFree(name) /\ EmailFree(email))
          /\ RegisterFails
          /\ UNCHANGED <<accounts, mails, resets>>
    /\ UNCHANGED <<today, profile>>

\* An administrator invites: the link is one that resets the password.
Invite(name, email) ==
    /\ Act
    /\ NameFree(name) /\ EmailFree(email)
    /\ \E u \in UserResources, k \in MailedLinks :
           IsNew(u) /\ IsUnused(k) /\ Creates(u, k, name, email, "reset")
    /\ UNCHANGED <<today, register, profile>>

--------------------------------------------------------------------------------
(* Links.                                                                       *)

LinkPage(k, outcome) == mails' = [mails EXCEPT ![k].page = outcome]

\* activate; one that is active already is not changed.
Activates(user, by) ==
    IF user.active THEN user ELSE [user EXCEPT !.active = TRUE, !.by = by]
\* activate_new_email, whether there is one or not: has_new_email_pending is a
\* method that is not called.
ActivatesNewEmail(user) ==
    [user EXCEPT !.email = user.fresh, !.fresh = NoEmail, !.moved = TRUE]

\* Mutant: the activation path stays.
FollowsAndKeepsKey(user) ==
    IF user.active THEN ActivatesNewEmail(user) ELSE Activates(user, "link")
FollowsActivationPath(user) ==
    [(IF user.active THEN ActivatesNewEmail(user) ELSE Activates(user, "link"))
        EXCEPT !.key = NoLink]

\* The activation path is looked for among the users, and is good for some days
\* after the user was made, whenever it was sent.
UserOfPath(k, u) == IsThere(u) /\ accounts[u].key = k
IsGoodFor(k, u) == UserOfPath(k, u) /\ ~ IsOlderThan(accounts[u].born, ActivationDays)

\* activateArea: the request is made when the page is opened.
ActivateArea(k) ==
    /\ Act
    /\ mails[k].kind = "activation"
    /\ \/ \E u \in UserResources :
              /\ IsGoodFor(k, u)
              /\ accounts' = [accounts EXCEPT ![u] = FollowsActivationPath(@)]
              /\ LinkPage(k, "success") \/ LinkPage(k, "failed")
       \/ /\ \A u \in UserResources : ~ IsGoodFor(k, u)
          /\ LinkPage(k, "failed")
          /\ UNCHANGED accounts
    /\ UNCHANGED <<today, resets, register, profile>>

\* create_password_reset: the validator of the email activates the user.  Where
\* several users have the email, the search fails.
CreatePasswordReset(email) ==
    /\ Act
    /\ \E u \in UserResources, k \in MailedLinks :
           /\ IsThere(u) /\ accounts[u].email = email
           /\ \A v \in UserResources \ {u} : IsThere(v) => accounts[v].email # email
           /\ IsUnused(k)
           /\ accounts' = [accounts EXCEPT ![u] = Activates(@, "reset")]
           /\ mails' = [mails EXCEPT ![k] =
                            [NoMail EXCEPT !.kind = "reset", !.of = u, !.born = today]]
           /\ resets' = resets \cup {k}
    /\ UNCHANGED <<today, register, profile>>

\* password_reset: the creator of the reset gets the password, and the reset is
\* removed.  Without a creator the request fails.
IsGoodReset(k) ==
    k \in resets /\ today - mails[k].born < ResetDays /\ IsThere(mails[k].of)
PasswordReset(k) ==
    /\ Act
    /\ mails[k].kind = "reset"
    /\ IF IsGoodReset(k)
       THEN /\ accounts' = [accounts EXCEPT ![mails[k].of] = Activates(@, "reset")]
            /\ resets' = resets \ {k}
            /\ LinkPage(k, "success") \/ LinkPage(k, "failed")
       ELSE /\ LinkPage(k, "failed")
            /\ UNCHANGED <<accounts, resets>>
    /\ UNCHANGED <<today, register, profile>>

--------------------------------------------------------------------------------
(* Editing a user.                                                              *)

OpenProfile(u) ==
    /\ acts < MaxActs
    /\ IsThere(u) /\ accounts[u].active
    /\ profile' = [at |-> "open", of |-> u]
    /\ UNCHANGED <<today, accounts, mails, resets, register, acts>>

\* postEdit reads the user again, and sends what differs from the form: an email
\* that was replaced since the form was opened is asked for again.
\* send_new_user_email_activation mails a new link.
PostEdit(name, email) ==
    /\ Act
    /\ profile.at = "open"
    /\ LET u == profile.of
       IN  /\ IsThere(u)
           /\ accounts[u].name # name => NameFree(name)
           /\ \/ /\ accounts[u].email = email
                 /\ accounts' = [accounts EXCEPT ![u].name = name]
                 /\ UNCHANGED mails
              \/ /\ accounts[u].email # email /\ EmailFree(email)
                 /\ \E k \in MailedLinks :
                        /\ IsUnused(k)
                        /\ accounts' = [accounts EXCEPT ![u].name = name, ![u].fresh = email,
                                                        ![u].key = k]
                        /\ mails' = [mails EXCEPT ![k] =
                               [NoMail EXCEPT !.kind = "activation", !.of = u, !.born = today]]
    /\ profile' = NoProfile
    /\ UNCHANGED <<today, resets, register>>

--------------------------------------------------------------------------------
(* Time, and the script that cleans up.                                         *)

Wait ==
    /\ \E day \in Days : day > today /\ today' = day
    /\ UNCHANGED <<accounts, mails, resets, register, profile, acts>>

\* Mutant: active users are removed, too.
ExpiredUsersOfAll(days) == {u \in UserResources : IsThere(u) /\ IsOlderThan(accounts[u].born, days)}
ExpiredUsers(days) ==
    {u \in UserResources : IsThere(u) /\ ~ accounts[u].active /\ IsOlderThan(accounts[u].born, days)}
ExpiredResets(days) == {k \in resets : IsOlderThan(mails[k].born, days)}

\* delete_stale_login_data takes the age of users first, and main gives it the
\* one of resets.
DeleteStaleLoginData ==
    /\ ExpiredUsers(ROption) \cup ExpiredResets(UOption) # {}
    /\ accounts' = [u \in UserResources |->
           IF u \in ExpiredUsers(ROption) THEN [accounts[u] EXCEPT !.at = "gone"] ELSE accounts[u]]
    /\ resets' = resets \ ExpiredResets(UOption)
    /\ UNCHANGED <<today, mails, register, profile, acts>>

--------------------------------------------------------------------------------
(* The specification.                                                           *)

NoPage == [enabled |-> FALSE, id |-> 0, image |-> 0, audio |-> 0, audioEnabled |-> FALSE,
           made |-> 0, fetching |-> {}, overlapped |-> FALSE]
AccountsInit ==
    /\ today = 0
    /\ accounts = [u \in UserResources |-> NoUser] /\ mails = [k \in MailedLinks |-> NoMail]
    /\ resets = {} /\ profile = NoProfile
    /\ \/ register = NoPage /\ acts = 0
       \/ /\ register = FetchCaptchaImage([NoPage EXCEPT !.enabled = TRUE])
          /\ acts = MaxActs - CaptchaActs
\* Nobody has an account.
AccountsIdle ==
    /\ today = 0 /\ acts = 0
    /\ accounts = [u \in UserResources |-> NoUser] /\ mails = [k \in MailedLinks |-> NoMail] /\ resets = {}
    /\ register = NoPage /\ profile = NoProfile

AccountsNext ==
    \/ NewChallenge \/ GotChallenge
    \/ \E name \in UserNames, email \in Emails :
           \/ \E guess \in {0, Shown(register)} : Register(name, email, guess)
           \/ Invite(name, email) \/ PostEdit(name, email)
    \/ \E k \in MailedLinks : ActivateArea(k) \/ PasswordReset(k)
    \/ \E email \in Emails : CreatePasswordReset(email)
    \/ \E u \in UserResources : OpenProfile(u)
    \/ Wait \/ DeleteStaleLoginData

AccountsSpec == AccountsInit /\ [][AccountsNext]_accountsVars

--------------------------------------------------------------------------------
(* Properties.                                                                  *)

\* A link leads to the account that it was mailed for, for as long as it is good:
\* the script removes no account before the links to it have expired, and none
\* that a page has told its user is active.
LinksLead ==
    \A k \in MailedLinks :
        LET u == mails[k].of
        IN  /\ mails[k].kind = "activation" /\ ~ IsOlderThan(mails[k].born, ActivationDays) =>
                    IsThere(u) /\ (accounts[u].key = k \/ accounts[u].active)
            /\ k \in resets /\ today - mails[k].born < ResetDays => IsThere(u)
            /\ mails[k].page = "success" => IsThere(u) /\ accounts[u].active

\* No two users have the same name, or the same email, unless one of them
\* replaced the email: the new one is not reserved while its link is out
\* (deferred_validate_user_name, deferred_validate_user_email; _search_user
\* cannot handle two).
LoginsIdentify ==
    \A u, v \in UserResources : IsThere(u) /\ IsThere(v) /\ u # v =>
        /\ accounts[u].name # accounts[v].name
        /\ accounts[u].email = accounts[v].email => accounts[u].moved \/ accounts[v].moved

\* An email is lost only to the link of a registration that a password reset had
\* made needless: whoever was activated by the link can be reached ("No new email
\* waiting for activation").
EmailIsKept ==
    \A u \in UserResources : IsThere(u) /\ accounts[u].by # "reset" => accounts[u].email # NoEmail

\* The challenge that a user sees or hears is the one that the answer will be sent
\* for, as long as one challenge is asked for at a time.
CaptchaFits ==
    ~ register.overlapped /\ Shown(register) # 0 => register.id = Shown(register)
================================================================================
