--------------------------- MODULE LinkedAccounts ---------------------------
(***************************************************************************)
(* Profiles, the wallet address each shows, and the links through which a   *)
(* wallet or a Google account signs in.  Provider and account are unique in *)
(* linked_accounts, so the links are a function from accounts to profiles;  *)
(* profiles.wallet_address is unique.  Every call is a sequence of           *)
(* statements, few of which share a transaction.                             *)
(***************************************************************************)
EXTENDS Integers, FiniteSets

CONSTANTS
    Profiles,     \* bound: the ids of the profiles that are ever created
    Wallets,      \* the wallets
    Google,       \* the one Google account
    Nobody,       \* no profile, no address
    LinkCalls,    \* the calls in flight at once
    MaxDeleted    \* bound: profiles deleted and not yet purged

ASSUME LinkedAccountsAssumption ==
    /\ Google \notin Wallets /\ Nobody \notin Profiles \cup Wallets
    /\ IsFiniteSet(Wallets)
    /\ MaxDeleted \in Nat

VARIABLES
    profile,      \* the state of each profile
    address,      \* profiles.wallet_address
    emailed,      \* the profiles that carry the Google account's email
    link,         \* linked_accounts: whom each account signs in
    linkCall,     \* per call: what it does, where it is, for whom, which account
    born,         \* history: profiles that have had a link
    crossed,      \* history: two calls were in flight at once, or one broke off
    exposed       \* history: profiles with two unlinks at once, or that lost several
                  \* wallets in one

linkVars == <<profile, address, emailed, link, linkCall, born, crossed, exposed>>

Accounts == Wallets \cup {Google}
Provider(a) == IF a = Google THEN "google" ELSE "wallet"

Quiet == [does |-> "nothing", at |-> "idle", who |-> Nobody, id |-> Nobody]

LinksInit ==
    /\ profile = [p \in Profiles |-> "none"]
    /\ address = [p \in Profiles |-> Nobody]
    /\ emailed = {}
    /\ link = [a \in Accounts |-> Nobody]
    /\ linkCall = [c \in LinkCalls |-> Quiet]
    /\ crossed = FALSE /\ born = {} /\ exposed = {}

Exists(p) == profile[p] \in {"live", "deleted"}
LinksOf(p) == {a \in Accounts : link[a] = p}
LinkIdle(c) == linkCall[c].at = "idle"
Goto(c, place) == linkCall' = [linkCall EXCEPT ![c].at = place]
Finish(c) == linkCall' = [linkCall EXCEPT ![c] = Quiet]

Start(c, does, place, who, id) ==
    /\ linkCall' = [linkCall EXCEPT ![c] = [does |-> does, at |-> place, who |-> who,
                                    id |-> id]]
    /\ crossed' = (crossed \/ \E d \in LinkCalls : ~LinkIdle(d))

\* a statement fails: the call ends where it is
BreakOff(c) == Finish(c) /\ crossed' = TRUE
-----------------------------------------------------------------------------
(***************************************************************************)
(* Signing in.                                                              *)
(***************************************************************************)
\* A linked account signs its profile in, deleted or not; an account without a
\* link is on the way to a profile of its own.
SignIn(c) ==
    /\ LinkIdle(c)
    /\ \E a \in Accounts :
          /\ link[a] = Nobody
          /\ Start(c, "signin", IF a = Google THEN "email" ELSE "create", Nobody, a)
    /\ UNCHANGED <<profile, address, emailed, link, born, exposed>>

\* OAuth looks for a live profile with the same email first.
FindByEmail(c) ==
    /\ linkCall[c].at = "email"
    /\ IF \E p \in emailed : profile[p] = "live"
       THEN \E p \in emailed : /\ profile[p] = "live"
                               /\ linkCall' = [linkCall EXCEPT ![c].at = "link", ![c].who = p]
       ELSE Goto(c, "create")
    /\ UNCHANGED <<profile, address, emailed, link, crossed, born, exposed>>

\* The wallet's profile takes its address, which is unique: a profile that already
\* has it makes the statement fail.
CreateProfile(c) ==
    /\ linkCall[c].at = "create"
    /\ LET a == linkCall[c].id
           fresh == {p \in Profiles : profile[p] = "none"}
           p == CHOOSE q \in fresh : TRUE IN
       IF a # Google /\ \E q \in Profiles : address[q] = a
       THEN BreakOff(c) /\ UNCHANGED <<profile, address, emailed>>
       ELSE /\ fresh # {}
            /\ profile' = [profile EXCEPT ![p] = "live"]
            /\ address' = [address EXCEPT ![p] = IF a = Google THEN Nobody ELSE a]
            /\ emailed' = IF a = Google THEN emailed \cup {p} ELSE emailed
            /\ linkCall' = [linkCall EXCEPT ![c].at = "link", ![c].who = p]
            /\ UNCHANGED crossed
    /\ UNCHANGED <<link, born, exposed>>

\* linked_accounts.create fails on an account that is linked, or without a profile.
CreateLink(c) ==
    /\ linkCall[c].at = "link"
    /\ LET a == linkCall[c].id
           p == linkCall[c].who IN
       IF link[a] # Nobody \/ ~Exists(p)
       THEN BreakOff(c) /\ UNCHANGED <<link, born>>
       ELSE /\ link' = [link EXCEPT ![a] = p]
            /\ born' = born \cup {p}
            /\ IF linkCall[c].does = "signin" THEN Finish(c) ELSE Goto(c, "address")
            /\ UNCHANGED crossed
    /\ UNCHANGED <<profile, address, emailed, exposed>>
-----------------------------------------------------------------------------
(***************************************************************************)
(* Linking a wallet to a live profile: by /api/auth/link/wallet in two       *)
(* statements, by /api/auth/wallet/link in one transaction.                 *)
(***************************************************************************)
LinkWallet(c) ==
    /\ LinkIdle(c)
    /\ \E p \in Profiles, w \in Wallets :
          /\ profile[p] = "live"
          /\ link[w] = Nobody
          /\ \/ Start(c, "add", "link", p, w)
             \/ Start(c, "attach", "compare", p, w)
    /\ UNCHANGED <<profile, address, emailed, link, born, exposed>>

\* only a profile without an address takes the new one
SetAddress(c) ==
    /\ linkCall[c].at = "address"
    /\ LET p == linkCall[c].who
           w == linkCall[c].id IN
       IF \/ ~Exists(p)
          \/ address[p] # Nobody
       THEN Finish(c) /\ UNCHANGED <<address, crossed>>
       ELSE IF \E q \in Profiles : address[q] = w
            THEN BreakOff(c) /\ UNCHANGED address
            ELSE /\ address' = [address EXCEPT ![p] = w]
                 /\ Finish(c)
                 /\ UNCHANGED crossed
    /\ UNCHANGED <<profile, emailed, link, born, exposed>>

\* A profile with another address refuses the wallet.
CompareAddress(c) ==
    /\ linkCall[c].at = "compare"
    /\ IF address[linkCall[c].who] \in {Nobody, linkCall[c].id}
       THEN Goto(c, "both") ELSE Finish(c)
    /\ UNCHANGED <<profile, address, emailed, link, crossed, born, exposed>>

LinkAndAddress(c) ==
    /\ linkCall[c].at = "both"
    /\ LET p == linkCall[c].who
           w == linkCall[c].id IN
       IF \/ link[w] # Nobody
          \/ ~Exists(p)
          \/ \E q \in Profiles \ {p} : address[q] = w
       THEN BreakOff(c) /\ UNCHANGED <<link, address, born>>
       ELSE /\ link' = [link EXCEPT ![w] = p]
            /\ born' = born \cup {p}
            /\ address' = [address EXCEPT ![p] = w]
            /\ Finish(c)
            /\ UNCHANGED crossed
    /\ UNCHANGED <<profile, emailed, exposed>>
-----------------------------------------------------------------------------
(***************************************************************************)
(* Unlinking a provider.                                                    *)
(***************************************************************************)
\* Mutant: the last account may go.
TooFew_xNone(n) == n < 1

TooFew(n) == n <= 1

CountLinks(c) ==
    /\ LinkIdle(c)
    /\ \E p \in Profiles, a \in {Google, "wallet"} :
          /\ profile[p] = "live"
          /\ ~TooFew(Cardinality(LinksOf(p)))
          /\ Start(c, "unlink", "remove", p, a)
          /\ exposed' = exposed \cup
                {q \in {p} : \E d \in LinkCalls :
                                linkCall[d].at = "remove" /\ linkCall[d].who = q}
    /\ UNCHANGED <<profile, address, emailed, link, born>>

\* deleteMany takes every account of the provider, several wallets at once.
RemoveLinks(c) ==
    /\ linkCall[c].at = "remove"
    /\ LET p == linkCall[c].who
           gone == {a \in LinksOf(p) : Provider(a) = Provider(linkCall[c].id)} IN
       /\ link' = [a \in Accounts |-> IF a \in gone THEN Nobody ELSE link[a]]
       /\ exposed' = IF Cardinality(gone) > 1 THEN exposed \cup {p} ELSE exposed
    /\ IF linkCall[c].id = Google THEN Finish(c) ELSE Goto(c, "clear")
    /\ UNCHANGED <<profile, address, emailed, crossed, born>>

\* Mutant: the profile keeps its address.
Cleared_xKept(p) == address

Cleared(p) == [address EXCEPT ![p] = Nobody]

ClearAddress(c) ==
    /\ linkCall[c].at = "clear"
    /\ address' = Cleared(linkCall[c].who)
    /\ Finish(c)
    /\ UNCHANGED <<profile, emailed, link, crossed, born, exposed>>
-----------------------------------------------------------------------------
(***************************************************************************)
(* The end of a profile.                                                    *)
(***************************************************************************)
DeleteAccount(p) ==
    /\ profile[p] = "live"
    /\ Cardinality({q \in Profiles : profile[q] = "deleted"}) < MaxDeleted
    /\ profile' = [profile EXCEPT ![p] = "deleted"]
    /\ UNCHANGED <<address, emailed, link, linkCall, crossed, born, exposed>>

\* The purge of profiles deleted 30 days ago, or an admin's delete of any: the
\* links go with the profile, and its id is never used again.
RemoveProfile(p) ==
    /\ Exists(p)
    /\ profile' = [profile EXCEPT ![p] = "gone"]
    /\ address' = [address EXCEPT ![p] = Nobody]
    /\ emailed' = emailed \ {p}
    /\ link' = [a \in Accounts |-> IF link[a] = p THEN Nobody ELSE link[a]]
    /\ born' = born \ {p}
    /\ exposed' = exposed \ {p}
    /\ UNCHANGED <<linkCall, crossed>>

\* Bound: a call dies, or one of its statements fails, only as the first accident
\* of a behaviour.
CallBreaksOff(c) ==
    /\ ~LinkIdle(c)
    /\ ~crossed
    /\ BreakOff(c)
    /\ UNCHANGED <<profile, address, emailed, link, born, exposed>>

LinksNext ==
    \/ \E c \in LinkCalls :
          \/ SignIn(c) \/ FindByEmail(c) \/ CreateProfile(c) \/ CreateLink(c)
          \/ LinkWallet(c) \/ SetAddress(c) \/ CompareAddress(c) \/ LinkAndAddress(c)
          \/ CountLinks(c) \/ RemoveLinks(c) \/ ClearAddress(c)
          \/ CallBreaksOff(c)
    \/ \E p \in Profiles : DeleteAccount(p) \/ RemoveProfile(p)
-----------------------------------------------------------------------------
(***************************************************************************)
(* Properties.                                                              *)
(***************************************************************************)
\* Type invariant of profiles and links.
LinkedAccountsTypeOK ==
    /\ profile \in [Profiles -> {"none", "live", "deleted", "gone"}]
    /\ address \in [Profiles -> Wallets \cup {Nobody}]
    /\ emailed \subseteq Profiles
    /\ link \in [Accounts -> Profiles \cup {Nobody}]
    /\ linkCall \in [LinkCalls -> [does : {"nothing", "signin", "add", "attach", "unlink"},
                           at : {"idle", "email", "create", "link", "address",
                                 "compare", "both", "remove", "clear"},
                           who : Profiles \cup {Nobody},
                           id : Accounts \cup {"wallet", Nobody}]]
    /\ crossed \in BOOLEAN /\ born \subseteq Profiles
    /\ exposed \subseteq Profiles

\* A live profile that ever had an account to sign it in still has one, whatever
\* calls overlap or break off, unless two unlinks of it overlapped between the count
\* and the delete, or one unlink took several wallets at once
\* (unlink/[provider]/route.ts:24-39).
AlwaysAWayIn ==
    \A p \in born \ exposed :
       profile[p] = "live" => LinksOf(p) # {}

\* While calls come one after the other and none breaks off, the address that a
\* profile shows is one it is linked to, whatever was signed in, linked, unlinked,
\* deleted or purged before; a sign-in of that wallet never meets the unique key
\* (link/wallet/route.ts:57-73, wallet/link/route.ts:78-94, unlink:42-47).
AddressFollowsLink ==
    (~crossed /\ \A c \in LinkCalls : LinkIdle(c)) =>
       \A p \in Profiles : address[p] # Nobody => link[address[p]] = p
=============================================================================
