------------------------------ MODULE SiteClaims ------------------------------
(***************************************************************************)
(* SiteSync with a history of the claims that peers have made to an        *)
(* address.  pareByOrigin takes one claim when an address becomes local,   *)
(* so that what the site is promised about its own definitions depends on  *)
(* whether the controller has ever held two.                               *)
(***************************************************************************)
EXTENDS SiteSync

VARIABLE contested   \* the addresses that byOrigin has held for two origins at
                     \* once, since the controller was started

claimVars == <<vars, contested>>

\* The addresses held for two origins.
Disputed(byO) == {a \in Addr : \E p, q \in Site : p # q /\ {p, q} \subseteq Holders(byO, a)}

ClaimsInit == Init /\ contested = {}

ClaimsNext ==
    /\ Next
    /\ contested' = IF phase' = "down" THEN {} ELSE contested \cup Disputed(byOrigin')

ClaimsSpec == ClaimsInit /\ [][ClaimsNext]_claimVars

-----------------------------------------------------------------------------
(* Properties.                                                             *)

\* With any number of peers, the definitions made at this site that a step leaves
\* as they are, contested addresses apart.
SparesUncontested ==
    \A a \in Addr \ contested : IsLocal(file, a) => file'[a] = file[a]

\* Ageing, whether it succeeds or fails half way, neither changes nor removes a
\* definition made at this site, if no two peers have claimed its address at once and
\* the controller has read the file as it is ("aged out service definitions from
\* origin ...", service_sync.go).
AgeingSparesUncontested == [][Quiet /\ (AgeOut \/ AgeFails) => SparesUncontested]_claimVars

\* No announcement changes, withdraws or takes over a definition made at this site,
\* under the same conditions.
UpdateSparesUncontested ==
    [][Quiet /\ (\E p \in Site, upd \in Announcement : ReceiveUpdate(p, upd))
            => SparesUncontested]_claimVars
=============================================================================
