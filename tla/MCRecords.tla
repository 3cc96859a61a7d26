----------------------------- MODULE MCRecords -----------------------------
(* Small instances of the modules about accounts, workers, the catalogue,    *)
(* prices, money and the apps around one booking.  They share no state here, *)
(* so a behaviour ("part") has one of them:                                  *)
(*   phone, visit      codes sent to a phone; the start code of a visit      *)
(*   app               the sessions of an app                                *)
(*   administration    administrators who change each other's accounts       *)
(*   staff             staff who sign in                                     *)
(*   files             a worker's file, from upload to purge                 *)
(*   checks, office    the checks of a worker with a complete profile, with  *)
(*                     a file that changes, or with a clean file and two     *)
(*                     officers                                              *)
(*   prices            the rows of a price table                             *)
(*   quotes            the arithmetic of a quote                             *)
(*   promotion         the use of a promotion                                *)
(*   settlement        closing finished bookings                             *)
(*   booking           a booking as its worker, customer and the desk move it *)
(*   checkout          a service booked from the app                         *)
(*   legal             legal documents and a person's consent                *)
EXTENDS Codes, Sessions, StaffAccess, Onboarding,
        PriceRules, Quotes, Promotions, Settlement, Visit, Checkout, Consents, TLC

CONSTANTS spare, d1, t1, r1, s1, o1, o2, o3, c1, c2, w1, w2, q1

VARIABLE part

Parts == {"phone", "visit", "app", "administration", "staff", "files", "checks", "office",
          "prices", "quotes", "promotion", "settlement",
          "booking", "checkout", "legal"}

-----------------------------------------------------------------------------
(* Values of the constants. *)

MCCheckOf == [d \in Docs |-> "IDENTITY"]

MCScopes == {{}, {"zone"}}

Fixed(value, taxable) == [kind |-> "FIXED", value |-> value, taxable |-> taxable]
Percent(value, taxable) == [kind |-> "PERCENT_OF_BASE", value |-> value, taxable |-> taxable]
MCChargeLists == {<<>>, <<Fixed(5000, FALSE)>>, <<Fixed(1, TRUE), Percent(1250, TRUE)>>,
                  <<Percent(3333, FALSE), Fixed(99, TRUE)>>, <<Percent(1, FALSE)>>}
Promo(type, value, most, least) == [type |-> type, value |-> value, most |-> most, least |-> least]
MCPromoOffers == {NoPromo, Promo("FLAT", 50000, 0, 0), Promo("FLAT", 100, 0, 20000),
                  Promo("PERCENT", 10000, 0, 0), Promo("PERCENT", 3333, 5000, 100),
                  Promo("PERCENT", 1, 1, 0)}

MCCustomerOf == o1 :> c1 @@ o2 :> c1 @@ o3 :> c2

-----------------------------------------------------------------------------
(* Where the parts begin. *)

\* A worker whose profile is complete; in the office one whose file is clean.
Midway ==
    /\ tx = [t \in Transactions |-> NoTx]
    /\ worker = [status |-> IF part = "office" THEN "VERIFICATION_PENDING" ELSE "DOCUMENTS_PENDING",
                 complete |-> TRUE, trained |-> FALSE, online |-> FALSE,
                 permitted |-> TRUE, restricted |-> FALSE]
    /\ checks = IF part = "office" THEN <<Row("IDENTITY", d1, "SUBMITTED")>> ELSE <<>>
    /\ IF part = "office"
       THEN /\ doc = [d \in Docs |-> [NoRow EXCEPT !.status = "CLEAN", !.sha = "clean", !.found = TRUE]]
            /\ object = [d \in Docs |-> "clean"]
            /\ link = {} /\ shown = [d \in Docs |-> {}]
            /\ request = [r \in Requests |-> Idle]
            /\ scan = [s \in Scans |-> Idle] /\ purge = [p \in Purges |-> Idle]
       ELSE DocumentsInit

\* Only its own part starts in more than one state.
MCInit ==
    /\ part \in Parts
    /\ CodesInit /\ SessionsInit /\ SettlementInit /\ VisitInit /\ CheckoutInit /\ ConsentsInit
    /\ StaffInit
    /\ part = "staff" => account[spare] = "NONE"
    /\ part \notin {"administration", "staff"} =>
          admins = Members /\ \A p \in Members : account[p] = "ACTIVE"
    /\ PricingInit /\ (part # "prices" => table = CHOOSE t \in Tables : TRUE)
    /\ QuotesInit /\ (part # "quotes" => quote = CalculateQuote(0, 0, <<>>, NoPromo))
    /\ PromotionsInit /\ (part # "promotion" => offer = CHOOSE o \in Offers : o.valid)
    /\ IF part \in {"checks", "office"} THEN Midway ELSE PeopleInit

-----------------------------------------------------------------------------
(* What happens in them. *)

Files ==
    /\ PeopleNext /\ UNCHANGED <<checks, tx, worker.permitted, worker.restricted>>
    /\ worker'.status \in {"REGISTERED", "REJECTED"}
    /\ (\E s \in Scans \ {s1} : scan'[s] # Idle) => \A p \in Purges : purge'[p] = Idle

Checks ==
    /\ PeopleNext /\ UNCHANGED <<purge, shown, worker.online, worker.restricted>>
    /\ worker'.status \in Onboarding \cup {"APPROVED", "ACTIVE"}
    /\ worker.status # "TRAINING_PENDING" => worker'.trained = worker.trained
    /\ \A t \in Transactions \ {t1} : tx'[t] = NoTx
    /\ \A s \in Scans \ {s1} : scan'[s] = Idle
    /\ \A d \in Docs :
          /\ object'[d] \in {object[d], None} \/ (object[d] = None /\ object'[d] # "invalid")
          /\ doc'[d].retain = "NO" /\ ~doc'[d].old
    /\ \A k \in DOMAIN checks : worker.status # "ACTIVE" => ~checks'[k].lapsed

Office == PeopleNext /\ UNCHANGED documents

\* w1 is offered the job first and may read it while a step is on its way; the
\* desk looks at three points of a visit and leaves it to the worker once the
\* worker is on the way, unless it starts the service for somebody; the customer
\* shows the code at the door and rates when no request is under way.
OneVisit ==
    /\ VisitNext
    /\ record'.reschedules < 2
    /\ customer'.code # customer.code => record.status = "ARRIVED"
    /\ customer'.rated => \A i \in 1..MaxSteps : steps'[i] = NoStep
    /\ record' = record /\ desk' # desk => record.status \in {"CONFIRMED", "ASSIGNED", "ARRIVED"}
    /\ record'.version > 4 => desk' = desk \/ record'.status = "IN_PROGRESS"
    /\ record'.version > 5 => record'.status \in {"IN_PROGRESS", "NO_SHOW", "COMPLETED", "CLOSED"}
    /\ assignment'[w2] # "NONE" => assignment'[w1] # "NONE"
    /\ job'[w1].loading # Blank => job'[w1].tries < 2
    /\ job'[w2].loading # Blank => job'[w2].step = 0

\* The optional choice is made before anything is published; only q1 books.
Legal ==
    /\ ConsentsNext
    /\ legal' = {} \/ choice' = [on |-> FALSE, sent |-> {}]
    /\ \A r \in Person \ {q1} : asked'[r].step \in {"idle", "accepting", "recording"}

Accounts == <<codes, sessions, staff, consents>>
Goods == <<pricing, quote, promotions>>
Bookings == <<settlement, visitVars, checkout>>

MCNext ==
    /\ UNCHANGED part
    /\ \/ /\ UNCHANGED <<people, documents, Goods, Bookings>>
          /\ \/ part = "phone" /\ CodesNext /\ UNCHANGED <<visit, sessions, staff, consents>>
             \/ part = "visit" /\ CodesNext /\ UNCHANGED <<challenge, today, sessions, staff, consents>>
             \/ part = "app" /\ SessionsNext /\ UNCHANGED <<codes, staff, consents>>
             \/ part = "administration" /\ Administering /\ UNCHANGED <<codes, sessions, signingIn, consents>>
             \/ part = "staff" /\ SigningIn /\ UNCHANGED <<codes, sessions, administration, consents>>
             \/ part = "legal" /\ Legal /\ UNCHANGED <<codes, sessions, staff>>
       \/ /\ UNCHANGED <<Accounts, Goods, Bookings>>
          /\ \/ part = "files" /\ Files
             \/ part = "checks" /\ Checks
             \/ part = "office" /\ Office
       \/ /\ UNCHANGED <<Accounts, people, documents, Bookings>>
          /\ \/ part = "prices" /\ PricingNext /\ UNCHANGED <<quote, promotions>>
             \/ part = "quotes" /\ QuotesNext /\ UNCHANGED <<pricing, promotions>>
             \/ part = "promotion" /\ PromotionsNext /\ UNCHANGED <<pricing, quote>>
       \/ /\ UNCHANGED <<Accounts, people, documents, Goods>>
          /\ \/ part = "settlement" /\ SettlementNext /\ UNCHANGED <<visitVars, checkout>>
             \/ part = "booking" /\ OneVisit /\ UNCHANGED <<settlement, checkout>>
             \/ part = "checkout" /\ CheckoutNext /\ UNCHANGED <<settlement, visitVars>>

MCSpec == MCInit /\ [][MCNext]_<<part, Accounts, people, documents, Goods, Bookings>>
=============================================================================
