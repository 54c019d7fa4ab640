------------------------------ MODULE MCServices ------------------------------
(***************************************************************************)
(* One TLC instance for the services around the orders.  They share no     *)
(* row, so nothing one of them does depends on another: a behaviour picks  *)
(* one part, and the others rest in one of their initial states.           *)
(***************************************************************************)
EXTENDS MessageServices, PlatformServices, CatalogueServices, CustomerServices,
        OrderPricing, RowLocks, TLC

VARIABLE part  \* the component that runs

customersVars == <<sessionVars, dashboardVars, cartVars, claimVars, factorVars, priceVars,
                   shipmentVars, deskVars, addressVars>>
servicesVars == <<part, messagesVars, catalogueVars, platformVars, customersVars, lockVars>>

\* One order has every variant, the others share the first with it; each variant is of its own
\* product.
SharedVariants ==
    LET largest == CHOOSE o \in OrderId : TRUE
    IN  [o \in OrderId |-> IF o = largest THEN VariantId ELSE {1}]
OwnProducts == [v \in VariantId |-> v]

\* What the bulk bar does and what is done to one order meet in the rows alone.
DeskInBulk ==
    /\ detail = NoDetail /\ shipping = Closed
    /\ \A w \in inFlight : w.kind = "bulk"
    /\ \A o \in DeskOrder :
         ~orders[o].tracked /\ (orders[o].status # "shipped" => list[o] # Hidden)

DeskOnOne ==
    /\ selectedIds = {} /\ bulkPreview = NoPreview /\ bulk = CHOOSE t \in Target : TRUE
    /\ Cardinality(inFlight) <= 1 /\ \A w \in inFlight : w.kind # "bulk"
    /\ detail = NoDetail \/ shipping = Closed
    /\ \E o \in DeskOrder : \A p \in DeskOrder \ {o} :
         orders[p].version = 0 /\ ~orders[p].tracked /\ list[p] = orders[p]

\* Addresses are interchangeable, so one assignment of them to the accounts stands for all;
\* the customers of a store whose claims rest are the first that fit.
SomeLogin == CHOOSE l \in [Account -> Address] : \A a, b \in Account : l[a] = l[b] => a = b
SomeCustomers ==
    CHOOSE x \in [Account \cup GuestOrder -> Customer] \X [Customer -> Address] :
        /\ \A c, d \in Customer : x[2][c] = x[2][d] => c = d
        /\ \A a \in Account : x[2][x[1][a]] = SomeLogin[a]

ServicesInit ==
    /\ part \in {"notifications", "mails", "callbacks", "drafts", "media", "themes", "reviews",
                 "stock", "imports", "calls", "keys", "domains", "subscriptions", "team",
                 "migrations", "sessions", "dashboard", "carts", "claims", "factors", "prices",
                 "shipments", "desk", "addresses", "locks"}
    /\ NotifyInit /\ MailInit /\ CallbackInit /\ DraftInit /\ MediaInit /\ ThemeInit
    /\ ReviewInit /\ StockInit /\ ImportInit /\ ApiInit /\ KeyInit /\ DomainInit
    /\ SubInit /\ TeamInit /\ MigrationInit /\ SessionInit /\ DashboardInit /\ CartInit
    /\ ClaimInit /\ FactorInit /\ PricingInit /\ ShipmentInit /\ DeskInit /\ AddressInit
    /\ LockInit
    /\ part # "sessions" => issued = 0
    /\ part # "keys" => planLimit = 1
    /\ part # "team" => seats = 2
    /\ part # "calls" => \A c \in Call : calls[c].body = CHOOSE b \in Body : TRUE
    /\ part # "subscriptions" => trials = <<>>
    /\ part # "themes" => themes[1].config = CHOOSE config \in Config : TRUE
    /\ login = SomeLogin /\ (part # "claims" => <<customer, customerMail>> = SomeCustomers)

MessagesNext ==
    \/ /\ part = "notifications" /\ NotifyNext
       /\ UNCHANGED <<mailVars, callbackVars>>
    \/ /\ part = "mails" /\ MailNext
       /\ UNCHANGED <<notifyVars, callbackVars>>
    \/ /\ part = "callbacks" /\ CallbackNext
       /\ UNCHANGED <<notifyVars, mailVars>>

CatalogueNext ==
    \/ /\ part = "drafts" /\ DraftNext
       /\ UNCHANGED <<mediaVars, themeVars, reviewVars, stockVars>>
    \/ /\ part = "media" /\ MediaNext
       /\ UNCHANGED <<draftVars, themeVars, reviewVars, stockVars>>
    \/ /\ part = "themes" /\ ThemeNext
       /\ UNCHANGED <<draftVars, mediaVars, reviewVars, stockVars>>
    \/ /\ part = "reviews" /\ ReviewNext
       /\ UNCHANGED <<draftVars, mediaVars, themeVars, stockVars>>
    \/ /\ part = "stock" /\ StockNext
       /\ UNCHANGED <<draftVars, mediaVars, themeVars, reviewVars>>

PlatformNext ==
    \/ /\ part = "imports" /\ ImportNext
       /\ UNCHANGED <<callVars, keyVars, domainVars, subVars, teamVars, migrationVars>>
    \/ /\ part = "calls" /\ ApiNext
       /\ UNCHANGED <<importVars, keyVars, domainVars, subVars, teamVars, migrationVars>>
    \/ /\ part = "keys" /\ KeyNext
       /\ UNCHANGED <<importVars, callVars, domainVars, subVars, teamVars, migrationVars>>
    \/ /\ part = "domains" /\ DomainNext
       /\ UNCHANGED <<importVars, callVars, keyVars, subVars, teamVars, migrationVars>>
    \/ /\ part = "subscriptions" /\ SubNext
       /\ UNCHANGED <<importVars, callVars, keyVars, domainVars, teamVars, migrationVars>>
    \/ /\ part = "team" /\ TeamNext
       /\ UNCHANGED <<importVars, callVars, keyVars, domainVars, subVars, migrationVars>>
    \/ /\ part = "migrations" /\ MigrationNext
       /\ UNCHANGED <<importVars, callVars, keyVars, domainVars, subVars, teamVars>>

CustomersNext ==
    \/ /\ part = "sessions" /\ SessionNext
       /\ UNCHANGED <<dashboardVars, cartVars, claimVars, factorVars, priceVars, shipmentVars,
                      deskVars, addressVars>>
    \/ /\ part = "dashboard" /\ DashboardNext
       /\ UNCHANGED <<sessionVars, cartVars, claimVars, factorVars, priceVars, shipmentVars,
                      deskVars, addressVars>>
    \/ /\ part = "carts" /\ CartNext
       /\ UNCHANGED <<sessionVars, dashboardVars, claimVars, factorVars, priceVars,
                      shipmentVars, deskVars, addressVars>>
    \/ /\ part = "claims" /\ ClaimNext
       /\ UNCHANGED <<sessionVars, dashboardVars, cartVars, factorVars, priceVars, shipmentVars,
                      deskVars, addressVars>>
    \/ /\ part = "factors" /\ FactorNext
       /\ UNCHANGED <<sessionVars, dashboardVars, cartVars, claimVars, priceVars, shipmentVars,
                      deskVars, addressVars>>
    \/ /\ part = "prices" /\ PricingNext
       /\ UNCHANGED <<sessionVars, dashboardVars, cartVars, claimVars, factorVars, shipmentVars,
                      deskVars, addressVars>>
    \/ /\ part = "shipments" /\ ShipmentNext
       /\ UNCHANGED <<sessionVars, dashboardVars, cartVars, claimVars, factorVars, priceVars,
                      deskVars, addressVars>>
    \/ /\ part = "desk" /\ DeskNext
       /\ UNCHANGED <<sessionVars, dashboardVars, cartVars, claimVars, factorVars, priceVars,
                      shipmentVars, addressVars>>
    \/ /\ part = "addresses" /\ AddressNext
       /\ UNCHANGED <<sessionVars, dashboardVars, cartVars, claimVars, factorVars, priceVars,
                      shipmentVars, deskVars>>

ServicesNext ==
    \/ MessagesNext /\ UNCHANGED <<part, catalogueVars, platformVars, customersVars, lockVars>>
    \/ CatalogueNext /\ UNCHANGED <<part, messagesVars, platformVars, customersVars, lockVars>>
    \/ PlatformNext /\ UNCHANGED <<part, messagesVars, catalogueVars, customersVars, lockVars>>
    \/ CustomersNext /\ UNCHANGED <<part, messagesVars, catalogueVars, platformVars, lockVars>>
    \/ /\ part = "locks" /\ LockNext
       /\ UNCHANGED <<part, messagesVars, catalogueVars, platformVars, customersVars>>

ServicesSpec == ServicesInit /\ [][ServicesNext]_servicesVars

\* The third choice of a recipient meets no fault.  Forced analyses make a product each; three
\* are enough for every interleaving.  Nothing is promised of the shipments of an order after
\* an administrator changed it by hand.  Questions and reviews share no counter, and the votes
\* on two reviews none.  One account changes its address at a time.  Codes and the secrets
\* they come from are proofs of their own.  Grants that overlap meet no publication: what
\* one of them does to the version of a plan, one alone does too.  A dead login only fails, and the tabs of one meet
\* in its cookies and the session alone.  The desk works in bulk, or on one order.  Locks: two
\* settlements, two checkouts, or one of another kind beside any transaction.
FewSteps ==
    /\ choices + notifyFaults <= 3
    /\ products <= 3 /\ orderChanges = 0
    /\ question = "none" \/ \A a \in Author : content[a] = "none"
    /\ \/ \A a \in Author, v \in Voter : votes[a][v] = "none"
       \/ Cardinality({a \in Author : content[a] # "none"}) = 1
    /\ \/ \A t \in Secret : secrets[t].st = "none"
       \/ \A g \in CodeSet, p \in Passkey : codeSets[g] = "none" /\ passkeys[p] = "none"
    /\ Cardinality({a \in Account : change[a] # {}}) <= 1
    /\ Cardinality({t \in Transaction :
           work[t].kind \notin {"none", "settle", "reopen", "adjust", "checkout"}}) <= 1
    /\ \/ Cardinality({g \in Granter : granter[g].pc # "idle"}) <= 1
       \/ \A u \in Publisher : publisher[u].pc = "idle"
    /\ session.st = "active"
    /\ Cardinality({requests[r].tab : r \in Request} \ {NoTab}) <= 1
    /\ part = "desk" => DeskInBulk \/ DeskOnOne

\* The configuration gives the workers and requests of every part, the orders of the desk and
\* rows that nothing tells apart the same names, and no definition names one.
ServicesSymmetry == Permutations(Notifier)

\* Every row, lock and request of the services holds a value its table's CHECK constraints
\* and its code know, whatever fails or is overtaken.
ServicesTypes ==
    /\ part = "locks" => LocksAreHeld
    /\ part = "notifications" => NotifyTypeOK
    /\ part = "mails" => MailTypeOK
    /\ part = "callbacks" => CallbackTypeOK
    /\ part = "drafts" => DraftTypeOK
    /\ part = "media" => MediaTypeOK
    /\ part = "themes" => ThemeTypeOK
    /\ part = "reviews" => ReviewTypeOK
    /\ part = "stock" => StockTypeOK
    /\ part = "imports" => ImportTypeOK
    /\ part = "calls" => ApiTypeOK
    /\ part = "keys" => KeyTypeOK
    /\ part = "domains" => DomainTypeOK
    /\ part = "subscriptions" => SubTypeOK
    /\ part = "team" => TeamTypeOK
    /\ part = "migrations" => MigrationTypeOK
    /\ part = "sessions" => SessionTypeOK
    /\ part = "dashboard" => DashboardTypeOK
    /\ part = "carts" => CartTypeOK
    /\ part = "claims" => ClaimTypeOK
    /\ part = "factors" => FactorTypeOK
    /\ part = "prices" => PricingTypeOK
    /\ part = "shipments" => ShipmentTypeOK
    /\ part = "desk" => DeskTypeOK
    /\ part = "addresses" => AddressTypeOK
=============================================================================
