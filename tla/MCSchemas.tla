----------------------------- MODULE MCSchemas -----------------------------
\* Forms at both sides of every limit, one or two fields of a good form changed.
EXTENDS Schemas

Text(length, amps, quotes) == [length |-> length, amps |-> amps, quotes |-> quotes]
MCTitles == {Text(n, 0, 0) : n \in {2, 3, 99, 100, 101}}
                \cup {Text(92, 1, 0), Text(97, 1, 0), Text(90, 0, 1), Text(96, 0, 1)}
MCDescriptions == {Text(n, 0, 0) : n \in {1, 9, 10, 19, 20, 5000, 5001}}
                \cup {Text(4988, 1, 0), Text(4990, 0, 1)}
MCPrices == {0, 4, 5, 10, 15, 999999990, 999999994, 999999995, 1000000000, 1000000005}

MCListing ==
    [kind |-> "listing", title |-> Text(20, 0, 0), description |-> Text(50, 0, 0),
     price |-> 25000, images |-> [count |-> 1, form |-> "picture"], dimension |-> 1000,
     offersShipping |-> TRUE, localPickup |-> TRUE, weight |-> 500, platforms |-> 1]
MCListings ==
    LET images == [count : {0, 1, 12, 13}, form : {"picture", "page", "urn"}] IN
    UNION {{[MCListing EXCEPT !.images = i, !.title = t] : i \in images, t \in MCTitles},
           {[MCListing EXCEPT !.images = i, !.price = p] : i \in images, p \in MCPrices},
           {[MCListing EXCEPT !.images.form = "urn", !.dimension = d, !.weight = w,
                !.offersShipping = o, !.localPickup = l, !.platforms = n] :
                d \in {0, 99, 100}, w \in {99, 100}, o \in BOOLEAN, l \in BOOLEAN,
                n \in {-1, 0, 1}}}
MCUpdates ==
    [kind : {"update"}, title : MCTitles, description : MCDescriptions,
     price : MCPrices, status : {"none", "ARCHIVED"}]
MCTransactions ==
    [kind : {"transaction"}, user : {"u1", "u2"}, buyerId : {"u1", "u2", "u3"},
     sellerId : {"u1", "u2"}, ids : {"uuid", "objectId"}, spaces : BOOLEAN,
     amount : {4, 5, 10, 12, 50000000, 50000004, 50000005},
     isLocalPickup : BOOLEAN, verificationRequired : BOOLEAN]
MCMessages ==
    [kind : {"message"}, user : {"u1"}, senderId : {"u1", "u2"},
     content : {0, 1, 5000, 5001}, type : {"TEXT", "OFFER"},
     offerAmount : {0, 9, 10, 999999990, 999999991}, attachments : {0, 10, 11},
     others : SUBSET {"transactionId", "systemMetadata"}]
MCRegistrations ==
    [kind : {"registration"}, email : {"lower", "mixed"}, firstName : {1, 2, 50, 51},
     spaces : BOOLEAN,
     password : [length : {7, 8, 128, 129}, mixed : BOOLEAN,
                 symbols : SUBSET {"common", "?", "#"}],
     confirmPassword : BOOLEAN]
MCProfiles ==
    [kind : {"profile"}, admin : BOOLEAN, email : {"none", "lower", "mixed"},
     firstName : {1, 2, 50, 51}, spaces : BOOLEAN, details : {"good", "bad"},
     extra : BOOLEAN,
     password : {NoPassword}
        \cup [length : {7, 8}, mixed : {TRUE}, symbols : {{}, {"common"}, {"?"}}],
     currentPassword : BOOLEAN]
MCPreferences ==
    [kind : {"preferences"}, notifications : {"none", "some", "all"}, others : BOOLEAN,
     extra : BOOLEAN]
MCSteps ==
    [kind : {"step"}, status : {"none", "CANCELLED"}, details : {"none", "good", "bad"},
     deadline : BOOLEAN, extra : BOOLEAN]
MCReceipts ==
    [kind : {"receipt"}, status : {"READ", "SEEN"}, metadata : {"none", "some", "all"}]
MCForms == MCListings \cup MCUpdates \cup MCTransactions \cup MCMessages
                \cup MCRegistrations \cup MCProfiles \cup MCPreferences \cup MCSteps
                \cup MCReceipts
=============================================================================
