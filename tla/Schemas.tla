------------------------------- MODULE Schemas -------------------------------
(***************************************************************************)
(* The layers of rules that a request passes on its way to a row: the      *)
(* validator of its route, the handler with the service behind it, and the *)
(* model.  Each has limits of its own, and not every layer works with what *)
(* the layer before it has checked.  A form is the data of one request.    *)
(* Of a text it has the length and how many characters escaping lengthens; *)
(* money, lengths and weights are in thousandths.                          *)
(***************************************************************************)
EXTENDS Integers

CONSTANTS Forms,     \* the requests
          MaxSent    \* bound: how often what was stored is sent back

\* Forms, and what the layers make of them.  The images of a listing are
\* pictures, pages or URNs; "escaped" stands for what escaping makes of a URL.
Texts == [length : Nat, amps : Nat, quotes : Nat]
ListingForm ==
    [kind : {"listing"}, title : Texts, description : Texts, price : Int,
     images : [count : Nat, form : {"picture", "page", "urn", "escaped"}], dimension : Int,
     offersShipping : BOOLEAN, localPickup : BOOLEAN, weight : Int, platforms : Int]
UpdateForm ==
    [kind : {"update"}, title : Texts, description : Texts, price : Int, status : STRING]
TransactionForm ==
    [kind : {"transaction"}, user : STRING, buyerId : STRING, sellerId : STRING,
     ids : {"uuid", "objectId"}, spaces : BOOLEAN, amount : Int,
     isLocalPickup : BOOLEAN, verificationRequired : BOOLEAN]
MessageForm ==
    [kind : {"message"}, user : STRING, senderId : STRING, content : Nat, type : STRING,
     offerAmount : Int, attachments : Nat, others : SUBSET {"transactionId", "systemMetadata"}]
Passwords == [length : Nat, mixed : BOOLEAN, symbols : SUBSET STRING]
NoPassword == [length |-> 0, mixed |-> FALSE, symbols |-> {}]
RegistrationForm ==
    [kind : {"registration"}, email : {"lower", "mixed"}, firstName : Nat, spaces : BOOLEAN,
     password : Passwords, confirmPassword : BOOLEAN]

\* The length of a name is that without the spaces around it; "details" stands for
\* the fields with a pattern, "extra" for fields that the schema does not know:
\* in a profile, the roles and isVerified.
ProfileForm ==
    [kind : {"profile"}, admin : BOOLEAN, email : {"none", "lower", "mixed"},
     firstName : Nat, spaces : BOOLEAN, details : {"good", "bad"}, extra : BOOLEAN,
     password : {NoPassword} \cup {p \in Passwords : p.length > 0}, currentPassword : BOOLEAN]
PreferencesForm ==
    [kind : {"preferences"}, notifications : {"none", "some", "all"}, others : BOOLEAN,
     extra : BOOLEAN]
StepForm ==
    [kind : {"step"}, status : STRING, details : {"none", "good", "bad"},
     deadline : BOOLEAN, extra : BOOLEAN]
ReceiptForm ==
    [kind : {"receipt"}, status : STRING, metadata : {"none", "some", "all"}]
Form == ListingForm \cup UpdateForm \cup TransactionForm \cup MessageForm
            \cup RegistrationForm \cup ProfileForm \cup PreferencesForm
            \cup StepForm \cup ReceiptForm

ASSUME SchemasAssumption == MaxSent \in Nat /\ Forms \subseteq Form

VARIABLES
    sent,       \* the form as the client sent it
    used,       \* the form that the handler works with
    stage,      \* how far it has come
    times       \* how often it was sent back

schemasVars == <<sent, used, stage, times>>

Stages == {"sent", "refused", "accepted", "unhandled", "handled", "unstored", "stored"}

SchemasTypeOK ==
    /\ sent \in Form /\ used \in Form /\ used.kind = sent.kind
    /\ stage \in Stages
    /\ times \in 0 .. MaxSent

SchemasInit ==
    /\ sent \in Forms /\ used = sent
    /\ stage = "sent" /\ times = 0

Within(n, low, high) == low <= n /\ n <= high
Cents(n) == 10 * n

(***************************************************************************)
(* What the validators make of a form before they look at it.              *)
(***************************************************************************)

\* sanitizeInput() of a text without tags: "&" becomes "&amp;", a quote or a
\* slash an entity of six characters, one of them an ampersand.
Escaped(text) == [length |-> text.length + 4 * text.amps + 5 * text.quotes,
                  amps |-> text.amps + text.quotes, quotes |-> 0]

\* The slashes of a URL become entities, each with a "#"; a URI has at most one.
EscapedImages(images) ==
    [images EXCEPT !.form = IF @ = "urn" THEN "urn" ELSE "escaped"]

\* number().precision(2) rounds before it compares.
Rounded(amount) == Cents((amount + 5) \div 10)

\* The form that the validator of its route returns if it accepts it.
Converted(f) ==
    CASE f.kind = "listing" ->
            [f EXCEPT !.title = Escaped(@), !.description = Escaped(@),
                      !.price = Rounded(@), !.images = EscapedImages(@)]
      [] f.kind = "update" ->
            [f EXCEPT !.title = Escaped(@), !.description = Escaped(@),
                      !.price = Rounded(@)]
      [] f.kind = "transaction" -> [f EXCEPT !.amount = Rounded(@), !.spaces = FALSE]
      [] f.kind = "registration" -> [f EXCEPT !.email = "lower", !.spaces = FALSE]
      [] f.kind = "profile" ->
            [f EXCEPT !.email = IF @ = "none" THEN @ ELSE "lower", !.spaces = FALSE,
                      !.extra = FALSE]
      [] f.kind \in {"preferences", "step"} -> [f EXCEPT !.extra = FALSE]
      [] f.kind \in {"message", "receipt"} -> f

(***************************************************************************)
(* The rules of the validators.                                            *)
(***************************************************************************)
TextsAccepted(f) ==
    /\ Within(f.title.length, 3, 100)
    /\ Within(f.description.length, 20, 5000)
    /\ Within(f.price, Cents(1), Cents(100000000))

\* LISTING_VALIDATION_SCHEMA and validateListingCreation: the three dimensions
\* are given as one, a listing without platforms as one with -1 of them.
ListingAccepted(f) ==
    /\ TextsAccepted(f)
    /\ Within(f.images.count, 1, 12) /\ f.images.form # "escaped"
    /\ f.dimension >= 100
    /\ f.weight >= 100
    /\ f.platforms # 0

\* No status is reached from no status, and nothing sets req.params.currentStatus.
StatusAllowed(f) == f.status = "none"

\* Bug: a description may be as short as two characters.
BugUpdateAccepted(f) ==
    /\ StatusAllowed(f)
    /\ TextsAccepted([f EXCEPT !.description.length = IF @ < 20 THEN @ + 18 ELSE @])

\* Bug: the title may not have the full 100 characters.
BugUpdateShort(f) == StatusAllowed(f) /\ TextsAccepted(f) /\ f.title.length < 100

\* validateListingUpdate, for an update of the texts, the price and the status.
UpdateAccepted(f) == StatusAllowed(f) /\ TextsAccepted(f)

\* Bug: buyer and seller are not compared.
BugBuyerIsNotSeller(f) == TRUE

\* validateCreateTransaction, after the schema.
BuyerIsNotSeller(f) == f.buyerId # f.sellerId

\* createTransactionSchema and validateCreateTransaction.
TransactionAccepted(f) ==
    /\ f.ids = "uuid"
    /\ Within(f.amount, Cents(1), Cents(5000000))
    /\ f.isLocalPickup => f.verificationRequired
    /\ BuyerIsNotSeller(f)

\* createMessageSchema; 0 stands for no offer.
MessageAccepted(f) ==
    /\ Within(f.content, 1, 5000)
    /\ f.type = "OFFER" => Within(f.offerAmount, Cents(1), Cents(99999999))
    /\ f.attachments <= 10

\* PASSWORD_REGEX has an alphabet of its own, with "?" and without "#" and "^";
\* its other symbols are those of the service ("common").
PasswordAccepted(password) ==
    /\ password.length >= 8 /\ password.mixed
    /\ password.symbols # {} /\ password.symbols \subseteq {"common", "?"}

\* registrationSchema.
RegistrationAccepted(f) ==
    Within(f.firstName, 2, 50) /\ PasswordAccepted(f.password) /\ f.confirmPassword

\* updateSchema: what userBaseSchema requires is required of an update, too.
ProfileAccepted(f) ==
    /\ f.email # "none" /\ Within(f.firstName, 2, 50) /\ f.details = "good"
    /\ f.currentPassword <=> f.password.length > 0
    /\ f.currentPassword => PasswordAccepted(f.password)

\* preferencesSchema: its four parts are required, and all of the first.
PreferencesAccepted(f) == f.notifications = "all" /\ f.others

\* isValidStatusTransition: nothing sets req.transaction, so none is allowed.
StepAllowed(f) == f.status = "none"

\* updateTransactionSchema and validateUpdateTransaction; a deadline is compared
\* with a field "now" that no form has.
StepAccepted(f) == StepAllowed(f) /\ f.details # "bad" /\ ~ f.deadline

\* aiMetadataSchema: the metadata are optional, but not five of their seven fields.
MetadataAccepted(f) == f.metadata # "some"

\* updateMessageSchema.
ReceiptAccepted(f) ==
    f.status \in {"SENT", "DELIVERED", "READ", "FAILED", "BLOCKED", "PENDING_MODERATION"}
    /\ MetadataAccepted(f)

Accepted(f) ==
    CASE f.kind = "listing" -> ListingAccepted(f)
      [] f.kind = "update" -> UpdateAccepted(f)
      [] f.kind = "transaction" -> TransactionAccepted(f)
      [] f.kind = "message" -> MessageAccepted(f)
      [] f.kind = "registration" -> RegistrationAccepted(f)
      [] f.kind = "profile" -> ProfileAccepted(f)
      [] f.kind = "preferences" -> PreferencesAccepted(f)
      [] f.kind = "step" -> StepAccepted(f)
      [] f.kind = "receipt" -> ReceiptAccepted(f)

(***************************************************************************)
(* The rules behind them.                                                  *)
(***************************************************************************)

\* getAllowedUpdates: of the body as it came, without the password; only an admin
\* sets an address, and roles.
AllowedUpdates(f) ==
    [f EXCEPT !.email = IF f.admin THEN @ ELSE "none", !.password = NoPassword,
              !.currentPassword = FALSE, !.extra = f.admin /\ @]

\* validatePreferences puts notifications where there are none.
MergedPreferences(f) == [f EXCEPT !.notifications = IF @ = "none" THEN "all" ELSE @]

\* What the handler takes: the listing's body is replaced by what was accepted;
\* createTransaction reads the body as it came, the buyer from the token, and asks
\* for a verification of a local pickup only;
\* sendMessage takes the sender from the token, and no offer, attachment,
\* transaction or metadata along; createUser reads the body.
Taken(f) ==
    CASE f.kind \in {"listing", "update"} -> Converted(f)
      [] f.kind = "transaction" ->
            [f EXCEPT !.buyerId = f.user, !.verificationRequired = f.isLocalPickup]
      [] f.kind = "message" -> 
            [f EXCEPT !.senderId = f.user, !.offerAmount = 0, !.attachments = 0,
                      !.others = {}]
      [] f.kind = "profile" -> AllowedUpdates(f)
      [] f.kind = "preferences" -> MergedPreferences(f)
      [] f.kind = "step" -> [f EXCEPT !.details = "none"]
      [] f.kind \in {"registration", "receipt"} -> f

\* The parameters in the paths of the routes, and the methods of MessageController.
UserParameters == {}
TransactionParameters == {"id"}
MessageMethods == {"sendMessage", "getMessages"}

\* validatePassword() of hashNewPassword(); validateTransactionData(); what the
\* other handlers look for before anything else: the user or transaction that
\* the path names, and the route of a receipt its method.
Handled(f) ==
    CASE f.kind = "registration" ->
            /\ Within(f.password.length, 8, 128) /\ f.password.mixed
            /\ f.password.symbols \cap {"common", "#"} # {}
      [] f.kind = "transaction" -> f.amount > 0
      [] f.kind \in {"profile", "preferences"} -> "id" \in UserParameters
      [] f.kind = "step" -> "transactionId" \in TransactionParameters
      [] f.kind = "receipt" -> "updateMessageStatus" \in MessageMethods
      [] f.kind \in {"listing", "update", "message"} -> TRUE

\* Listing.beforeValidate refuses a third decimal.
PriceStored(price) == Within(price, Cents(1), Cents(99999999)) /\ price % 10 = 0

\* The Sequelize model of listings; an update has the texts and price validated.
ListingStored(f) ==
    /\ Within(f.title.length, 3, 255)
    /\ Within(f.description.length, 10, 5000)
    /\ PriceStored(f.price)
    /\ f.kind = "listing" =>
        /\ Within(f.images.count, 1, 12) /\ f.images.form = "picture"
        /\ f.dimension # 0
        /\ f.offersShipping \/ f.localPickup
        /\ f.offersShipping => f.weight # 0

\* The Mongoose model of transactions: its ids are ObjectIds, and of the fees it
\* requires calculateTransactionFees leaves one out.
FeesRequired == {"platformFee", "processingFee", "buyShieldFee", "shippingFee", "totalFees"}
FeesCalculated == {"platformFee", "processingFee", "buyShieldFee", "totalFees"}

\* validateStatusTransition() before a save compares the new status with itself.
Transitions ==
    [INITIATED |-> {"PAYMENT_PENDING", "CANCELLED"},
     PAYMENT_PENDING |-> {"PAYMENT_COMPLETED", "CANCELLED"},
     PAYMENT_COMPLETED |-> {"AWAITING_MEETUP", "AWAITING_SHIPPING", "DISPUTED"},
     AWAITING_MEETUP |-> {"COMPLETED", "DISPUTED", "CANCELLED"},
     AWAITING_SHIPPING |-> {"COMPLETED", "DISPUTED", "CANCELLED"},
     DISPUTED |-> {"COMPLETED", "CANCELLED"}]
StatusSaved(status) == status \in Transitions[status]

TransactionStored(f) ==
    /\ f.ids = "objectId"
    /\ f.amount >= 0
    /\ FeesRequired \subseteq FeesCalculated
    /\ StatusSaved("INITIATED")

MessageStored(f) == Within(f.content, 1, 5000)

\* User.beforeCreate checks the password that it is given, which is a hash in
\* base64: it has none of the symbols of validatePasswordComplexity.
HashSymbols == {}
RegistrationStored(f) == f.firstName > 0 /\ HashSymbols \cap {"common", "#"} # {}

\* None of the other forms is handled.
Stored(f) ==
    CASE f.kind \in {"listing", "update"} -> ListingStored(f)
      [] f.kind = "transaction" -> TransactionStored(f)
      [] f.kind = "message" -> MessageStored(f)
      [] f.kind = "registration" -> RegistrationStored(f)

(***************************************************************************)
(* The way of a request.                                                   *)
(***************************************************************************)
Validate ==
    /\ stage = "sent"
    /\ IF Accepted(Converted(sent))
         THEN stage' = "accepted" /\ used' = Taken(sent)
         ELSE stage' = "refused" /\ UNCHANGED used
    /\ UNCHANGED <<sent, times>>

Handle ==
    /\ stage = "accepted"
    /\ stage' = IF Handled(used) THEN "handled" ELSE "unhandled"
    /\ UNCHANGED <<sent, used, times>>

Store ==
    /\ stage = "handled"
    /\ stage' = IF Stored(used) THEN "stored" ELSE "unstored"
    /\ UNCHANGED <<sent, used, times>>

\* The owner reads the listing and sends the texts back as they are.
SendBack ==
    /\ stage = "stored" /\ sent.kind = "update" /\ times < MaxSent
    /\ sent' = used
    /\ stage' = "sent" /\ times' = times + 1
    /\ UNCHANGED used

SchemasNext == Validate \/ Handle \/ Store \/ SendBack

SchemasSpec == SchemasInit /\ [][SchemasNext]_schemasVars

-----------------------------------------------------------------------------
(* Properties. *)

\* What one layer accepts, the layers behind it accept, but for: the price of a
\* million; images that pass the validator, which the model refuses; passwords
\* over 128 characters or with "?" as their only symbol; every transaction and
\* every registration, which their models cannot store; every change of a
\* profile, of preferences, of a transaction and of a message's status, whose
\* handlers miss a parameter or are missing.  (The Joi schemas and the routes
\* against validatePassword, the controllers and the models.)
LayersAgree ==
    /\ stage = "unhandled" =>
        \/ /\ sent.kind = "registration"
           /\ sent.password.length > 128 \/ sent.password.symbols = {"?"}
        \/ sent.kind \in {"profile", "preferences", "step", "receipt"}
    /\ stage = "unstored" =>
        \/ sent.kind \in {"transaction", "registration"}
        \/ sent.kind = "listing" /\ sent.images.form = "urn"
        \/ sent.kind = "update" /\ Rounded(sent.price) = Cents(100000000)

\* The handler works with what was checked, but for: a transaction's buyer, who
\* is the user and not the one that was compared with the seller, the third
\* decimal of its amount and a verification without a pickup; a message's sender,
\* who is the user, its offer, attachments, transaction and metadata; the case of
\* an address and the spaces around names and ids; of a profile what only admins
\* may change, and a password; fields that the schema would have dropped, and
\* those of a transaction's step.  So only who names somebody else as the buyer
\* buys from himself, and nobody sends a message in another user's name.
CheckedIsUsed ==
    stage \notin {"sent", "refused"} =>
        /\ \/ used = Converted(sent)
           \/ /\ sent.kind = "transaction"
              /\ \/ sent.buyerId # sent.user \/ sent.amount % 10 # 0 \/ sent.spaces
                 \/ sent.verificationRequired /\ ~sent.isLocalPickup
           \/ /\ sent.kind = "message"
              /\ \/ sent.senderId # sent.user
                 \/ sent.offerAmount # 0 \/ sent.attachments # 0 \/ sent.others # {}
           \/ sent.kind = "registration" /\ (sent.email # "lower" \/ sent.spaces)
           \/ /\ sent.kind = "profile"
              /\ \/ ~ sent.admin \/ sent.email # "lower"
                 \/ sent.spaces \/ sent.extra \/ sent.currentPassword
           \/ sent.kind \in {"preferences", "step"} /\ sent.extra
           \/ sent.kind = "step" /\ sent.details # "none"
        /\ sent.kind = "transaction" /\ used.buyerId = used.sellerId =>
            sent.buyerId # sent.user
        /\ sent.kind = "message" => used.senderId = sent.user

\* An update within the limits that a listing is created with is accepted,
\* however often it is sent back, unless escaping makes its texts longer.
SentBackAccepted ==
    sent.kind = "update" /\ stage = "refused" /\ sent.status = "none"
            /\ TextsAccepted([sent EXCEPT !.price = Rounded(@)]) =>
        sent.title.amps + sent.title.quotes
            + sent.description.amps + sent.description.quotes > 0

=============================================================================
