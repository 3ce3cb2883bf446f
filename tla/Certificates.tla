---------------------------- MODULE Certificates ----------------------------
(* What the browser remembers of the certificates of hosts: the map of        *)
(* CertificateContents, the rows of CertificateStorage it is read from when   *)
(* the browser starts, and the questions SimpleUI asks the user.              *)
EXTENDS Integers, Sequences, FiniteSets

CONSTANTS Hosts,
          Pems,         \* certificates
          Readable,     \* those that createCertificate can parse
          MaxQuestions  \* bound: questions open at the same time

(* HOST_TYPE.                                                                 *)
SECURE_HOST == 1
UNSECURE_HOST_ALLOWED == 2
UNSECURE_HOST_UNKNOWN == 3
HOST_ABSENT == -1
HostTypes == {SECURE_HOST, UNSECURE_HOST_ALLOWED, UNSECURE_HOST_UNKNOWN, HOST_ABSENT}

CertificatesAssumption == Readable \subseteq Pems /\ MaxQuestions \in Nat

VARIABLES hostCert,   \* m_host_cert_info; HOST_ABSENT also when there is no entry
          rows,       \* CERTIFICATE_TABLE: [Hosts -> sets of at most one row]
          page,       \* the page on screen: its host, and whether the state is
                      \* MAIN_WEB_PAGE
          questions,  \* the popups that ask about a host, the last on top
          viewing,    \* the popup with a certificate is above them
          wrong,      \* history: hosts a wrong certificate was kept for
          continued   \* history: hosts the user went on to

vars == <<hostCert, rows, page, questions, viewing, wrong, continued>>

Question == [host : Hosts, pem : Pems]

TypeOK ==
    /\ hostCert \in [Hosts -> HostTypes]
    /\ \A h \in Hosts : /\ rows[h] \subseteq [pem : Pems, allow : HostTypes]
                        /\ Cardinality(rows[h]) <= 1
    /\ page \in [host : Hosts, main : BOOLEAN]
    /\ questions \in Seq(Question) /\ Len(questions) <= MaxQuestions
    /\ viewing \in BOOLEAN
    /\ wrong \subseteq Hosts /\ continued \subseteq Hosts

Init ==
    /\ hostCert = [h \in Hosts |-> HOST_ABSENT]
    /\ rows = [h \in Hosts |-> {}]
    /\ page \in [host : Hosts, main : {TRUE}]
    /\ questions = <<>>
    /\ viewing = FALSE
    /\ wrong = {} /\ continued = {}

-----------------------------------------------------------------------------
(* createCertificate and _parse_certificate, of a set of at most one.         *)
Parsed(pem) == pem # {} /\ pem \subseteq Readable

(* setCurrentTabCertData: a certificate that cannot be read, and the empty    *)
(* string, make the host unknown.                                             *)
SetCurrentTabCertData(host, pem, type) ==
    hostCert' = [hostCert EXCEPT ![host] =
                   IF Parsed(pem) THEN type ELSE UNSECURE_HOST_UNKNOWN]

(* addOrUpdateCertificateEntry logs the error of a write that fails.          *)
AddOrUpdate(host, pem, type, stored) ==
    rows' = IF stored THEN [rows EXCEPT ![host] = {[pem |-> pem, allow |-> type]}]
                      ELSE rows

(* Mutant: a valid certificate makes the host secure.                         *)
AlwaysSecure(host) == SECURE_HOST

(* saveCertificateInfo keeps the type the host has.                           *)
SavedType(host) ==
    IF hostCert[host] = HOST_ABSENT THEN SECURE_HOST ELSE hostCert[host]

SaveCertificateInfo(host, pem, stored) ==
    /\ SetCurrentTabCertData(host, {pem}, SavedType(host))
    /\ AddOrUpdate(host, pem, SavedType(host), stored)
    /\ continued' = IF pem \in Readable THEN continued ELSE continued \ {host}
    /\ UNCHANGED wrong

SaveWrongCertificateInfo(host, pem, stored, asked) ==
    /\ SetCurrentTabCertData(host, {pem}, UNSECURE_HOST_ALLOWED)
    /\ AddOrUpdate(host, pem, UNSECURE_HOST_ALLOWED, stored)
    /\ wrong' = wrong \cup {host}
    /\ continued' = IF pem \notin Readable THEN continued \ {host}
                    ELSE IF asked /\ stored THEN continued \cup {host}
                    ELSE continued

-----------------------------------------------------------------------------
(* __setCertificatePem, when the page on screen has loaded over https.        *)
CertificateChanged(pem, valid, stored) ==
    /\ IF valid THEN SaveCertificateInfo(page.host, pem, stored)
                ELSE SaveWrongCertificateInfo(page.host, pem, stored, FALSE)
    /\ UNCHANGED <<page, questions, viewing>>

(* The page goes to another host; another view takes the screen or gives it   *)
(* back: no popup stays open over that.                                       *)
Navigate(host) ==
    /\ questions = <<>> /\ ~viewing
    /\ page' = [page EXCEPT !.host = host]
    /\ UNCHANGED <<hostCert, rows, questions, viewing, wrong, continued>>

ChangeView ==
    /\ questions = <<>> /\ ~viewing
    /\ page' = [page EXCEPT !.main = ~@]
    /\ UNCHANGED <<hostCert, rows, questions, viewing, wrong, continued>>

(* handleConfirmationRequest: a page may ask about its own host and about     *)
(* those of what it loads.  A host the user allowed is confirmed and the      *)
(* request of a page that is not on screen is dropped, without a popup.  What *)
(* the question writes into the address bar is in PageView.                   *)
HandleConfirmationRequest(host, pem) ==
    /\ page.main
    /\ hostCert[host] # UNSECURE_HOST_ALLOWED
    /\ Len(questions) < MaxQuestions
    /\ questions' = Append(questions, [host |-> host, pem |-> pem])
    /\ viewing' = FALSE
    /\ UNCHANGED <<hostCert, rows, page, wrong, continued>>

(* certPopupButtonClicked of the popup on top, and the OK of the certificate. *)
Top == questions[Len(questions)]
Answered == SubSeq(questions, 1, Len(questions) - 1)
OnTop == questions # <<>> /\ ~viewing

ContinueClicked(stored) ==
    /\ OnTop
    /\ SaveWrongCertificateInfo(Top.host, Top.pem, stored, TRUE)
    /\ questions' = Answered
    /\ UNCHANGED <<page, viewing>>

BackToSafetyClicked ==
    /\ OnTop
    /\ questions' = Answered
    /\ UNCHANGED <<hostCert, rows, page, viewing, wrong, continued>>

ViewCertificateClicked ==
    /\ OnTop
    /\ SetCurrentTabCertData(Top.host, {Top.pem}, UNSECURE_HOST_UNKNOWN)
    /\ viewing' = TRUE
    /\ continued' = continued \ {Top.host}
    /\ UNCHANGED <<rows, page, questions, wrong>>

(* showCertificatePopup of the lock icon: the type of the map, the            *)
(* certificate of the store, "" when there is none or it cannot be read.      *)
StoredPem(host, read) == IF read THEN { r.pem : r \in rows[host] } ELSE {}

SecureIconClicked(read) ==
    /\ page.main /\ questions = <<>> /\ ~viewing
    /\ SetCurrentTabCertData(page.host, StoredPem(page.host, read), hostCert[page.host])
    /\ viewing' = TRUE
    /\ continued' = IF Parsed(StoredPem(page.host, read))
                      THEN continued ELSE continued \ {page.host}
    /\ UNCHANGED <<rows, page, questions, wrong>>

CertificateClosed ==
    /\ viewing
    /\ viewing' = FALSE
    /\ UNCHANGED <<hostCert, rows, page, questions, wrong, continued>>

(* The process ends and starts again; init reads the hosts and their types.   *)
(* When the read fails the map stays empty.                                   *)
Loaded(host, read) ==
    IF read /\ rows[host] # {} THEN (CHOOSE r \in rows[host] : TRUE).allow ELSE HOST_ABSENT

Restart(read) ==
    /\ hostCert' = [h \in Hosts |-> Loaded(h, read)]
    /\ page' = [page EXCEPT !.main = TRUE]
    /\ questions' = <<>> /\ viewing' = FALSE
    /\ wrong' = { h \in wrong : Loaded(h, read) \notin {SECURE_HOST, HOST_ABSENT} }
    /\ continued' = IF read THEN continued ELSE {}
    /\ UNCHANGED rows

Next ==
    \/ \E p \in Pems, valid, stored \in BOOLEAN : CertificateChanged(p, valid, stored)
    \/ \E h \in Hosts : Navigate(h)
    \/ ChangeView
    \/ \E h \in Hosts, p \in Pems : HandleConfirmationRequest(h, p)
    \/ \E ok \in BOOLEAN : ContinueClicked(ok) \/ SecureIconClicked(ok) \/ Restart(ok)
    \/ BackToSafetyClicked \/ ViewCertificateClicked \/ CertificateClosed

Spec == Init /\ [][Next]_vars

-----------------------------------------------------------------------------
(* A host is shown as secure only if no wrong certificate was kept for it:    *)
(* not by the user going on, not by the page, in this run or in an earlier    *)
(* one, whatever was viewed and whichever writes failed in between.  A write  *)
(* that failed is forgotten when the process ends.                            *)
SecureMeansValid == \A h \in wrong : hostCert[h] # SECURE_HOST

(* The browser does not ask again about a host the user went on to: what the  *)
(* map holds and what the store will give the next start both allow it, until *)
(* the user views the certificate, or one that cannot be read is met.         *)
ContinuedStays ==
    \A h \in continued : /\ hostCert[h] = UNSECURE_HOST_ALLOWED
                         /\ \E r \in rows[h] : r.allow = UNSECURE_HOST_ALLOWED

CertificatesAgree == SecureMeansValid /\ ContinuedStays
=============================================================================
