------------------------------ MODULE Attestation ------------------------------
(***************************************************************************)
(* The attested TLS configuration of an enclave and its verification by a  *)
(* peer (attestation/src): a fresh key pair, the quote that binds its      *)
(* public key to the measurement of the enclave, the report the            *)
(* attestation service endorses it with, the certificate that carries      *)
(* both, and what AttestationReportVerifier checks of the certificate of   *)
(* the other end.                                                          *)
(*                                                                         *)
(* A key stands for its key pair.  A nonce is as fresh as the key, so the  *)
(* key also stands for the nonce of its request.                           *)
(***************************************************************************)
EXTENDS Integers, Sequences, FiniteSets

CONSTANTS
  NumAuditors    \* the length of AUDITOR_PUBLIC_KEYS

(* The measurement of service s of release r: one signing key signs every  *)
(* enclave of a release, and MR_ENCLAVE tells the enclaves apart.          *)
EnclaveMeasurement(s, r) == [mr_signer |-> r, mr_enclave |-> <<s, r>>]

-----------------------------------------------------------------------------
(* platform/sgx.rs.  The quoting enclave's answer holds a quote and a      *)
(* report over the nonce and the quote; an answer to an earlier request    *)
(* may arrive in place of the one asked for.                               *)

create_sgx_isv_enclave_report(k, m) == [report_data |-> k, measure |-> m]

Answer(k, m) ==
  LET quote == create_sgx_isv_enclave_report(k, m)
  IN  [quote |-> quote, qe_report |-> <<k, quote>>]

get_sgx_quote(nonce, ans) ==
  {q \in {ans.quote} : ans.qe_report = <<nonce, q>>}

(* service.rs: an answer of the attestation service, as far as get_report  *)
(* looks at it.  Its report repeats the quote it was asked about.          *)
get_report(resp, quote) ==
  {r \in {[quote |-> quote, version |-> resp.version, status |-> resp.status,
           format |-> resp.format, certs |-> resp.certs, trusted |-> resp.trusted]} :
     /\ resp.stream \in {"closed", "aborted"}   \* read_to_end
     /\ resp.complete
     /\ resp.code = 200
     /\ resp.content_length > 0
     /\ resp.signature
     /\ resp.certs >= 0}                        \* -1: no such header

(* attestation.rs: a new key, its report, and the certificate with the     *)
(* report as its extension; {} when a step fails.                          *)
create_cert_with_extension(k, report) == [key |-> k, ext |-> report]

AttestedTlsConfig_new(k, m, ans, resp) ==
  {[cert |-> create_cert_with_extension(k, r), private_key |-> k, age |-> 0] :
     r \in UNION {get_report(resp, q) : q \in get_sgx_quote(k, ans)}}

-----------------------------------------------------------------------------
(* report.rs.                                                              *)

(* A report of 384 bytes after the 48 of the quote's own fields, and       *)
(* nothing else.                                                           *)
SgxEnclaveReport_parse_from(len) == len = 384

SgxQuote_parse_from(f) ==
  /\ f.kind \in CASE f.version \in {1, 2} -> {0, 1}
                  [] f.version = 3        -> {2, 3}
                  [] OTHER                -> {}
  /\ SgxEnclaveReport_parse_from(f.len - 48)

SgxQuoteStatus ==
  {"OK", "SIGNATURE_INVALID", "GROUP_REVOKED", "SIGNATURE_REVOKED", "KEY_REVOKED",
   "SIGRL_VERSION_MISMATCH", "GROUP_OUT_OF_DATE", "OUT_OF_DATE",
   "OUT_OF_DATE_CONFIGURATION_NEEDED", "CONFIGURATION_NEEDED", "SW_HARDENING_NEEDED",
   "CONFIGURATION_AND_SW_HARDENING_NEEDED"}

SgxQuoteStatus_from(status) ==
  IF status \in SgxQuoteStatus THEN status ELSE "UnknownBadStatus"

(* elapsed is the time of the verifier minus the time stamp of the report; *)
(* a negative one does not convert to u64.  Without a signing certificate  *)
(* the verifier panics, which ends the handshake just as an error does.    *)
from_cert(cert, elapsed) ==
  /\ cert.ext.certs > 0
  /\ cert.ext.trusted                 \* chain to the root CA, and signature
  /\ cert.ext.version = 4
  /\ elapsed >= 0
  /\ SgxQuote_parse_from(cert.ext.format)
  /\ cert.key = cert.ext.quote.report_data

(* verifier.rs.                                                            *)
universal_quote_verifier(cert) ==
  SgxQuoteStatus_from(cert.ext.status) # "UnknownBadStatus"

verify_measures(attrs, cert) ==
  \E a \in attrs : /\ a.mr_signer = cert.ext.quote.measure.mr_signer
                   /\ a.mr_enclave = cert.ext.quote.measure.mr_enclave

verify_cert(attrs, cert, elapsed) ==
  /\ from_cert(cert, elapsed)
  /\ verify_measures(attrs, cert)
  /\ universal_quote_verifier(cert)

-----------------------------------------------------------------------------
(* types/src/attestation.rs: a signature that comes with enclave_info is   *)
(* the set of the auditors' keys that it verifies under.  No signature at  *)
(* all, or those of some auditors, will do.                                *)
EnclaveInfo_verify(signatures) ==
  \A i \in DOMAIN signatures : \E k \in 1 .. NumAuditors : k \in signatures[i]

verify_and_new(signatures) ==
  /\ Len(signatures) <= NumAuditors
  /\ EnclaveInfo_verify(signatures)
=============================================================================
