---------------------------- MODULE MCRatingService ----------------------------
(* RatingService with a few requests, rows and events, for TLC. *)
EXTENDS RatingService

CONSTANTS m1, m2, ann, bob

Ask(op, api, record, user, value, token) ==
  [op |-> op, api |-> api, record |-> record, user |-> user, value |-> value, token |-> token]

\* Over gRPC: reads, a put as the integration test does it, one without user.
GRPCRequests ==
  { Ask("get", "grpc", m1, Empty, 0, Empty), Ask("get", "grpc", Empty, Empty, 0, Empty),
    Ask("put", "grpc", m1, ann, 5, ann), Ask("put", "grpc", m1, Empty, 0, Empty) }

\* Over HTTP: a read and puts with the token of the user, of another one, with
\* a forged one, values on both sides of 1 (tenths), and what is refused.
HTTPRequests ==
  { Ask("get", "http", m1, Empty, Junk, ann), Ask("get", "http", m1, Empty, Junk, Empty),
    Ask("other", "http", m1, ann, 40, ann), Ask("get", "gateway", m1, Empty, Junk, Empty),
    Ask("put", "gateway", m1, ann, 40, Empty),
    Ask("put", "http", m1, ann, 47, ann), Ask("put", "http", m1, ann, 47, bob),
    Ask("put", "http", m1, bob, 10, Forged), Ask("put", "http", m1, ann, 9, ann),
    Ask("put", "http", m1, ann, Junk, ann) }

MCRequests == GRPCRequests \cup HTTPRequests

Row(record, user, value) == [record |-> record, user |-> user, value |-> value]

MCImports == { Row(m1, ann, 2), Row(m1, bob, 5), Row(m2, ann, 4) }

\* The second event is not valid, and left out.
MCFile == << Row(m1, ann, 5), Row(Empty, ann, 4), Row(m2, bob, 4) >>
=============================================================================
