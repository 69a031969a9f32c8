---------------------------- MODULE MCRecordWalk ----------------------------
(* Payloads just long enough for the deepest nesting of each walk.         *)
EXTENDS RecordWalk

MCPayloads ==
  {<<"tcp_options", 12>>, <<"sctp_chunks", 18>>, <<"ip6_extensions", 26>>,
   <<"gtp_extensions", 34>>, <<"tls_records", 19>>, <<"dtls_records", 28>>,
   <<"certificates", 13>>, <<"http2_frames", 16>>, <<"dns_questions", 29>>,
   <<"dhcp_options", 10>>, <<"radius_attributes", 12>>, <<"enip_items", 18>>,
   <<"ssh_name_lists", 42>>}
=============================================================================
