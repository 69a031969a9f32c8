--------------------------- MODULE MCParquetOutput ---------------------------
(* Rows with no table, with one, with two, and with one of two prefixes.   *)
EXTENDS ParquetOutput

MCRows == {{}, {"dns_"}, {"http2_"}, {"tls_", "ja3", "tunnel_"}}
=============================================================================
