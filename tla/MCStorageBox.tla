---------------------------- MODULE MCStorageBox ----------------------------
(* Two keys; one request per pool, so that two calls can run a pool empty. *)
EXTENDS StorageBox

\* Calls that have to do with each other; between them they are all calls there are.
MCPrograms ==
  {{"put", "get", "delete", "free_tuple"},
   {"insert_many", "delete_many", "select", "free_port"},
   {"insert", "update"}, {"upsert", "update_many"},
   {"put_many", "iterator", "next", "next_many", "destroy"},
   {"upsert", "misread", "index_get"}, {"insert", "index_update"}, {"insert_many", "index_update_many"},
   {"evaluate", "call", "free_buffer", "truncate", "insert"},
   {"insert_many", "index_iterator", "index_select", "next"},
   {"insert_many", "min", "index_max"}, {"insert_many", "max", "index_min"},
   {"count", "length", "index_count", "index_length", "id_by_name", "index_id_by_name", "delete"}}

MCBatches == {<<1, 2>>, <<2, 2>>}
====
