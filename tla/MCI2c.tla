------------------------------- MODULE MCI2c -------------------------------
EXTENDS I2c

MCPayloads == {<<0, 32, 7>>, <<9, 8>>}
MCWorlds == {{}, {"nack"}, {"dead", "nack"}, {"dead", "reset"}}
=============================================================================
